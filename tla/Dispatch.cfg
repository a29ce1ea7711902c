SPECIFICATION MCSpec
CONSTANTS
  placed = placed
  shipped = shipped
  billing = billing
  stock = stock
  k1 = k1
  k2 = k2
  EventTypes <- MCTypes
  Contexts <- MCContexts
  Callers = {k1}
  Overlapping = FALSE
  ApplyMeanwhile = FALSE
  Dropping = FALSE
  Middlewares = {logging}
  Processors <- Both
  Rules <- MCRules
  Audited = {placed}
  TypeOf <- MCTypeOf
  MaxEvents = 3
  MaxFailures = 2
  Constants = {TRUE}
  MaxRules = 2
  FlowTypes = {"order"}
  FlowContexts = {"billing", "stock"}
  Transformers <- MCTransformers
  Classes <- MCClasses
  MaxRaised = 2
  MaxPublished = 2
  MaxMessages = 2
  MaxDeliveries = 2
INVARIANTS
  ClearedAreDelivered
  RoutedOnceAsMeant
  ConsumersTakeEachOnce
PROPERTIES
  EventsArrive
CHECK_DEADLOCK FALSE
