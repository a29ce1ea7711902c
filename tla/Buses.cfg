SPECIFICATION BusesSpec
CONSTANTS
  Handlers = {h1, h2}
  Publications = {p1, p2}
  FewPublications = {p1}
  Contexts = {ours, theirs}
  None = None
  MaxStamps = 3
  FewStamps = 2
  MaxSets = 2
  Troubles = 2
  FewTroubles = 1
  CommandTypes = {t1, t2}
  Commands = {c1, c2}
  CommandNexts = 2
  CommandHandlers = 3
  ConfiguredTypes = {t1}
  ConfiguredCommands = {c1}
  QueryTypes = {u1}
  Queried = {q1}
  ConfiguredNexts = 1
  ConfiguredHandlers = 1
  MaxMiddlewares = 2
  Given = 1
  MaxTries = 2
INVARIANTS
  ConfigurationHolds
PROPERTIES
  HandlersServed
  PublicationsEndWell
  CommandsThroughMiddlewares
CHECK_DEADLOCK FALSE
