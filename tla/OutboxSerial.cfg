SPECIFICATION FairSpec
CONSTANTS
  m1 = m1
  m2 = m2
  t1 = t1
  t2 = t2
  r1 = r1
  r2 = r2
  Messages <- MCMessages
  Types <- MCTypes
  TypeOf <- MCTypeOf
  Priority <- MCPriority
  Runs <- MCOneRun
  FetchStatuses <- RecoveringFetch
  DirectCalls = FALSE
  MaxDisruptions = 2
  MaxCount = 3
  BatchSize = 2
INVARIANTS
  RedeliveryNeedsLoss
PROPERTIES
  ImplementsLifecycle
  EveryMessageProcessed
