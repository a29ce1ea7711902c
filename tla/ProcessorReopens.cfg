SPECIFICATION Spec
CONSTANTS
  m1 = m1
  m2 = m2
  t1 = t1
  t2 = t2
  r1 = r1
  r2 = r2
  Messages <- MCMessages
  Types <- MCTypes
  TypeOf <- MCTypeOf
  Priority <- MCPriority
  Runs <- MCTwoRuns
  FetchStatuses <- RecoveringFetch
  DirectCalls = FALSE
  MaxDisruptions = 0
  MaxCount = 2
  BatchSize = 2
PROPERTIES
  ProcessedIsFinal
