SPECIFICATION Spec
CONSTANTS
  m1 = m1
  m2 = m2
  t1 = t1
  t2 = t2
  r1 = r1
  r2 = r2
  Messages <- MCMessages
  Types <- MCTypes
  TypeOf <- MCTypeOf
  Priority <- MCPriority
  Runs <- MCTwoRuns
  FetchStatuses <- RecoveringFetch
  DirectCalls = TRUE
  MaxDisruptions = 2
  MaxCount = 2
  BatchSize = 2
SYMMETRY RunSymmetry
INVARIANTS
  TypeOK
  ProcessedWasHandled
  OneTimer
