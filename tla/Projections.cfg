SPECIFICATION ProjectionsSpec
CONSTANTS
  Workers = {w1}
  Calls = {w1, w2}
  CheckpointEvery = 2
  Attempts = 3
  LettersFrom = 3
  Arrivals = 4
  RetriedArrivals = 3
  Rebuilds = 1
  Rejections = 2
  RetriedRejections = 4
  OverlapRejections = 1
  FailureThreshold = 2
  HalfOpenMaxAttempts = 2
  RecoveryTimeout = 2
  MaxCount = 4
  Projections = {p1, p2}
  Narrow = {p2}
  Events = {1, 2, 3, 4}
  FewEvents = {2, 4}
  SnapshotEvery = 2
  Engines = 2
  Dispatches = 4
  HubRejections = 1
  Restarts = 1
INVARIANTS
  ReadModelRight
PROPERTIES
  StoredResumes
  EventsSettle
  CircuitByTheRules
  CircuitRecovers
CHECK_DEADLOCK FALSE
