SPECIFICATION MCSpec
CONSTANTS
  k1 = k1
  k2 = k2
  Calls = {k1}
  Builds <- Sourced
  Offered <- Capabilities
  Liberties = {}
  MaxEvents = 3
  MaxState = 6
  MaxWrappers = 2
  MaxFailures = 1
  MaxVersion = 3
  Configs <- Sourced
  Processors <- Processed
  MaxAggregates = 2
  MaxLength = 2
  MaxJobs = 1
  MaxChanges = 1
INVARIANTS
  DisciplinedHistory
  AllWereProcessed
  StoreNumbered
PROPERTIES
  EventsAreRaised
CHECK_DEADLOCK FALSE
