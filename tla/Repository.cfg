SPECIFICATION MCSpec
CONSTANTS
  Callers = {c1, c2}
  Exclusive = TRUE
  ApplyDuringSave = FALSE
  MaxEvents = 4
  MaxFailures = 2
INVARIANTS
  TypeOK
  CopiesConsistent
  PublishedArePersisted
  NoEventLost
PROPERTIES
  ExclusiveSaves
  CalmSavesPublish
