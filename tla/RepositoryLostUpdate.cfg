SPECIFICATION Spec
CONSTANTS
  Callers = {c1, c2}
  Exclusive = FALSE
  ApplyDuringSave = FALSE
  MaxEvents = 2
  MaxFailures = 0
INVARIANTS
  StreamNumbered
