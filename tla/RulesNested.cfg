SPECIFICATION Spec
CONSTANTS
  Facts = {f1}
  Conditions = {c1, c2}
  HasPart = HasPart
  MaxValidators = 1
  MaxRules = 2
  MaxDepth = 2
INVARIANT ReportsWhatWasWritten
CHECK_DEADLOCK FALSE
