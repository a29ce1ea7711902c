SPECIFICATION MCSpec
CONSTANTS
  Calls = {c1, c2, c3}
  Units = {u1, u2}
  NoUnit = NoUnit
  MaxChanges = 1
  MaxFaults = 2
  s1 = s1
  s2 = s2
  s3 = s3
  b1 = b1
  NoBus = NoBus
  UnitBus = UnitBus
  x1 = x1
  x2 = x2
  Services = {s1, s2}
  Aware <- OnlyBus
  MaxRegistries = 1
  MaxRoots = 1
  MaxBuilders = 2
  MaxMade = 2
  MaxGiven = 2
INVARIANTS
  OutcomeIsTold
  BuiltAsTold
PROPERTIES
  KeepsToItsOwn
  InitializesInOrder
  CallsEndAsAnswered
  RegistriesTellTheTruth
CHECK_DEADLOCK FALSE
