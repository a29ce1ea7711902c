SPECIFICATION MCSpec
CONSTANTS
  Objects = {o1, o2, o3, o4}
  Primitives = {p, q}
  Keys = {a, b}
  Absent = Absent
  o1 = o1
  o2 = o2
  o3 = o3
  o4 = o4
  p = p
  q = q
  f1 = f1
  f2 = f2
  c1 = c1
  HasPart = HasPart
  s1 = s1
  s2 = s2
  x1 = x1
  x2 = x2
  x3 = x3
INVARIANTS
  EqualIsProved
  SummaryIsCurrent
PROPERTIES
  ComparisonEndsRight
  RulesMeanWhatWasWritten
  CombiningMeansWhatItSays
CHECK_DEADLOCK FALSE
