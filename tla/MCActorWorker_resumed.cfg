SPECIFICATION Spec
CONSTANTS
  w1 = w1
  w2 = w2
  s1 = s1
  s2 = s2
  r1 = r1
  Nobody = Nobody
  Workers = {w1}
  Commands = {s1, r1}
  Kind <- MCKind
  Target <- MCTarget
  MaxGenerations = 2
  BatchSize = 1
  MaxFaults = 0
  MaxParks = 1
CHECK_DEADLOCK FALSE
INVARIANT ResumedIsSeen
