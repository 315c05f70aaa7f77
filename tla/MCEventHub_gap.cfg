SPECIFICATION Spec
CONSTANTS
  Writers = {w1, w2}
  Subs = {s1}
  Buffer = 2
  MaxBatch = 2
  MaxEntries = 3
  MaxPreviews = 0
CHECK_DEADLOCK FALSE
INVARIANT NoneMissed
