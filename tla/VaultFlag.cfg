SPECIFICATION Spec
CONSTANTS
  w1 = w1
  w2 = w2
  Writers <- MCWriters
  MaxWrites = 2
  MaxFaults = 0
  MaxBoots = 1
INVARIANT SkipMeansSealed
CHECK_DEADLOCK FALSE
