CONSTANTS
  w1 = w1  w2 = w2
  Workers = {w1}
  MaxFaults = 0
  MaxSignings = 1
SPECIFICATION FairSpec
PROPERTY AbortRemovesAll
CHECK_DEADLOCK FALSE
