CONSTANTS
  w1 = w1  w2 = w2
  Workers = {w1}
  MaxFaults = 1
  MaxSignings = 1
SPECIFICATION FairSpec
INVARIANT CleanedIsEmpty
INVARIANT RetainedIsSound
INVARIANT PinnedSnapshotStays
PROPERTY AbortFinishes
CHECK_DEADLOCK FALSE
