SPECIFICATION MCSpec
SYMMETRY Symmetry
CONSTANTS
  a1 = a1
  a2 = a2
  k1 = k1
  k2 = k2
  i1 = i1
  i2 = i2
  Attempts = {a1, a2}
  Clears = {k1, k2}
  Items = {i1, i2}
  Detailed = {i1}
  None = none
  MaxFaults = 2
  PowerMayFail = TRUE
INVARIANTS GuardedCommit RemovedMeansClean CommitDurable
CHECK_DEADLOCK FALSE
