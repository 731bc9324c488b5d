SPECIFICATION MCSpec
CONSTANTS
  a1 = a1
  a2 = a2
  k1 = k1
  k2 = k2
  i1 = i1
  i2 = i2
  Attempts = {a1}
  Clears = {k1}
  Items = {i1}
  Detailed = {i1}
  None = none
  MaxFaults = 0
  PowerMayFail = FALSE
INVARIANTS StagedWhenCommitting
CHECK_DEADLOCK FALSE
