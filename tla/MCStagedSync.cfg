SPECIFICATION Spec
CONSTANTS
  Paths = {p1}
  Runs = {r1, r2}
  None = None
  MaxEdits = 2
  MaxFaults = 1
  AllowConcurrent = FALSE
  AllowForcedClear = TRUE
SYMMETRY Symmetry
INVARIANTS
  NoLostUpdate
PROPERTIES
  NoResurrection
CHECK_DEADLOCK FALSE
