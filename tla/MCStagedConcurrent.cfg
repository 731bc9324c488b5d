SPECIFICATION Spec
CONSTANTS
  Paths = {p1}
  Runs = {r1, r2}
  None = None
  MaxEdits = 2
  MaxFaults = 0
  AllowConcurrent = TRUE
  AllowForcedClear = FALSE
SYMMETRY Symmetry
INVARIANTS
  NoLostUpdate
  PublishUnderMarker
CHECK_DEADLOCK FALSE
