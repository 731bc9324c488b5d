SPECIFICATION WavesSpec
CONSTANTS
  Paths = {p1, p2}
  Runs = {r1}
  None = None
  MaxEdits = 2
  MaxFaults = 1
  AllowConcurrent = FALSE
  AllowForcedClear = FALSE
INVARIANTS
  TypeOK
  AgreedBaseline
  OkLeavesNoMarker
PROPERTIES
  RunEnds
  SuccessConverges
CHECK_DEADLOCK FALSE
