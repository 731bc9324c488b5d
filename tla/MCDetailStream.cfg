SPECIFICATION Spec
CONSTANTS
  Window = 2
  Chunk = 3
  Block = 3
  Jobs <- MCJobs
  Bytes <- MCBytes
  Strange <- MCStrange
  BatchFrames = 3
  BatchBytes = 3
  Credit = 12
  Channel = 1
  SealFiles = 2
  SealBytes = 4
INVARIANTS
  PlanSound
  ControlsEnforced
  OutputsExact
  ReserveKept
  NoSpuriousAbort
