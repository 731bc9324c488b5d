SPECIFICATION Spec
CONSTANTS
  Order <- MCOrder
  Parent <- MCParent
  Root = "."
  Class <- MCClass
  Scenarios <- MCFew
  MaxEdits = 1
  MaxFaults = 1
INVARIANTS
  TypeOK
  NothingNewLost
  CommittedIsDurable
  PreflightSuffices
  ManifestComplete
  ReadonlyKept
PROPERTIES
  CommitIsCheckpoint
CHECK_DEADLOCK FALSE
