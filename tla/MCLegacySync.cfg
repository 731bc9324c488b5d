SPECIFICATION Spec
CONSTANTS
  Order <- MCOrder
  Parent <- MCParent
  Root = "."
  Plans <- MCPlans
  Peers <- MCPeers
  Size <- MCSize
  BatchFiles = 2
  BatchBytes = 2
  MaxFaults = 2
INVARIANTS
  MarkersCoverTheRun
  JournalFollowsWork
  UndisturbedSucceeds
CHECK_DEADLOCK FALSE
