SPECIFICATION FairSpec
CONSTANTS
  Paths <- MCPaths
  DirPaths <- MCDirs
  Inputs <- MCInputs
  MaxEdits = 2
  ScanLimit = 2
  ChannelSize = 1
  HashLimit = 2
  MaxReadErrors = 1
INVARIANTS
  ScanComplete
  FirstErrorReported
  AllOrError
  DigestOfOneFile
PROPERTIES
  SideScanEnds
CHECK_DEADLOCK FALSE
