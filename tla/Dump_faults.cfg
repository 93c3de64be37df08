SPECIFICATION FairSpec
CONSTANTS
  Vectors = {linux, windows}
  Layouts <- LayoutsAll
  DiskSize = 5
  HeaderSectors = 1
  BufSectors = 2
  LenLimit = 8
  Faults = {"init", "read", "write", "power"}
  MaxClock = 4
  Blank = Blank
  NoImage = NoImage
  NoHeader = NoHeader
INVARIANT TypeOK
INVARIANT HeaderMeansDump
INVARIANT StoreDelivers
INVARIANT SwitchDelivers
INVARIANT NothingLost
INVARIANT CleanAbort
PROPERTY OnlyRamAreas
 
CHECK_DEADLOCK FALSE
