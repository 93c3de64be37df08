SPECIFICATION Spec
CONSTANTS
  Vectors = {linux, windows}
  Layouts <- LayoutsFit
  DiskSize = 5
  HeaderSectors = 1
  BufSectors = 2
  LenLimit = 8
  Faults = {"init"}
  MaxClock = 6
  Blank = Blank
  NoImage = NoImage
  NoHeader = NoHeader
INVARIANT ResumedWhole
PROPERTY ImplementsSnapshot
CHECK_DEADLOCK FALSE
