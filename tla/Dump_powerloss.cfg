SPECIFICATION Spec
CONSTANTS
  Vectors = {linux, windows}
  Layouts <- LayoutsFit
  DiskSize = 5
  HeaderSectors = 1
  BufSectors = 2
  LenLimit = 8
  Faults = {"power"}
  MaxClock = 3
  Blank = Blank
  NoImage = NoImage
  NoHeader = NoHeader
CHECK_DEADLOCK FALSE
INVARIANT ValidHeaderMeansDump
