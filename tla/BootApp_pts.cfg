SPECIFICATION EntrySpec
CONSTANTS
  MaxRamAreas = 3
  PageCount = 17
  LowPages = 16
  Machines <- MCMachines
  Rm <- MCRm
  Pm <- MCPm
  Core <- MCCore
  DsdtPages = 2
  FirmwarePage = 4
  Orders <- MCOrders
  PT_ENTRIES_NUM = 2
INVARIANT PtsIsRenamed
CHECK_DEADLOCK FALSE
