SPECIFICATION Spec
CONSTANTS
  BarModulus = 64
  MaxBlock = 8192
  PCI_MAX_BUS = 2
  PCI_MAX_DEVICE = 2
  PCI_MAX_FUNCTION = 3
  Cards <- MCCards
INVARIANTS DiskIsFound BarsComeBack ReadyMeansReady AstrayOnlyWithoutDevice
PROPERTIES BringUpInOrder
CHECK_DEADLOCK FALSE
