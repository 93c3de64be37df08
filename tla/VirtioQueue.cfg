SPECIFICATION FairSpec
CONSTANTS
  QSizes = {2, 3, 4}
  IdxMod = 5
  Blocks = {b1, b2}
  NoBlock = NoBlock
  DataLen = 1
INVARIANT DescriptorsConserved
INVARIANT DeviceServesLiveChain
INVARIANT IndexesInStep
INVARIANT ResultIsHonest
PROPERTY EveryRequestAnswered
PROPERTY ImplementsRequests
