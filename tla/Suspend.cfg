SPECIFICATION FairSpec
CONSTANTS
  Kernels = {linux, windows, oldwindows}
  PtsFirst = {windows, oldwindows}
  Checkpoints = {windows}
  Core = Core
  Zero = Zero
  None = None
INVARIANT TypeOK
INVARIANT CoreKnowsSleeper
INVARIANT ResumedAtOwnVector
INVARIANT SleeperIsCaught
INVARIANT CoreLetsGo
PROPERTY WakesUp
