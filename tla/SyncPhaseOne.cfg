CONSTANTS
  MaxHeight = 3
  Forks = 2
  Final = 1
  PhaseOne = 2
  Depth = 10
  CommitEvery = 2
  RefundHeight = 0
  Quiet <- QuietThird
  MaxCrashes = 0
SPECIFICATION FairSpec
PROPERTY ReachesTip
