CONSTANTS
  MaxHeight = 4
  Forks = 2
  Final = 1
  PhaseOne = 4
  Depth = 10
  CommitEvery = 2
  RefundHeight = 0
  Quiet <- QuietSecond
  MaxCrashes = 0
SPECIFICATION FairSpec
PROPERTY FollowsBitcoin
