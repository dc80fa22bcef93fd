CONSTANTS
  MaxHeight = 5
  Forks = 3
  Final = 2
  PhaseOne = 2
  Depth = 10
  CommitEvery = 2
  RefundHeight = 0
  Quiet <- QuietThird
  MaxCrashes = 2
SPECIFICATION FairSpec
INVARIANTS TypeOK AppliedOnce Synced
PROPERTIES WholeBlocks ReachesTip
