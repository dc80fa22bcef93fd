CONSTANTS
  MaxHeight = 4
  Forks = 2
  Final = 0
  PhaseOne = 2
  Depth = 1
  CommitEvery = 2
  RefundHeight = 0
  Quiet <- QuietThird
  MaxCrashes = 2
SPECIFICATION Spec
PROPERTY WholeBlocks
