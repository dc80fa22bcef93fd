CONSTANTS
  MaxHeight = 3
  Forks = 1
  Final = 3
  PhaseOne = 4
  Depth = 10
  CommitEvery = 2
  RefundHeight = 2
  Quiet <- QuietSecond
  MaxCrashes = 1
SPECIFICATION Spec
INVARIANT RefundStored
