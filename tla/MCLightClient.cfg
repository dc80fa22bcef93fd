CONSTANTS
  MaxHeight = 3
  Forks = 2
  Final = 0
  PhaseOne = 2
  Depth = 10
  CommitEvery = 2
  RefundHeight = 0
  Quiet <- QuietThird
  MaxCrashes = 1
SPECIFICATION LightSpec
INVARIANT WrongIsTakenBack
PROPERTY LightReachesTip
