SPECIFICATION Spec
CONSTANTS
  MaxHeight = 8
  Forks = 2
  Final = 2
  MaxReorg = 2
  CommitInterval = 3
  Interval = 4
  MaxSavepoints = 2
  Channel = 2
  MaxCrashes = 0
  MaxFaults = 1
  FaultsAt = {"batch"}
INVARIANT AllWhole
CHECK_DEADLOCK FALSE
