SPECIFICATION FairSpec
CONSTANTS
  MaxHeight = 10
  Forks = 3
  Final = 2
  MaxReorg = 1
  CommitInterval = 3
  Interval = 4
  MaxSavepoints = 2
  Channel = 2
  MaxCrashes = 0
  MaxFaults = 0
  FaultsAt = {"block", "batch"}
PROPERTY ServesBitcoin
CHECK_DEADLOCK FALSE
