SPECIFICATION FairSpec
CONSTANTS
  MaxHeight = 9
  Forks = 2
  Final = 2
  MaxReorg = 2
  CommitInterval = 3
  Interval = 4
  MaxSavepoints = 2
  Channel = 2
  MaxCrashes = 1
  MaxFaults = 0
  FaultsAt = {"block", "batch"}
PROPERTY ServesBitcoin
CHECK_DEADLOCK FALSE
