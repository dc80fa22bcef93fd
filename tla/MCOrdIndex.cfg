SPECIFICATION Spec
CONSTANTS
  MaxHeight = 9
  Forks = 3
  Final = 2
  MaxReorg = 3
  CommitInterval = 3
  Interval = 3
  MaxSavepoints = 2
  Channel = 2
  MaxCrashes = 1
  MaxFaults = 1
  FaultsAt = {"block", "batch"}
INVARIANTS TypeOK ServedIsAChain OnlyWholeBatches
PROPERTY ServedCutOrExtended
CHECK_DEADLOCK FALSE
