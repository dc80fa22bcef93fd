CONSTANTS
  Runes = {"r1", "r2"}
  Ops <- MCOps
  MaxHeight = 3
  Forks = 2
  Interval = 2
  MaxSavepoints = 2
  MaxFailures = 0
  MaxCrashes = 0
  CrashHeight = 2
  MaxEvents = 4
SPECIFICATION Spec
INVARIANT ReorgProtection
CHECK_DEADLOCK FALSE
