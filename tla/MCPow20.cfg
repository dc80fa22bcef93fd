CONSTANTS
  Ticks = {"a", "b"}
  Pks = {"p", "q"}
  Transfers <- MCTransfers
  MaxAmount = 10
  MaxStart = 9
  MaxHeight = 5
  Forks = 3
  Depth = 2
  MaxCrashes = 1
SPECIFICATION FairSpec
INVARIANTS BalancesFollowEvents WorkCountsOnce DerivedFollow
PROPERTY ReachesTip
CHECK_DEADLOCK FALSE
