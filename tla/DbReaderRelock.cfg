SPECIFICATION FairSpec
CONSTANTS
  Calls = {c1, c2, c3}
  Relocking = {c1}
  Revealed = 2
  Panicking = {}
  Nobody = Nobody
  Refresher = Refresher
  MaxFlushes = 3
PROPERTY OthersAnswered
CHECK_DEADLOCK FALSE
