SPECIFICATION FairSpec
CONSTANTS
  Calls = {c1, c2, c3}
  Relocking = {}
  Revealed = 2
  Panicking = {c2}
  Nobody = Nobody
  Refresher = Refresher
  MaxFlushes = 3
PROPERTY OthersAnswered
CHECK_DEADLOCK FALSE
