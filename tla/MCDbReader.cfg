SPECIFICATION FairSpec
CONSTANTS
  Calls = {c1, c2, c3, c4}
  Relocking = {c1}
  Revealed = 2
  Panicking = {c2}
  Nobody = Nobody
  Refresher = Refresher
  MaxFlushes = 3
INVARIANT OneVersion
PROPERTY Answered
CHECK_DEADLOCK FALSE
