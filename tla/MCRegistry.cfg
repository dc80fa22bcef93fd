CONSTANTS
  Kinds = {"bitmap", "sns"}
  Inscriptions <- MCInscriptions
  MaxHeight = 4
  Forks = 3
  Depth = 2
  MaxCrashes = 1
SPECIFICATION FairSpec
INVARIANTS FirstIsFirst HashesNameRows
PROPERTY ReachesTip
CHECK_DEADLOCK FALSE
