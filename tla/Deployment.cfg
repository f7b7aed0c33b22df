SPECIFICATION Spec
CONSTANTS
  Deployed <- ListedNetworks
  Fresh <- FreshNetworks
  MaxRuns = 3
  Careful = TRUE
INVARIANTS
  OneTwammPerFactory
  LinksRight
  PairFound
CHECK_DEADLOCK FALSE
