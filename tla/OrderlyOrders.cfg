SPECIFICATION OrderlySpec
CONSTANTS
  RATE_PRECISION = 2
  SCALE = 16
  MaxBlock = 6
  MaxOrders = 3
  Account = {alice}
  alice = alice
  bob = bob
  Amount = {12}
  BlockIntervals = {0, 1}
  orderBlockInterval = 1
  LP_FEE = 1
  FEE_BASE = 8
  DeployBlock = 2
  Reserve = 12
  InitialReserve <- MCInitialReserve
INVARIANTS
  SalesRateIsOfLiveOrders
  Solvent
  NeverLocked
