SPECIFICATION MCOneCallSpec
CONSTANTS
  RATE_PRECISION = 2
  SCALE = 16
  MaxBlock = 6
  MaxOrders = 2
  Account = {alice}
  Amount = {7}
  BlockIntervals = {0, 1}
  orderBlockInterval = 1
  LP_FEE = 1
  FEE_BASE = 8
  DeployBlock = 2
  InitialReserve <- MCInitialReserve
  Collector = collector
  NoAddress = no_address
  FeeArg = {1}
  InitialAmounts <- MCInitialAmounts
  ReserveA = 9
  ReserveB = 4
  MaxCalls = 4
  LpAmount = {2}
  SwapAmount = {6}
  MaxSupply = 10
  MaxReserve = 24
INVARIANT
  FundedNeverLocked
CHECK_DEADLOCK FALSE
