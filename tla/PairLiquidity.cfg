SPECIFICATION MCOrderlySpec
CONSTANTS
  RATE_PRECISION = 2
  SCALE = 16
  MaxBlock = 5
  MaxOrders = 1
  Account = {alice}
  Amount = {7}
  BlockIntervals = {0}
  orderBlockInterval = 2
  LP_FEE = 1
  FEE_BASE = 8
  DeployBlock = 2
  InitialReserve <- MCInitialReserve
  Collector = collector
  NoAddress = no_address
  FeeArg = {1}
  InitialAmounts <- MCInitialAmounts
  ReserveA = 9
  ReserveB = 4
  MaxCalls = 6
  LpAmount = {2}
  SwapAmount = {6}
  MaxSupply = 10
  MaxReserve = 24
INVARIANTS
  PairTypeOK
  SharesMeanReserves
  RootKLastNotAhead
  Solvent
PROPERTIES
  ShareValueKept
  FeeIsPartOfGrowth
CHECK_DEADLOCK FALSE
