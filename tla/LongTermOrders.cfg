SPECIFICATION Spec
CONSTANTS
  RATE_PRECISION = 2
  SCALE = 16
  MaxBlock = 7
  MaxOrders = 2
  Account = {alice, bob}
  alice = alice
  bob = bob
  Amount = {1, 11}
  BlockIntervals = {0, 1}
  orderBlockInterval = 2
  LP_FEE = 1
  FEE_BASE = 8
  DeployBlock = 2
  Reserve = 12
  InitialReserve <- MCInitialReserve
SYMMETRY Symmetry
INVARIANTS
  TypeOK
  EndingRatesMatchOrders
  EveryExpiryScheduled
  OrderRecordsAgree
  CheckpointsOrdered
PROPERTIES
  ProceedsNeverShrink
  ProductNeverFalls
  ImplementsOrderBook
