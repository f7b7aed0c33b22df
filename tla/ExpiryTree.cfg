SPECIFICATION Spec
CONSTANTS
  orderBlockInterval = 2
  TIME_EXTENSION = 6
  DeployBlock = 3
  MaxOrders = 4
  MaxBlock = 6
  BlockIntervals = {0, 1, 2, 3}
INVARIANTS
  TypeOK
  WellFormed
  FutureExpiriesListed
PROPERTY
  ImplementsExpirySet
