SPECIFICATION Spec
CONSTANTS
  Runnable <- SampleRunGoerliOnly
  Events = {}
  Views = {"latest", "pending"}
  Delays = {0}
  FirstPools <- SharedPairs
  MaxRuns = 1
  MaxTime = 0
  MaxPrice = 0
  MaxOrders = 4
INVARIANTS
  IdIsOwn
CHECK_DEADLOCK FALSE
