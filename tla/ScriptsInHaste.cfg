SPECIFICATION Spec
CONSTANTS
  Runnable <- HastyScripts
  Events = {"kill", "hurry"}
  Views = {"latest", "pending"}
  Delays = {0, 4}
  FirstPools <- SharedPairs
  MaxRuns = 2
  MaxTime = 4
  MaxPrice = 0
  MaxOrders = 4
INVARIANTS
  AllowanceCoversNext
  SuccessMeansEffect
PROPERTIES
  RunEnds
CHECK_DEADLOCK FALSE
