SPECIFICATION Spec
CONSTANTS
  Runnable <- SensibleScripts
  Events = {"kill", "end"}
  Views = {"latest", "pending"}
  Delays = {0, 1}
  FirstPools <- NoPairOrOwn
  MaxRuns = 2
  MaxTime = 1
  MaxPrice = 0
  MaxOrders = 6
INVARIANTS
  UsesItsOwnOrders

  
  
CHECK_DEADLOCK FALSE
