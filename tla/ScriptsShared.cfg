SPECIFICATION Spec
CONSTANTS
  Runnable <- WaitingScripts
  Events = {"create", "fund", "trade", "order", "end"}
  Views = {"latest", "pending"}
  Delays = {0, 4}
  FirstPools <- SharedPairs
  MaxRuns = 1
  MaxTime = 4
  MaxPrice = 1
  MaxOrders = 2
INVARIANTS
  ScriptsTypeOK
  CompletedMeansDone
  ProvidesOnce
PROPERTIES
  OthersOrdersUntouched
CHECK_DEADLOCK FALSE
