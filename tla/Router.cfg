SPECIFICATION Spec
CONSTANTS
  WETH = "A"
  Amount <- Amounts
  Wealth = 2
  Gifts <- GiftsOfEachToken
INVARIANTS
  RouterTypeOK
  RouterKeepsNothing
  PairBacked
  LimitsKept
PROPERTIES
  EmptyWhenCalledBack
CHECK_DEADLOCK FALSE
