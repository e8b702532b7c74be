SPECIFICATION LiveSpec
CONSTANTS
  Undefined = undef
  MaxChain = 4
  Before = 2
  PerPage = 1
  Ranks <- BothOrders
INVARIANTS
  NothingIsMissed
CHECK_DEADLOCK FALSE
