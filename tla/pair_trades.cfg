SPECIFICATION LockFairSpec
CONSTANTS
  Addr = {1, 2, 3}
  AnyAddress = FALSE
  Conn = {1, 2}
  Flaky = {}
  MaxPending = 1
  Requests <- CrossingRequests
  ProductList <- OnlyKKC
  BasePrice = 60
  Balance <- AmpleBalance
  StoredOrders = {}
  DbOutcomes = {TRUE}
  Null = Null
PROPERTIES
  AcceptedPairTrades
CHECK_DEADLOCK FALSE
