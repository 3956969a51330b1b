SPECIFICATION Spec
CONSTANTS
  Addr = {1, 2, 3, 4}
  AnyAddress = FALSE
  Conn = {1, 2}
  Flaky = {}
  MaxPending = 1
  Requests <- PricedRequests
  ProductList <- OnlyKKC
  BasePrice = 60
  Balance <- AmpleBalance
  StoredOrders = {}
  DbOutcomes = {TRUE}
  Null = Null
INVARIANTS
  BuyLimitRespected
CHECK_DEADLOCK FALSE
