SPECIFICATION Spec
CONSTANTS
  Addr = {1, 2, 3}
  AnyAddress = TRUE
  Conn = {1, 2}
  Flaky = {}
  MaxPending = 1
  Requests <- RiskRequests
  ProductList <- OnlyKKC
  BasePrice = 60
  Balance <- SmallBalance
  StoredOrders = {}
  DbOutcomes = {TRUE}
  Null = Null
INVARIANTS
  TypeOK
  
  QuoteFollowsTrades
CHECK_DEADLOCK FALSE
