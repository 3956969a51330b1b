SPECIFICATION Spec
CONSTANTS
  Addr = {1, 2, 3, 4}
  AnyAddress = FALSE
  Conn = {1, 2}
  Flaky = {}
  MaxPending = 1
  Requests <- CrossingRequests
  ProductList <- OnlyKKC
  BasePrice = 60
  Balance <- AmpleBalance
  StoredOrders = {}
  DbOutcomes = {TRUE}
  Null = Null
INVARIANTS
  OneByOne
CHECK_DEADLOCK FALSE
