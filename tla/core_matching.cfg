SPECIFICATION Spec
CONSTANTS
  Addr = {1, 2, 3, 4}
  AnyAddress = FALSE
  Conn = {1, 2}
  Flaky = {}
  MaxPending = 1
  Requests <- MatchingRequests
  ProductList <- OnlyKKC
  BasePrice = 60
  Balance <- AmpleBalance
  StoredOrders = {}
  DbOutcomes = {TRUE}
  Null = Null
INVARIANTS
  BuyFilledOnce
  BookBalance
  NoticeOnlyAfterFill
  ReportAccounting
PROPERTIES
  ExecPriceFinal
  MatchIsAtomic
CHECK_DEADLOCK FALSE
