SPECIFICATION FairSpec
CONSTANTS
  Addr = {1, 2}
  AnyAddress = FALSE
  Conn = {1, 2}
  Flaky = {1}
  MaxPending = 2
  Requests <- CrossingRequests
  ProductList <- OnlyKKC
  BasePrice = 60
  Balance <- AmpleBalance
  StoredOrders <- EarlierRow
  DbOutcomes = {TRUE, FALSE}
  Null = Null
INVARIANTS
  AnswerMatchesFate
PROPERTIES
  OrdersServed
  ReportsDrained
CHECK_DEADLOCK FALSE
