SPECIFICATION FairSpec
CONSTANTS
  Receivers = {"c1", "c2"}
  OrderEntry = "order entry"
  Symbols <- SomeSymbols
  Streams <- SmallStreams
  Nul = "nul"
INVARIANTS
  DispatchTypeOK
  PopFindsOrder
  SplitExact
  OrdersAsSent
PROPERTIES
  QueueServed
  SplitReturns
CHECK_DEADLOCK FALSE
