SPECIFICATION Spec
CONSTANTS
  Orders <- DeskOrders
  Requests <- DeskRequests
  MaxPlaced = 3
  MaxRequests = 2
  MaxLives = 3
  DbOutcomes = {TRUE, FALSE}
  Null = Null
INVARIANTS
  DeskTypeOK
  CancelIsPermanent
  
PROPERTIES
  CancelTakesOneNamed
CHECK_DEADLOCK FALSE
