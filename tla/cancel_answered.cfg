SPECIFICATION FairSpec
CONSTANTS
  Orders <- OneOrder
  Requests <- OneCancel
  MaxPlaced = 1
  MaxRequests = 1
  MaxLives = 2
  DbOutcomes = {TRUE}
  Null = Null
PROPERTIES
  CancelAnswered
CHECK_DEADLOCK FALSE
