SPECIFICATION FairSpec
CONSTANTS
  MaxConns = 2
  Numbers = {0, 1}
  End = End
INVARIANTS
  ConnTypeOK
  
  
PROPERTIES
  LostFreed
  WalkEnds
CHECK_DEADLOCK FALSE
