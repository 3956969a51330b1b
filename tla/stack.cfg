SPECIFICATION FairSpec
CONSTANTS
  Files <- SomeFiles
  Modes = {"test", "devel"}
  Beyond <- SomeNumbers
  Null = Null
  OrderLimitation = 1
  InventoryLimit = 1
  MaxInbox = 2
INVARIANTS
  MakerTypeOK
  ServesInitialised
  UsesConfigured
  GivesUpLate
  FlagTruthful
PROPERTIES
  ServesAgain
  FirstSessionLogsIn
  ConnectsAgain
  
