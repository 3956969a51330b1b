SPECIFICATION Spec
CONSTANTS
  Conns = {"c1", "c2"}
  Symbols <- SomeSymbols
  Streams <- AllStreams
  Heartbeat <- BeatText
  Numeric <- AllNumeric
  StoredUsers <- UserSeven
  DbOutcomes = {TRUE, FALSE}
  MaxChunk = 10
  Null = Null
INVARIANTS
  IntakeTypeOK
  FramesExact
  
  LoginsStored
CHECK_DEADLOCK FALSE
