SPECIFICATION BuffersSpec
CONSTANTS
  Size = 4
  Factor = 2
  HeaderSize = 1
  StreamLength = 14
  MaxChunks = 4
INVARIANTS
  TypeOK
  RoomForFront
  Intact
  SendTypeOK
  SentIntact
\* The peer may stop sending, and every packet that the bound allows may have
\* been serialized.
CHECK_DEADLOCK FALSE
