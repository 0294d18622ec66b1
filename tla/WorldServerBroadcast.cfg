SPECIFICATION Spec
CONSTANTS
  Sessions = {s1, s2}
  NoSession = NoSession
  StopCauses = {}
  Talkers = {s1, s2}
  Chunks = {1, 2}
  MinPackets = 1
  MaxPackets = 1
  MaxQueue = 3
  WriteFaults = TRUE
INVARIANTS
  TypeOK
  BroadcastOrder
  NoReadStall
  ReceiveFindsSessionOrGivenUp
PROPERTY
  ImplementsSession
