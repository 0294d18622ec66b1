SPECIFICATION Spec
CONSTANTS
  Sessions = {s1}
  NoSession = NoSession
  StopCauses = {}
  Talkers = {s1}
  Chunks = {1, 2, 3}
  MinPackets = 1
  MaxPackets = 2
  MaxQueue = 3
  WriteFaults = TRUE
INVARIANT PacketMovedOnce
