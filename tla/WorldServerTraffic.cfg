SPECIFICATION FairSpec
CONSTANTS
  Sessions = {s1}
  NoSession = NoSession
  StopCauses = {"signal", "error"}
  Talkers = {s1}
  Chunks = {1, 2, 3}
  MinPackets = 0
  MaxPackets = 2
  MaxQueue = 3
  WriteFaults = TRUE
INVARIANTS
  LifecycleAsserts
  NothingLeftOpen
  ServiceProtocol
  PacketMovedOnceOrGivenUp
PROPERTIES
  NoAcceptOnceClosed
  StopShutsDown
  ArrivedIsHandled
