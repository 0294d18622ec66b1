SPECIFICATION FairSpec
CONSTANTS
  Sessions = {s1, s2}
  NoSession = NoSession
  StopCauses = {"signal", "error"}
  Talkers = {s1}
  Chunks = {1}
  MinPackets = 1
  MaxPackets = 1
  MaxQueue = 2
  WriteFaults = TRUE
INVARIANTS
  TypeOK
  ConnectProtocol
  LifecycleAsserts
PROPERTIES
  TimersEnd
  ProcessEnds
