SPECIFICATION FairSpec
CONSTANTS
  Sessions = {s1}
  NoSession = NoSession
  StopCauses = {"signal", "error"}
  Talkers = {s1}
  Chunks = {1, 2}
  MinPackets = 1
  MaxPackets = 2
  MaxQueue = 3
  WriteFaults = TRUE
INVARIANTS
  TypeOK
  StatusIsTrue
PROPERTIES
  BrokenIsShown
  ProcessEnds
