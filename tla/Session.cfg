SPECIFICATION FairSessionSpec
CONSTANTS
  Sessions = {s1}
  NoSession = NoSession
  Talkers = {s1}
  Chunks = {c1, c2, c3}
  MinPackets = 0
  MaxPackets = 2
  WriteFaults = TRUE
INVARIANTS
  SessionTypeOK
  ReadExclusive
  CloseProtocol
  WriteServed
PROPERTIES
  StopLeadsToClose
  ImplementsSendChannel
\* A closed session has nothing left to do.
CHECK_DEADLOCK FALSE
