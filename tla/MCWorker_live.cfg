SPECIFICATION FairSpec
CONSTANTS
  Socks = {s1, s2}
  NoSock = NoSock
  ConnCap = 1
  DeferCap = 2
  CallCap = 1
  Kinds = {"deferred", "bad"}
  MaxPackets = 1
  MaxYields = 1
  SplitEvents = FALSE
  AllocMayFail = FALSE
  MayBlock = FALSE
  MayStop = TRUE
PROPERTIES
  HandedOverIsTaken
  StopTerminates
CHECK_DEADLOCK FALSE
