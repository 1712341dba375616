SPECIFICATION Spec
CONSTANTS
  Socks = {s1, s2}
  NoSock = NoSock
  ConnCap = 1
  DeferCap = 1
  CallCap = 1
  Kinds = {"async"}
  MaxPackets = 1
  MaxYields = 1
  SplitEvents = FALSE
  AllocMayFail = FALSE
  MayBlock = FALSE
  MayStop = FALSE
SYMMETRY Symmetric
INVARIANTS
  ResponseToRequester
CHECK_DEADLOCK FALSE
