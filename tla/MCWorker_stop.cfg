SPECIFICATION Spec
CONSTANTS
  Socks = {s1, s2}
  NoSock = NoSock
  ConnCap = 2
  DeferCap = 1
  CallCap = 1
  Kinds = {"async", "deferred"}
  MaxPackets = 1
  MaxYields = 1
  SplitEvents = FALSE
  AllocMayFail = TRUE
  MayBlock = TRUE
  MayStop = TRUE
SYMMETRY Symmetric
INVARIANTS
  
  NoLostWake
