SPECIFICATION TrafficSpec
CONSTANTS
  Socks = {s1, s2}
  NoSock = NoSock
  ConnCap = 1
  DeferCap = 2
  CallCap = 1
  Kinds = {"now", "async", "deferred", "disconnect", "bad"}
  MaxPackets = 3
  MaxDeferred = 1
  MaxYields = 1
  SplitEvents = TRUE
  AllocMayFail = FALSE
  MayBlock = TRUE
  MayStop = FALSE

SYMMETRY Symmetric
INVARIANTS
  IdleIsFlushed
  
  ResponseToRequester
  AnsweredAtMostOnce
  DeferredPinsConnection
  
CHECK_DEADLOCK FALSE
