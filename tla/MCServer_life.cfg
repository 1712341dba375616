SPECIFICATION AsyncSpec
CONSTANTS
  MaxWorkers = 2
  Socks = {s1, s2}
  Jobs = {j1, j2}
  Addresses = 2
  MaxListeners = 2
  Ports = {7}
  CounterMod = 2
  MayFail = TRUE
  PollMayFail = TRUE
INVARIANTS
  
  AllReleased
  JobsAlive
PROPERTIES
  JobsReturn
  StopEndsProgram
CHECK_DEADLOCK FALSE
