SPECIFICATION BackendSpec
CONSTANTS
  talker = talker
  failer = failer
  Fds = {f1}
  WakeFd = wake
  Files <- TwoSockets
  WakeFile = eventfd
  NoFile = none
  NoWatch = zero
  Raised <- RaisedOn
  MaxEvents = 2
  KqueueEvents = 1
  MaxPolls = 1
  MaxQueue = 2
  MaxWatches = 2
  MaxWait = 2
  MayFail = TRUE
INVARIANTS
  KqueueFilters
  WatchesAreConnections
  ActiveIsPolled
  BatchIsCurrent
PROPERTIES
  DataIsReported
CHECK_DEADLOCK FALSE
