SPECIFICATION WireSpec
CONSTANTS
  HeaderCells = 2
  BodySizes = {0, 1}
  FirstCap = 2
  MaxIds = 2
  ServerIntegrity = {"checksum"}
  IntegrityChoices = {{}, {"checksum", "mac"}}
  AllocMayFail = TRUE
  MayBreak = TRUE
  ByteBase = 8
  MaxPayload = 14
  WriterCap = 3
  FirstSlots = 1
  Values <- SomeValues
  MaxWrites = 3
  Headers <- SomeHeaders
  Ends <- SomeEnds
  Args <- SomeArgs
  Clients = {0, 1}
  ServerThread = 2
  Recorders = {0, 1, 2}
  Durations = {1, 2}
  MaxRecords = 2
INVARIANTS
  LatenciesComplete
  SlotsHoldOutstanding
  StatsExact
  MacIsOnePass
  VerifiedIfIntact
  ReadsAsWritten
  BuffersSafe
  StreamInOrder
  DeliveredIsOwn
  ResponsesAccounted
PROPERTIES
  PoisonSticks
  CallsReturn
  BenchEnds
CHECK_DEADLOCK FALSE
