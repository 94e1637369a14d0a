SPECIFICATION ProgressSpec
CONSTANTS
  sound = sound
  garbled = garbled
  flaky = flaky
  stuck = stuck
  Requests <- OneOfEach
  MaxConcurrency = 2
  Malformed = {garbled}
  Fallible = {flaky}
  Hanging = {stuck}
  None = None
  Executors = {e1}
  Workers = {w1}
  Runs = {r1}
  Profile <- FullProfile
  Backlog <- NoBacklog
  FallibleKinds = {"chunker", "embedder"}
  ChunkSetCounts = {1}
  MaxAttempts = 2
  MaxBatch = 0
  MaxFanOut = 1
  MaxAbandoned = 1
  MaxCrashes = 0
  MaxLosses = 0
INVARIANTS
  TypeOK
  PermitsConserved
  OneHeldWhileAcquiring
  NothingInFlightWhenStopped
PROPERTIES
  RequestsServed
  ShutdownEnds
  RunsSettle
CHECK_DEADLOCK FALSE
