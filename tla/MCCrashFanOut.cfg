SPECIFICATION Spec
CONSTANTS
  r1 = r1
  None = None
  Executors = {e1}
  Workers = {w1}
  Runs = {r1}
  Profile <- FullProfile
  Backlog <- OneRun
  FallibleKinds = {}
  ChunkSetCounts = {1}
  MaxAttempts = 2
  MaxBatch = 0
  MaxFanOut = 1
  MaxAbandoned = 0
  MaxCrashes = 1
  MaxLosses = 0
INVARIANTS
  FanOutExact
CHECK_DEADLOCK FALSE
