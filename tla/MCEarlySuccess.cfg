SPECIFICATION FairSpec
CONSTANTS
  r1 = r1
  None = None
  Executors = {e1}
  Workers = {w1}
  Runs = {r1}
  Profile <- FullProfile
  Backlog <- NoBacklog
  FallibleKinds = {}
  ChunkSetCounts = {1}
  MaxAttempts = 2
  MaxBatch = 0
  MaxFanOut = 1
  MaxAbandoned = 0
  MaxCrashes = 0
  MaxLosses = 0
PROPERTIES
  DagSuccessFinal
CHECK_DEADLOCK FALSE
