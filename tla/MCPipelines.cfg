SPECIFICATION PipelinesSpec
CONSTANTS
  Parts = {"pipeline", "replicas", "executors"}
  r1 = r1
  e1 = e1
  e2 = e2
  w1 = w1
  w2 = w2
  None = None
  Executors = {e1}
  Workers = {w1}
  Runs = {r1}
  Profile <- FullProfile
  Backlog <- OneRun
  FallibleKinds = {"chunker", "embedder"}
  ChunkSetCounts = {0, 1, 2}
  MaxAttempts = 2
  MaxBatch = 0
  MaxFanOut = 2
  MaxAbandoned = 0
  MaxCrashes = 0
  MaxLosses = 0
INVARIANTS
  StagesInOrder
  FanOutExact
  RunStatusAgrees
  OutcomeHasEvidence
PROPERTIES
  AttemptOutcomeFinal
  OutcomeStaysFinal
CHECK_DEADLOCK FALSE
