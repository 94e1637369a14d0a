SPECIFICATION PipelinesSpec
CONSTANTS
  Parts = {"pipeline"}
  r1 = r1
  e1 = e1
  e2 = e2
  w1 = w1
  w2 = w2
  None = None
  Executors = {e1}
  Workers = {w1}
  Runs = {r1}
  Profile <- FullProfile
  Backlog <- OneRun
  FallibleKinds = {"chunker", "embedder"}
  ChunkSetCounts = {1}
  MaxAttempts = 2
  MaxBatch = 0
  MaxFanOut = 1
  MaxAbandoned = 0
  MaxCrashes = 2
  MaxLosses = 1
INVARIANTS
  TypeOK
  ReferencesHold
  AttemptsWithinBudget
  OneLiveAttempt
  AttemptNumbersCount
  FailedBudgetSpent
PROPERTIES
  DagFailureFinal
  TaskOutcomeFinal
  ImplementsStagedTasks
CHECK_DEADLOCK FALSE
