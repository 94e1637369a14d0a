SPECIFICATION RulesSpec
CONSTANTS
  Parts = {"retry"}
  ChunkSpecs <- SomeSpecs
  Lengths = {0, 1, 2, 5, 8}
  BlockCount = 2
  a = a
  b = b
  c = c
  NodeLists <- SomeNodeLists
  EndPoints = {a, b, c}
  MaxEdges = 4
  x1 = x1
  x2 = x2
  x3 = x3
  Assets = {x1, x2, x3}
  MaxAssets = 3
  Limits = {1}
  Bases = {1}
  Maxima = {3000}
  Defaults <- SomeDefaults
  MaxRuns = 6
  FirstNumbers = {0}
  Unset = Unset
  Environments <- SomeEnvironments
  Others = {"CONTEXIDE_VECTOR_VECTOR_DIM", "VECTOR_DIM", "CONTEXIDE_ENV", "CONTEXIDE_MAX_RETRIES", "MINIO_ENDPOINT", "CONTEXIDE_WORKERS_EMBED"}
INVARIANT BackoffAsDocumented
CHECK_DEADLOCK FALSE
