SPECIFICATION StorageSpec
CONSTANTS
  Parts = {"extraction"}
  Repos = {"assets", "blocks", "chunks", "chunk_sets", "embedding_sets", "embedding_refs", "jobs", "workflows"}
  i1 = i1
  i2 = i2
  o1 = o1
  o2 = o2
  Ids <- SomeIds
  Owners <- SomeOwners
  Clients = {c1, c2, c3}
  SetOfKey <- SetOfEach
  MaxCalls = 4
  None = None
  TenantIds = {d1, d2, d3}
  Names = {n1, n2}
  Emails = {e1, e2}
  Callers = {c1, c2}
  MaxTenantCalls = 4
  Nobody = Nobody
  Existing = {{}}
  MaxStatements = 7
  MaxStops = 1
  BlobNames = {"doc", "doc.pdf"}
  Uploads = {"u1"}
  Urls = {"page", "page.pdf"}
  PdfNames = {"doc.pdf", "page.pdf"}
  Assets <- SomeAssets
  MaxChanges = 1
  Jobs = {j1, j2}
  k1 = k1
  k2 = k2
  t1 = t1
  t2 = t2
  Requests <- SomeRequests
  Chunks = {k1, k2}
  Tenants = {t1, t2}
  StoreDim = 2
  Dims = {0, 2, 3}
  Searches <- SomeSearches
  IdLists <- SomeIdLists
  SearchLimits = {1, 2}
  MaxFaults = 1
  MaxOps = 2
  Absent = Absent
INVARIANTS
  FailedPdfFallsBack
CHECK_DEADLOCK FALSE
