SPECIFICATION FairSpec
CONSTANTS
  j1 = j1
  j2 = j2
  p1 = p1
  p2 = p2
  s1 = s1
  s2 = s2
  NoToken = NoToken
  Jobs = {j1}
  Processes = {p1}
  Searches = {s1, s2}
  ProcessOf <- MCOneProcess
  Batches = 2
  TTL = 2
  MaxWait = 2
  MaxBatch = 1
  MaxCrashes = 1
  MaxFailures = 1
  MaxDeletes = 1
  MaxAgings = 1
INVARIANTS
  OneWriter
  CompleteOrAbsent
PROPERTIES
  SearchesAreServed
