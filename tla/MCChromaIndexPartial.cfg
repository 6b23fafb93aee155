SPECIFICATION FairSpec
CONSTANTS
  j1 = j1
  j2 = j2
  p1 = p1
  p2 = p2
  s1 = s1
  s2 = s2
  NoToken = NoToken
  Jobs = {}
  Processes = {p1, p2}
  Searches = {s1, s2}
  ProcessOf <- MCTwoProcesses
  Batches = 2
  TTL = 2
  MaxWait = 2
  MaxBatch = 1
  MaxCrashes = 0
  MaxFailures = 0
  MaxDeletes = 0
  MaxAgings = 0
PROPERTIES
  NoPartialRead
