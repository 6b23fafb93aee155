SPECIFICATION MCSpec
CONSTANTS
  a1 = a1
  a2 = a2
  b1 = b1
  j1 = j1
  j2 = j2
  c1 = c1
  c2 = c2
  r1 = r1
  r2 = r2
  Jobs = {j1, j2}
  Companies = {c1, c2}
  Runs = {r1, r2}
  NoCompany = NoCompany
  NoToken = NoToken
  Attempts = {a1, a2, b1}
  JobOf <- MCJobOf
  RetryOf <- MCRetryOf
  RunOf <- MCRunOf
  JobCompany <- MCJobCompany
  SavesPeriods = {j1}
  TTL = 2
  MaxWait = 2
  MaxHold = 1
  CanLoseAnswer = FALSE
  MaxCrashes = 1
  MaxLinks <- MCMaxLinks
PROPERTIES
  LockOnlyEndedByOwner
  GivesUpOnlyUnderContention
  ImplementsSerialAccess
  SlowSavesEnd
