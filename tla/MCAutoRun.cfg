SPECIFICATION Spec
CONSTANTS
  t1 = t1
  t2 = t2
  p1 = p1
  p2 = p2
  Ticks = {t1, t2}
  Reports = {p1, p2}
  NoRun = NoRun
  NoToken = NoToken
  Limits = {1, 2}
  DoclingOff = 2
  ReportOff = 3
  TTL = 2
  TickTimeout = 2
  MaxHold = 1
  Replicas = 1
  PatchesRace = FALSE
  MaxRuns <- MCMaxRuns
  MaxEvents = 3
  MaxStreak = 3
  MaxCrashes = 1
  MaxPatches = 1
SYMMETRY MCSymmetry
INVARIANTS
  OneLiveRunPerReport
PROPERTIES
  ConcludedReportsRest
  
CONSTRAINT Small
