SPECIFICATION FairSpec
CONSTANTS
  s1 = s1
  c1 = c1
  f1 = f1
  f2 = f2
  g1 = g1
  Listeners = {s1}
  Clients = {c1}
  Files = {f1, f2}
  Cgis = {g1}
  Null = Null
  NoFd = NoFd
  Timeout = 2
  ScanTime = 1
  Breaks = {"fin", "reset", "error"}
  OpenFails = FALSE
  Patient = TRUE
INVARIANTS ClientOutlivesUse OneWorker
PROPERTIES ClosedAreRemoved HoldEnds
