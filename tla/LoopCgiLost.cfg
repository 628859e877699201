SPECIFICATION Spec
CONSTANTS
  s1 = s1
  c1 = c1
  g1 = g1
  Listeners = {s1}
  Clients = {c1}
  Files = {}
  Cgis = {g1}
  Null = Null
  NoFd = NoFd
  Timeout = 2
  ScanTime = 1
  Breaks = {"reset"}
  OpenFails = FALSE
  Patient = FALSE
INVARIANT CgiHasItsClient
