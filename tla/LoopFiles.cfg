SPECIFICATION Spec
CONSTANTS
  s1 = s1
  c1 = c1
  c2 = c2
  f1 = f1
  Listeners = {s1}
  Clients = {c1, c2}
  Files = {f1}
  Cgis = {}
  Null = Null
  NoFd = NoFd
  Timeout = 1
  ScanTime = 1
  Breaks = {"residue", "error"}
  OpenFails = FALSE
  Patient = FALSE
SYMMETRY Symmetric
INVARIANTS TypeOK VectorsAgree NobodySkipped OpenFileIsServed ReplyIsArmed
PROPERTY OnlyTheClosedLeave
