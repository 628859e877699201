SPECIFICATION Spec
CONSTANTS
  Messages <- ClosesLast
  MaxHeader = 2
  MaxBody = 3
  RecvMax = 4
  MaxSent = 2
  Eager = FALSE
  Reuses = FALSE
INVARIANT CloseIsHonoured
