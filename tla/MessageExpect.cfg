SPECIFICATION Spec
CONSTANTS
  Messages <- Continued
  MaxHeader = 2
  MaxBody = 3
  RecvMax = 4
  MaxSent = 2
  Eager = FALSE
  Reuses = TRUE
INVARIANT ReadyForNext
