SPECIFICATION Spec
CONSTANTS
  Messages <- Assorted
  MaxHeader = 2
  MaxBody = 3
  RecvMax = 4
  MaxSent = 3
  Eager = TRUE
  Reuses = FALSE
INVARIANTS TypeOK BodyIntact LimitsHold HandledOnce
