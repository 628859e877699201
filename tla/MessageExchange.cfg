SPECIFICATION FairSpec
CONSTANTS
  Messages <- Careful
  MaxHeader = 2
  MaxBody = 3
  RecvMax = 4
  MaxSent = 3
  Eager = FALSE
  Reuses = FALSE
PROPERTY ExchangeKept
