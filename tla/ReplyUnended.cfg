SPECIFICATION Spec
CONSTANTS
  c1 = c1
  c2 = c2
  c3 = c3
  Clients = {c1, c2, c3}
  Names <- Paths
  Dirs <- Directories
  Leads <- Walk
  Scripts <- Interpreted
  Present <- Site
  Bytes = {"i", "j", "k", "p", "q", "r", "z"}
  Hole = "0"
  Requests <- Mixed
  Outputs <- Texts
  Locations <- Map
  Server <- Block
  StatusCodes = {"404"}
  Listed <- Table
  Hundred <- Classes
  BufferSize = 2
  MaxRequests = 3
  MaxFiles = 5
SYMMETRY Symmetric
INVARIANT HeadIsEnded
