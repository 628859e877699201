SPECIFICATION FairSpec
CONSTANTS
  Bytes = {"a", "b", "c", "d", "e", "-"}
  Blank = "-"
  Contents <- Letters
  Kinds = {"GET", "POST", "CGI"}
  BufferSize = 2
INVARIANTS TypeOK WholeOrRefused OneReply
PROPERTY Ends
