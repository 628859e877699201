SPECIFICATION Spec
CONSTANTS
  Bytes = {"a", "b", "c", "d", "e", "-"}
  Blank = "-"
  Contents <- Letters
  Kinds = {"CGI"}
  BufferSize = 2
INVARIANT OutputIsWhole
