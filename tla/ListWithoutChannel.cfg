SPECIFICATION Spec
CONSTANTS
  Sessions = {s1}
  Paths = {p1}
  NoPath = NoPath
  MaxChunks = 1
  LklFileApis = TRUE
  Commands = {"PASV","PORT","LIST","QUIT"}
INVARIANTS
  TransferFdHasChannel
