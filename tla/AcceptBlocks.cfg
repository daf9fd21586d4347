SPECIFICATION FairSpec
CONSTANTS
  Sessions = {s1}
  Paths = {p1}
  NoPath = NoPath
  MaxChunks = 1
  LklFileApis = TRUE
  Commands = {"PASV","RETR","QUIT"}
PROPERTIES
  AcceptTimesOut
