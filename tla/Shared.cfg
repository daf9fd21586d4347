INIT MCInit
NEXT MCNext
CONSTANTS
  Sessions = {s1, s2}
  Bases = {f}
  MaxSuffix = 2
  NoName = NoName
  Inodes = {i1, i2}
  NoInode = NoInode
  MaxChunks = 2
  MaxLen = 2
  Commands = {"STOU", "STOR", "APPE", "RETR", "DELE", "MKD", "RMD", "RNFR", "RNTO"}
SYMMETRY Symmetry
INVARIANTS
  TypeOK
  MkdHasOneMaker
  UploadsKept
  RetrSendsOneFile
PROPERTIES
  StouSparesOldFiles
