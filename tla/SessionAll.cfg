SPECIFICATION MCSpec
CONSTANTS
  Sessions = {s1}
  Paths = {p1, p2}
  NoPath = NoPath
  MaxChunks = 2
  LklFileApis = TRUE
  Commands = {"USER","PASS","SYST","TYPE","ABOR","PWD","ALLO","REIN","CWD","CDUP","RMD","MKD","DELE","UNKNOWN","RETR","LIST","STOR","APPE","STOU","RNFR","RNTO","SITE","PORT","PASV","FEAT","QUIT"}
INVARIANTS
  TypeOK
  OneChannel
  NoDataSockLeft
  RenameFollowsRnfr
  ChannelUsedOnce
  HandlersCloseWhatTheyOpen
  CompleteMeansAll
  IntactInApr
PROPERTIES
  KeepsDialogue
  GoneClientsSessionRunsDown
  ClientGoneEndsSession
