SPECIFICATION FairSpec
CONSTANTS
  Bytes = {0, 1}
  Zero = 0
  BufSize = 2
  MaxLen = 3
  MaxReq = 3
  Opens = {{"READ"}, {"WRITE", "APPEND", "CREATE", "TRUNCATE"}, {"READ", "WRITE"}, {"READ", "WRITE", "BUFFERED"}, {"WRITE", "APPEND", "BUFFERED"}, {"CREATE"}}
  Faults = {"SHORT", "EIO", "EAGAIN", "EINTR"}
INVARIANTS
  TypeOK
  ReadAheadCurrent
  FullMeansAll
PROPERTIES
  KeepsText
  CallsReturn
