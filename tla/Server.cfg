SPECIFICATION FairSpec
CONSTANTS
  Conns = {c1, c2, c3, c4}
  NoConn = NoConn
  Backlog = 2
INVARIANTS
  TypeOK
  AtMostOneLateAccept
  AcceptedIsHeld
  AcceptedOnMountedDisk
  PoolsAccounted
PROPERTIES
  ShutdownCompletes
