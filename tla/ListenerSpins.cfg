SPECIFICATION ThreadSpec
CONSTANTS
  Conns = {c1}
  NoConn = NoConn
  Backlog = 1
PROPERTIES
  ShutdownCompletes
