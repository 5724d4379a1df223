SPECIFICATION FairSpec
CONSTANTS
  NoConn = NoConn
  Conns = {c1}
  Frames = {}
  WebSocket = FALSE
PROPERTY ShutdownEndsConns
\* Clients may stop, and the server then has nothing to do.
CHECK_DEADLOCK FALSE
