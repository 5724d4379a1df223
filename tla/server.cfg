SPECIFICATION FairSpec
CONSTANTS
  NoConn = NoConn
  Conns = {c1, c2}
  Frames = {f1}
  WebSocket = TRUE
INVARIANTS HooksMatchConns LeavesClosed ReturnLeavesNothing
PROPERTIES RequestsAnswered ClosedConnsLeave
\* Clients may stop, and the server then has nothing to do.
CHECK_DEADLOCK FALSE
