SPECIFICATION DuplexFairSpec
CONSTANTS
  Senders = {s1, s2, s3}
  Handlers = {s3}
  NoSender = NoSender
  MaxSeq = 3
  MaxInbox = 2
INVARIANTS NoPanic WaitersReachable NoneWaitsOnClosed
PROPERTIES WaitersComeBack
\* every call has ended
CHECK_DEADLOCK FALSE
