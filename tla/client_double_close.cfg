SPECIFICATION Spec
CONSTANTS
  NoReq = NoReq
  Failed = Failed
  Requests = {r1}
  Timed = {}
  MaxSeq = 3
  MaxRetries = 3
INVARIANT DoneClosedOnce
