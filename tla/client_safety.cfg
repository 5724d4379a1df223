SPECIFICATION Spec
CONSTANTS
  NoReq = NoReq
  Failed = Failed
  Requests = {r1, r2}
  Timed = {r1}
  MaxSeq = 3
  MaxRetries = 1
INVARIANTS PendingIsLive SettledOnce OwnAnswer NotStranded IInv
PROPERTIES SettledNotRetried ImplementsRequestReply
