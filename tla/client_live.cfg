SPECIFICATION FairSpec
CONSTANTS
  NoReq = NoReq
  Failed = Failed
  Requests = {r1}
  Timed = {r1}
  MaxSeq = 3
  MaxRetries = 3
PROPERTIES EveryCallReturns EveryLoopEnds CloseReturns
