CONSTANTS
  Req = {a1, s1}
  SyncReq = {s1}
  V3Req = {s1}
  NoReq = NoReq
  MinRid = 1
  MaxRid = 3
  Retries = 1
  Timeout = 1
  MaxLate = 1
SPECIFICATION FairSpec
INVARIANTS OneCallbackOwner
PROPERTY EveryRequestEnds
