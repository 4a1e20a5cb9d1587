CONSTANTS
  Req = {v1, s1}
  SyncReq = {s1}
  V3Req = {v1, s1}
  NoReq = NoReq
  MinRid = 1
  MaxRid = 6
  Retries = 1
  Timeout = 1
  MaxLate = 1
SPECIFICATION Spec
INVARIANTS TypeOK EngineInv OneCallbackOwner NoLeftOvers BoundedReports OwnAnswer
PROPERTY ServiceSpec
