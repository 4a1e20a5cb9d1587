CONSTANTS
  Mib <- MCSmallMib
  Root <- MCRoot
  Module = {"wide"}
  Matches <- MCMatches
  Size <- MCSize
  RefreshMayFail = TRUE
  MaxRep = 2
  FlushEvery = 2
  MaxOps = 2
  MaxFaults = 1
SPECIFICATION Spec
INVARIANTS TypeOK TimerRuns PolicyForgotten StopEnabled SessionInv WalkExact
CHECK_DEADLOCK FALSE
