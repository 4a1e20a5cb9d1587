CONSTANTS
  Mib <- MCMib
  Root <- MCRoot
  Module = {}
  Matches <- MCMatches
  Size <- MCSize
  RefreshMayFail = FALSE
  MaxRep = 2
  FlushEvery = 2
  MaxOps = 2
  MaxFaults = 0
SPECIFICATION FairSpec
PROPERTY StopIsFinal
