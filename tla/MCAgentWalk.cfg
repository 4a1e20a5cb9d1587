CONSTANTS
  Mib <- MCSmallMib
  Root <- MCOneRoot
  Module = {"wide", "deep"}
  Matches <- MCMatches
  Size <- MCSize
  RefreshMayFail = FALSE
  MaxRep = 2
  FlushEvery = 2
  MaxOps = 2
  MaxFaults = 0
SPECIFICATION FairSpec
INVARIANTS NeverStuck
PROPERTY WalkEnds
