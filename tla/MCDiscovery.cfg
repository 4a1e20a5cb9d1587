CONSTANTS
  Agent <- MCAgent
  Side <- MCSide
  Supports <- MCSupports
  Tabs <- MCTabs
  Transports = {0, 1}
  RangeSize = 2
  MaxClicks = 2
  MaxEdits = 1
  MaxFaults = 1
SPECIFICATION Spec
INVARIANTS TypeOK OutputIsScan ProgressFits AbortEndsRound
CHECK_DEADLOCK FALSE
