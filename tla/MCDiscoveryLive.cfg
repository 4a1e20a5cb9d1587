CONSTANTS
  Agent <- MCAgent
  Side <- MCSide
  Supports <- MCSupports
  Tabs <- MCTabs
  Transports = {0, 1}
  RangeSize = 2
  MaxClicks = 2
  MaxEdits = 0
  MaxFaults = 0
SPECIFICATION FairSpec
PROPERTY ScanEnds
CHECK_DEADLOCK FALSE
