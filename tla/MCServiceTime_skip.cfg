SPECIFICATION Spec
CONSTANTS
  AMOUNT_NODES = 3
  MembCounts   = {2, 3}
  Requested    = {18, 20}
  InitTimes   <- OneCycle
  MaxDelay     = 6
  Horizon      = 200
PROPERTIES
  SkippedSliceEnds
CHECK_DEADLOCK FALSE
