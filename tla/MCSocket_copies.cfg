SPECIFICATION Spec
CONSTANTS
  AMOUNT_NODES   = 3
  SELF_ID        = 2
  SLICE_DURATION = 10
  Delays        <- BeyondNextTurn
  Lateness       = {0, 10, 11}
  LastTurn       = 6
  UINT64         = 100000
PROPERTIES
  StaleOnlyIfOverdue
  TimelyMessageReceived
  ReturnsInTime
  NextTurnKept
CHECK_DEADLOCK FALSE
