SPECIFICATION Spec
CONSTANTS
  AMOUNT_NODES = 4
  Lines        = 2
  Powered     <- Everybody
  MaxStarts    = 0
  StartSlots  <- CyclePause
  MaxFaults    = 1
  FaultKinds   = {"RECEIVER_OMISSION"}
  Naps         = {}
  Unwritten    = 0
  Spacing      = 12
INVARIANTS
  LastMessageNotDelivered
