SPECIFICATION Spec
CONSTANTS
  AMOUNT_NODES = 3
  Lines        = 1
  Powered     <- Everybody
  MaxStarts    = 1
  StartSlots  <- CyclePause
  MaxFaults    = 2
  FaultKinds   = {"CRASH_FAILURE", "SENDER_OMISSION", "RECEIVER_OMISSION", "TIMING_FAILURE"}
  Naps         = {9}
  Unwritten    = 1
  Spacing      = 0
INVARIANTS
  TotalOrder
  NoNullDelivery
PROPERTIES
  ImplementsTOB
  MemberUntilEnd
