SPECIFICATION Spec
CONSTANTS
  AMOUNT_NODES = 4
  Lines        = 2
  Powered     <- Everybody
  MaxStarts    = 0
  StartSlots  <- CyclePause
  MaxFaults    = 2
  FaultKinds   = {"CRASH_FAILURE", "SENDER_OMISSION", "RECEIVER_OMISSION", "TIMING_FAILURE"}
  Naps         = {12}
  Unwritten    = 0
  Spacing      = 16
INVARIANTS
  UniformAgreement
  SilentSenderRemoved
PROPERTIES
  OnlyFaultyEnd
  ImplementsMembership
