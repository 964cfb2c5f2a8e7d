SPECIFICATION FairSpec
CONSTANTS
  AMOUNT_NODES = 4
  Lines        = 1
  Powered     <- Everybody
  MaxStarts    = 1
  StartSlots  <- FirstTurn
  MaxFaults    = 1
  FaultKinds   = {"CRASH_FAILURE", "SENDER_OMISSION", "TIMING_FAILURE"}
  Naps         = {1}
  Unwritten    = 0
  Spacing      = 12
INVARIANTS
  CountIsExact
  UniformAgreement
PROPERTIES
  ImplementsMembership
  Established
