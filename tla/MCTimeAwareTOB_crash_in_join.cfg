SPECIFICATION Spec
CONSTANTS
  AMOUNT_NODES = 4
  Lines        = 1
  Powered     <- Nobody
  MaxStarts    = 1
  StartSlots  <- CyclePause
  MaxFaults    = 1
  FaultKinds   = {"CRASH_FAILURE"}
  Naps         = {}
  Unwritten    = 0
  Spacing      = 0
INVARIANTS
  UniformAgreement
