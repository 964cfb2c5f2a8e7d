SPECIFICATION FairSpec
CONSTANTS
  AMOUNT_NODES = 3
  Lines        = 1
  Powered     <- Nobody
  MaxStarts    = 1
  StartSlots  <- AnySlot
  MaxFaults    = 0
  FaultKinds   = {}
  Naps         = {}
  Unwritten    = 0
  Spacing      = 0
INVARIANTS
  TypeOK
  CountIsExact
  Validity
PROPERTIES
  OnlyFaultyEnd
  ImplementsMembership
  Established
