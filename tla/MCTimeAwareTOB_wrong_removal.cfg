SPECIFICATION Spec
CONSTANTS
  AMOUNT_NODES = 3
  Lines        = 0
  Powered     <- AllButLast
  MaxStarts    = 1
  StartSlots  <- AnySlot
  MaxFaults    = 1
  FaultKinds   = {"RECEIVER_OMISSION"}
  Naps         = {}
  Unwritten    = 0
  Spacing      = 9
PROPERTIES
  WrongRemovalNeverEnters
