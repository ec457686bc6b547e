SPECIFICATION Spec
CONSTANTS
  Modulus = 8
  Window = 4
  SduUnits = 3
  PduUnits = 4
  Overtaken = 1
  MaxPdu = 6
  MaxLoss = 2
INVARIANTS
  DeliveredWhole DeliveredInOrder NothingLeftOver VrUrIsMissing
CHECK_DEADLOCK FALSE
