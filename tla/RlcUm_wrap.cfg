SPECIFICATION FairSpec
CONSTANTS
  Modulus = 8
  Window = 4
  SduUnits = 2
  PduUnits = 2
  Overtaken = 2
  MaxPdu = 10
  MaxLoss = 0
INVARIANTS
  DeliveredInOrder BufferedHasTimer BasesAgree
PROPERTIES
  BufferDrains
CHECK_DEADLOCK FALSE
