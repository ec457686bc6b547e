SPECIFICATION FairSpec
CONSTANTS
  SduSizes = {3, 8}
  MaxTxBufferSize = 17
  TbSizes = {7, 9, 13, 30}
  ShortPdu = 5
  MaxSdu = 4
INVARIANTS
  TypeOK
  GrantNotExceeded
  BytesAccounted
  SduContiguous
  WorkConserving
PROPERTIES
  ImplementsLegs
  OpportunityEnds
  NothingStuck
CHECK_DEADLOCK FALSE
