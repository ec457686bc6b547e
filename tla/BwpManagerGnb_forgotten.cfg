SPECIFICATION FairSpec
CONSTANTS
  SduSizes = {6}
  MaxTxBufferSize = 24
  TbSizes = {12}
  ShortPdu = 127
  MaxSdu = 2
INVARIANT WaitingDataKnown
CHECK_DEADLOCK FALSE
