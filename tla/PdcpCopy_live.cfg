SPECIFICATION FairSpec
CONSTANTS
  Enb = enb
  Ue = ue
  Source = {enb}
  PollingInterval = 2
  BatchLimit = 1
  MaxReports = 2
  InitialIfSendArq = {FALSE}
  MaxSdu = 3
  MaxGroup = 2
  MaxLoss = 3
PROPERTIES
  RequestedThenReceived RetryLoopEnds
CHECK_DEADLOCK FALSE
