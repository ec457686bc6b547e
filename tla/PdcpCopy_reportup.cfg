SPECIFICATION Spec
CONSTANTS
  Enb = enb
  Ue = ue
  Source = {enb}
  PollingInterval = 2
  BatchLimit = 1
  MaxReports = 2
  InitialIfSendArq = {TRUE, FALSE}
  MaxSdu = 3
  MaxGroup = 2
  MaxLoss = 3
INVARIANT
  ReportsStayInPdcp

CHECK_DEADLOCK FALSE
