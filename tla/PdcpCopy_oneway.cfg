SPECIFICATION Spec
CONSTANTS
  Enb = enb
  Ue = ue
  Source = {enb}
  PollingInterval = 1
  BatchLimit = 1
  MaxReports = 2
  InitialIfSendArq = {TRUE, FALSE}
  MaxSdu = 3
  MaxGroup = 2
  MaxLoss = 3
INVARIANTS
  TypeOK PassedGroupsSettled AtMostOnce TimerOnlyWhileMissing
  OneWayReports OneSduPerGroup
PROPERTIES
  ReceivedNeverRequested ImplementsBearer
CHECK_DEADLOCK FALSE
