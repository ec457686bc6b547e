SPECIFICATION Spec
CONSTANTS
  K = 2
  N = 3
  Lag = 1
  MinPoll = 1
  BatchLimit = 1
  MaxReports = 2
  MaxGroup = 2
  MaxLoss = 3
  MaxAir = 3
INVARIANTS
  NcRetriesCounted NcPassedGroupsSettled AnswerIndexInRange
  ReportNeverOverstates OneBlockPerGroup
CHECK_DEADLOCK FALSE
