SPECIFICATION FairSpec
CONSTANTS
  Workers = {w1, w2}
  NumJobs = 4
  Skipped = {2}
INVARIANTS
  SuccessMeansPassed
  ResultsCounted
  StopsSoon
PROPERTIES
  RunEnds
