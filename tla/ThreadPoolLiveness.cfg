SPECIFICATION FairSpec
CONSTANTS
  Task = {k1, k2}
  Workers = 1
  MaxCompensating = 1
  MaxQueue = 2
  MaxNesting = 1
  OsRefusesThreads = TRUE
PROPERTIES EveryTaskRuns QuietDestructorReturns
CHECK_DEADLOCK FALSE
