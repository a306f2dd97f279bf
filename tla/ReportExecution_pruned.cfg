\* An alert whose log is kept for less time than lies between two executions.
CONSTANTS
  Workers = {w1}
  Pools <- OnePool
  Schedules <- PrunedSchedules
  FaultKinds = {"break"}
  Horizon = 3
  MaxBreaks = 1
SPECIFICATION FairSpec
PROPERTIES StaleIsReset
CHECK_DEADLOCK FALSE
