\* One worker and an alert whose query fails: the grace period of error notifications.
CONSTANTS
  Workers = {w1}
  Pools <- OnePool
  Schedules <- GraceSchedules
  FaultKinds = {"alert"}
  Horizon = 3
  MaxBreaks = 0
SPECIFICATION Spec
PROPERTIES OneErrorNotification
CHECK_DEADLOCK FALSE
