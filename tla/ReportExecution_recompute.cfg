\* A report whose executions overlap.
CONSTANTS
  Workers = {w1, w2}
  Pools <- OnePool
  Schedules <- ReportSchedules
  FaultKinds = {}
  Horizon = 3
  MaxBreaks = 0
SPECIFICATION Spec
INVARIANTS RefusesToRecompute
CHECK_DEADLOCK FALSE
