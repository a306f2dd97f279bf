\* One or two workers, alerts and reports with and without periods, every fault.
CONSTANTS
  Workers = {w1, w2}
  Pools <- MCPools
  Schedules <- MCSchedules
  FaultKinds = {"alert", "send", "notify", "break"}
  Horizon = 3
  MaxBreaks = 1
SPECIFICATION FairSpec
INVARIANTS
  TypeOK
  WorkingIsWorked
  GraceHolds
PROPERTIES
  WorkingEnds
  GraceEnds
