\* A provider slower than the lease, and three processes.
CONSTANTS
  Processes = {p1, p2, p3}
  Expiration = 1
  None = none
  MaxTries = 2
  MaxIssued = 2
  MaxFaults = 0
  Tabs = {p1}
SPECIFICATION Spec
INVARIANTS LeaseHolds
CHECK_DEADLOCK FALSE
