\* Two tabs that authorise at once.
CONSTANTS
  Processes = {p1, p2}
  Expiration = 1
  None = none
  MaxTries = 2
  MaxIssued = 2
  MaxFaults = 0
  Tabs = {p1, p2}
SPECIFICATION Spec
INVARIANTS OneRow
CHECK_DEADLOCK FALSE
