\* Two requests that have both found the token expired.
CONSTANTS
  Processes = {p1, p2}
  Expiration = 1
  None = none
  MaxTries = 2
  MaxIssued = 2
  MaxFaults = 0
  Tabs = {p1}
SPECIFICATION Spec
PROPERTIES RefreshedOnce
CHECK_DEADLOCK FALSE
