\* Three processes that serve charts, and one tab that authorises, with failures and slow providers.
CONSTANTS
  Processes = {p1, p2, p3}
  Expiration = 2
  None = none
  MaxTries = 2
  MaxIssued = 2
  MaxFaults = 1
  Tabs = {p1}
SPECIFICATION FairSpec
INVARIANTS
  TypeOK
  Exclusive
PROPERTIES
  NoOlderToken
  ReplacedStaysReplaced
  StaleIsRefreshed
