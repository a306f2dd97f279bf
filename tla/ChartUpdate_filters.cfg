SPECIFICATION Spec
CONSTANTS
    None = None
    Error = Error
    MaxRequests = 3
    MaxForms = 2
INVARIANTS
    FiltersAreApplied
CHECK_DEADLOCK FALSE
