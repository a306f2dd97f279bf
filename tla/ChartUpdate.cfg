SPECIFICATION FairSpec
CONSTANTS
    None = None
    Error = Error
    MaxRequests = 3
    MaxForms = 2
INVARIANTS
    TypeOK
    SpinnerIsForSomething
    RegisteredIsUnderWay
PROPERTIES
    SpinnerEnds
CHECK_DEADLOCK FALSE
