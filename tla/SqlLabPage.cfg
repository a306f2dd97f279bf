SPECIFICATION FairPageSpec
CONSTANTS
    Engines = {"implicit", "session", "late"}
    Modes = {TRUE, FALSE}
    StoresResults = TRUE
    Statements = 2
    MaxStops = 2
    Faults = {"kill", "timeout", "fetch", "logger"}
CHECK_DEADLOCK FALSE
INVARIANTS
    SuccessIsTrue
PROPERTY
    EveryQueryConcludes
