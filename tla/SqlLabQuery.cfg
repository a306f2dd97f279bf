SPECIFICATION FairSpec
CONSTANTS
    Engines = {"implicit", "session", "late"}
    Modes = {TRUE, FALSE}
    StoresResults = TRUE
    Statements = 3
    MaxStops = 2
    Faults = {"timeout", "kill", "logger", "worker", "handler"}
CHECK_DEADLOCK FALSE
INVARIANTS
    TypeOK
    StopBitesSoon
    RunningIsProcessed
    KeyHasResults
PROPERTY
    StopEndsTask
