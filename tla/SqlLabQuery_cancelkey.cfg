SPECIFICATION Spec
CONSTANTS
    Engines = {"late"}
    Modes = {TRUE}
    StoresResults = TRUE
    Statements = 1
    MaxStops = 0
    Faults = {}
CHECK_DEADLOCK FALSE
INVARIANT
    RunningCanBeCancelled
