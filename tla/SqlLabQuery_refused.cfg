SPECIFICATION Spec
CONSTANTS
    Engines = {"session"}
    Modes = {TRUE}
    StoresResults = TRUE
    Statements = 1
    MaxStops = 0
    Faults = {}
CHECK_DEADLOCK FALSE
INVARIANT
    PendingIsProcessed
