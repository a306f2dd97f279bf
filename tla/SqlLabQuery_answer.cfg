SPECIFICATION Spec
CONSTANTS
    Engines = {"session"}
    Modes = {TRUE}
    StoresResults = TRUE
    Statements = 1
    MaxStops = 1
    Faults = {}
CHECK_DEADLOCK FALSE
PROPERTY
    StopTellsTruth
