SPECIFICATION PageSpec
CONSTANTS
    Engines = {"session"}
    Modes = {FALSE}
    StoresResults = FALSE
    Statements = 1
    MaxStops = 0
    Faults = {}
CHECK_DEADLOCK FALSE
PROPERTY
    SuccessStaysShown
