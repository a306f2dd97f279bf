SPECIFICATION PageSpec
CONSTANTS
    Engines = {"implicit"}
    Modes = {FALSE}
    StoresResults = TRUE
    Statements = 1
    MaxStops = 1
    Faults = {}
CHECK_DEADLOCK FALSE
PROPERTY
    StoppedNeverSucceeds
