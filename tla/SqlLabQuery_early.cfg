SPECIFICATION Spec
CONSTANTS
    Engines = {"late"}
    Modes = {TRUE}
    StoresResults = TRUE
    Statements = 1
    MaxStops = 1
    Faults = {}
CHECK_DEADLOCK FALSE
PROPERTY
    StoppedStaysStopped
