SPECIFICATION FairPageSpec
CONSTANTS
    Engines = {"session"}
    Modes = {TRUE}
    StoresResults = FALSE
    Statements = 1
    MaxStops = 0
    Faults = {}
CHECK_DEADLOCK FALSE
PROPERTY
    EveryQueryConcludes
