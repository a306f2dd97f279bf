SPECIFICATION EagerSpec
CONSTANTS
    j1 = j1
    j2 = j2
    j3 = j3
    c1 = c1
    c2 = c2
    Jobs <- OneJobs
    Mine <- OneMine
    Session = c1
    Channels = {c1, c2}
    ChannelOf <- OneChannelOf
    Faults = {"network", "server"}
    StreamLimit = 9
    FirehoseLimit = 9
    MaxRetries = 1
    MaxReloads = 0
    BatchSize = 2
    ConnectMaxRetries = 1
    MaxBreaks = 2
    MaxMs = 1
    PerMs = 20
INVARIANTS
    SteadyNothingLost
PROPERTIES
    ImplementsAsyncJob
    SteadyWaitEnds
CHECK_DEADLOCK FALSE
