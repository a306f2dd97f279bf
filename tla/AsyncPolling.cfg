SPECIFICATION EagerSpec
CONSTANTS
    j1 = j1
    j2 = j2
    j3 = j3
    c1 = c1
    Jobs <- ThreeJobs
    Mine <- TwoJobs
    Session = c1
    Channels = {c1}
    ChannelOf <- ThreeChannelOf
    Faults = {}
    StreamLimit = 1
    FirehoseLimit = 9
    MaxRetries = 1
    MaxReloads = 1
    MaxEventCount = 2
    MaxMs = 1
    PerMs = 20
INVARIANTS
    NothingLost
PROPERTIES
    RetriesDieOut
CHECK_DEADLOCK FALSE
