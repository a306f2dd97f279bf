SPECIFICATION FairSpec
CONSTANTS
    j1 = j1
    j2 = j2
    j3 = j3
    c1 = c1
    Jobs <- OneJob
    Mine <- OneJob
    Session = c1
    Channels = {c1}
    ChannelOf <- OneChannelOf
    Faults = {"timeout"}
    StreamLimit = 9
    FirehoseLimit = 9
    MaxRetries = 1
    MaxReloads = 0
    MaxEventCount = 9
    MaxMs = 1
    PerMs = 20
PROPERTIES
    EveryWaitEnds
CHECK_DEADLOCK FALSE
