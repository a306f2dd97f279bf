SPECIFICATION ServerSpec
CONSTANTS
    j1 = j1
    j2 = j2
    c1 = c1
    Jobs <- MCJobs
    Channels = {c1}
    ChannelOf <- MCChannelOf
    Faults = {"user", "timeout", "worker", "redis"}
    StreamLimit = 2
    FirehoseLimit = 2
    MaxMs = 2
    PerMs = 20
INVARIANTS
    ServerTypeOK
    FirehoseFollows
    ErrorIsLast
CHECK_DEADLOCK FALSE
