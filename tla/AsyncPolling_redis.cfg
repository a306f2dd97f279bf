SPECIFICATION EagerSpec
CONSTANTS
    j1 = j1
    j2 = j2
    j3 = j3
    c1 = c1
    Jobs <- TwoJobs
    Mine <- OneJob
    Session = c1
    Channels = {c1}
    ChannelOf <- TwoChannelOf
    Faults = {"redis"}
    StreamLimit = 9
    FirehoseLimit = 9
    MaxRetries = 1
    MaxReloads = 0
    MaxEventCount = 2
    MaxMs = 1
    PerMs = 20
INVARIANTS
    ListensWhileWaiting
PROPERTIES
    ImplementsAsyncJob
    EveryReportIsSettled

CHECK_DEADLOCK FALSE
