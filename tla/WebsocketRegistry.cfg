SPECIFICATION FairSpec
CONSTANTS
    Channels = {c1}
    Ids = {s1, s2}
    SocketTimeout = 4
    PingInterval = 2
    GcInterval = 2
    PongDelay = 1
    Late = 1
INVARIANTS
    TypeOK
    OpenIsRegistered
    EveryPageIsOffered
    PromptStays
PROPERTIES
    LostIsForgotten
