SPECIFICATION FairSpec
CONSTANTS
    c1 = c1
    c2 = c2
    c3 = c3
    Conns = {c1, c2, c3}
    ProtoOf <- MCProtoOf
    SrcOf <- MCSrcOf
    Quiet <- MCQuiet
    Servers <- MCServers
    Worker = "log_worker"
    Sinks <- MCSinks
    NoSession = NoSession
    MsPerSec = 2
    TimeoutSec = 1
    ClockSteps <- BothWays
    MaxTime = 2
    MaxEvents = 2
    MaxSessions = 2
    MaxCrashes = 1
INVARIANTS
    TypeOK
    FifoDelivery
    NoEventOverwritten
PROPERTIES
    KeysInEventOrder
    NoEarlyExpiry
    EveryEventLogged
    TimedOutEventuallyExpires
    ShutdownCompletes
