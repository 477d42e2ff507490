SPECIFICATION Spec
CONSTANTS
    M = 3
    T1 = 3
    T2 = 2
    T3 = 4
    W = 3
    BufferCap = 1
    MaxReplies = 2
    MaxFrames = 5
INVARIANTS
    TypeOK
    T1SupervisesUnacknowledged
    SilentPeerDropped
    T2CoversUnacknowledged
    OneTestOutstanding
PROPERTIES
    DataOnlyStarted
CHECK_DEADLOCK FALSE
