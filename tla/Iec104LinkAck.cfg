SPECIFICATION Spec
CONSTANTS
    M = 3
    T1 = 3
    T2 = 2
    T3 = 4
    W = 3
    BufferCap = 1
    MaxReplies = 2
    MaxFrames = 4
INVARIANTS
    AcknowledgedAtW
CHECK_DEADLOCK FALSE
