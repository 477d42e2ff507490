SPECIFICATION FairSpec
CONSTANTS
    STRIKES = 2
    MaxFaulty = 3
    MaxLogLoss = 1
    MaxSignals = 2
INVARIANTS
    OneConpot
    NoOrphan
    OnlyWedgedIsKilled
PROPERTIES
    SensorRecovers
    SignalEnds
