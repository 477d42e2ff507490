SPECIFICATION Spec
CONSTANTS
    s1 = s1
    s2 = s2
    s3 = s3
    Sources = {s1, s2, s3}
    Observed = {s1}
    NoBucket = NoBucket
    Unit = 2
    Rate = 1
    Burst = 5
    MaxSources = 2
    ReportInterval = 2
    MaxTime = 5
    MaxDropped = 1
    MaxSpent = 5
SYMMETRY Others
CONSTRAINT CountsBounded
INVARIANTS
    TypeOK
    LruTable
    WindowBound
PROPERTIES
    SlowSourceNeverDropped
    OneLinePerInterval
