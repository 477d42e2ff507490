SPECIFICATION FairSpec
CONSTANTS
    Long = {2}
    Lifecycle = {1}
    IdleChecks = 2
    MaxRecords = 4
    MaxInodes = 3
    MaxDeaths = 2
    MaxRestarts = 1
INVARIANTS
    PostedOnceInOrder
PROPERTIES
    RotationNoticed
    WholeLinePosted
