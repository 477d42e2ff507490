SPECIFICATION FairSpec
CONSTANTS
    Long = {}
    Lifecycle = {1}
    IdleChecks = 2
    MaxRecords = 4
    MaxInodes = 2
    MaxDeaths = 0
    MaxRestarts = 0
PROPERTIES
    EachRecordPosted
