SPECIFICATION ModbusSpec
CONSTANTS
    MbPeers = {p1}
    MbSlaves = {0}
    MaxBlocks = 3
    MaxAddress = 2
    MaxQueries = 1
INVARIANTS
    OneBlockPerAddress
CHECK_DEADLOCK FALSE
