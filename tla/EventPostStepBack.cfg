SPECIFICATION Spec
CONSTANTS
    MaxRetries = 2
    SpoolCap = 2
    SizeOf <- MCSizeOf
    Pdu <- MCPdu
    NoStamp = NoStamp
    MaxRecords = 4
    Clock = {1, 2}
    MaxKills = 1
INVARIANTS
    EachExchangeItsOwnRow
