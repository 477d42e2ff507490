SPECIFICATION Spec
CONSTANTS
    MaxWire = 1
    MaxItems = 2
    MaxAttempts = 1
    FtpClients = {u1, u2}
    MaxName = 2
    MaxDepth = 2
    MaxStored = 4
    MaxGiven = 3
    Transfers = {t1, t2}
    MaxUnits = 2
    IpmiClients = {a, b}
    MaxPriv = 2
    MaxPackets = 3
    EnipPeers = {a, b}
    EnipHandlers = {h1, h2}
    MaxValues = 1
    MaxTransactions = 2
    HttpRequests = 1
    Operators = {o1}
    Readers = {r1, r2}
    MaxCommands = 2
    MaxRequests = 2
    MaxInPiece = 2
    MaxFrames = 2
    MbPeers = {p1, p2}
    MbSlaves = {0, 1}
    MaxBlocks = 1
    MaxAddress = 1
    MaxQueries = 2
    AstPeers = {p1, p2}
    AstCommandsMax = 2
    MaxPieces = 3
INVARIANTS
    FtpOwned
    FilesAsLeft
    SessionIsListed
    RecordedAsAsked
    
PROPERTIES
    LockedOut
    RestartEnds
    PeersLetGo
CHECK_DEADLOCK FALSE
