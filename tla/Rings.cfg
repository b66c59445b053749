SPECIFICATION Rings
CONSTANTS
    Paced <- PacedPorts
    Sporadic <- SporadicPorts
    QueueSize = 8
    LastAddr = 1
    SweepLast = 1
    Data <- Marks
    InitialMap <- Fresh
    Asks <- PortAsks
    Words = 3
    FullAt = 6
    Items = {blank, bombA, bombB}
    Blank = blank
VIEW Seen
INVARIANTS
    TypeOK
    NeverOverflows
    WritesAsPromised
    QueueTypeOK
    HoldsOutstanding
PROPERTIES
    SweepRestores
    FifoPromise
