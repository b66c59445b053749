SPECIFICATION Boards
CONSTANTS
    Paced <- Ports01
    Sporadic <- None
    QueueSize = 32
    LastAddr = 24
    SweepLast = 24
    Data <- Identifiers
    InitialMap <- Corridor
    Stride = 5
    AddrSpan = 25
    TimerSpan = 4
    FlameTicks = 2
    Bombs <- AllBombs
    Maps <- TwoMaps
    Resets <- AnyReset
    Luck <- AllItems
    Budget = 2
INVARIANTS
    TypeOK
    BurnsBlastArea
    OncePerCell
    FlamesAreLive
PROPERTIES
    PortsPaced
    EveryFlameCleared
