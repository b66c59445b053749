SPECIFICATION Spec
CONSTANTS
    Paced <- Ports01
    Sporadic <- Ports23
    QueueSize = 32
    LastAddr = 17
    SweepLast = 17
    Data <- Identifiers
    InitialMap <- Corridor
    Stride = 6
    AddrSpan = 18
    TimerSpan = 8
    FlameTicks = 1
    Words = 3
    FullAt = 6
    Items <- Bombs
    Blank <- NoBomb
    Spots <- Alone
    Lengths <- Small
    Delays <- Fixed
    Cooldowns <- OneCool
    CooldownSpan = 4
    Resets <- NoReset
VIEW Seen
INVARIANTS
    EveryBombExplodes
