SPECIFICATION FairSpec
CONSTANTS
    NSlots = 6
    Codes <- KeyCodes
    Players <- TwoPlayers
    Directions <- TheKeys
    BombKey <- TheBombs
    Reports <- TheReports
    MaxFaults = 1
    MaxPlugs = 1
\* A program that spins on a flag nobody sets, or waits for a keyboard,
\* does not move.
CHECK_DEADLOCK FALSE
PROPERTIES
    FailedIsSentAgain
