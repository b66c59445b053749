SPECIFICATION PlayersSpec
CONSTANTS
    Walls <- CornerWalls
    Wood <- CornerWood
    Spawn <- Corner
    Steps = {3, 5}
    TimerSpan = 6
    Window = 3
    MaxPoints = 165
    Strides = {3, 5}
    Line = 40
    MaxItems = 3
    BuffSpan = 96
INVARIANTS
    NeverInWall
    OnGrid
    ScoreShown
    RedAfterHit
    BuffsInRange
    TakenOnce
PROPERTIES
    EntersOnlyOpen
    KeepsDrawing
