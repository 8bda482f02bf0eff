\* A grid of three by three: corners, borders and a cell in the middle.
CONSTANTS
    Width = 3
    Height = 3
    GridSize = 60
    MaxTankId = 10
    Players = 2
SPECIFICATION FairSpec
INVARIANTS
    TypeOK
    MazeIsTree
    WallsStand
    WallsAreFound
PROPERTIES
    ArenaGetsReady
