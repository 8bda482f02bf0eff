\* Up to three tanks with a shell each: the order of visits and double hits.
CONSTANTS
    MaxTankId = 3
    MaxHits = 3
    Magazine = 2
    InitialTTL = 1
    MaxShells = 2
    MaxScore = 1
SPECIFICATION FairSpec
INVARIANTS
    TypeOK
    MagazineHolds
PROPERTIES
    TicksAsAbstracted
    WinnerIsLast
    LastTankDecides
    NextRoundBegins
