\* Two clients, one room: what must happen under the fairness of the loops.
CONSTANTS
    Users = {1, 2}
    Caps = {0, 1, 2}
    MaxTankId = 2
    MaxHits = 2
    MaxRoomNum = 1
    MaxScore = 1
    MaxTimers = 2
    MaxBacklog = 0
SPECIFICATION FairSpec
PROPERTIES
    FullRoomPlays
    ShortGameEnds
    RoundRestarts
