\* One room of any size up to three, all three users may be in it.
CONSTANTS
    Users = {0, 1, 2}
    Caps = {0, 1, 2, 3}
    MaxTankId = 3
    MaxHits = 3
    MaxRoomNum = 1
    MaxScore = 2
    MaxTimers = 2
    MaxBacklog = 0
SPECIFICATION Spec
INVARIANTS
    TypeOK
    NoAssertionFails
    PlayersMatch
    RoundSound
    RestartPending
PROPERTIES
    OnePointPerRound
