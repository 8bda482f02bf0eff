\* Two rooms, three users: what one room may do to another.
CONSTANTS
    Users = {0, 1, 2}
    Caps = {1, 2}
    MaxTankId = 2
    MaxHits = 1
    MaxRoomNum = 2
    MaxScore = 1
    MaxTimers = 1
    MaxBacklog = 0
SPECIFICATION Spec
INVARIANTS
    MembersMatch
PROPERTIES
    ImplementsLobby
