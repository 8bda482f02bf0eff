\* One user, two connections, one room of one seat, all threads.
CONSTANTS
    c1 = c1
    c2 = c2
    Users = {u1}
    NoUser = NoUser
    Conns = {c1, c2}
    NoConn = NoConn
    Address <- OwnAddresses
    Workers = 2
    Caps = {1}
    MaxRoomNum = 1
    MaxPending = 1
    MaxTankId = 1
    MaxHits = 1
    MaxScore = 1
    MaxTimers = 1
    MaxBacklog = 0
    MaxPoints = 1
SPECIFICATION FairSpec
CHECK_DEADLOCK FALSE
INVARIANTS
    NoRequestBeforeLoop
    RoomListFresh
    RoomsCounted
PROPERTIES
    GoneUsersLeave
    ImplementsSessions
