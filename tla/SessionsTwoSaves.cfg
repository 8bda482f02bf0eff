\* One user whose two saves are under way when the connection breaks.
CONSTANTS
    c1 = c1
    c2 = c2
    c3 = c3
    Users = {u1}
    NoUser = NoUser
    Conns = {c1, c2}
    NoConn = NoConn
    Address <- OwnAddresses
    Workers = 4
    Caps = {2}
    MaxRoomNum = 1
    MaxPending = 1
    Backlogs = {0}
    MaxPoints = 0
SPECIFICATION Spec
CHECK_DEADLOCK FALSE
INVARIANTS
    LoginFindsConnection
