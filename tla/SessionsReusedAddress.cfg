\* Two users, three connections, two of them from one address: the two tables.
CONSTANTS
    c1 = c1
    c2 = c2
    c3 = c3
    Users = {u1, u2}
    NoUser = NoUser
    Conns = {c1, c2, c3}
    NoConn = NoConn
    Address <- ReusedAddress
    Workers = 2
    Caps = {2}
    MaxRoomNum = 1
    MaxPending = 1
    Backlogs = {0}
    MaxPoints = 0
SPECIFICATION Spec
CHECK_DEADLOCK FALSE
SYMMETRY UserSymmetry
INVARIANTS
    TypeOK
    SessionsIndexed
    SavedAsserts
