\* One user, who comes back from another address: points and departures, under
\* fairness of the threads.
CONSTANTS
    c1 = c1
    c2 = c2
    c3 = c3
    Users = {u1}
    NoUser = NoUser
    Conns = {c1, c2}
    NoConn = NoConn
    Address <- OwnAddresses
    Workers = 2
    Caps = {2}
    MaxRoomNum = 1
    MaxPending = 1
    Backlogs = {0}
    MaxPoints = 1
SPECIFICATION FairSpec
CHECK_DEADLOCK FALSE
INVARIANTS
    NoInventedPoints
    LeavingUsersQuit
PROPERTIES
    GoneUsersForgotten
