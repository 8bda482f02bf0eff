------------------------------ MODULE Sessions ------------------------------
(***************************************************************************)
(* The Server together with a Manager that only knows who is in a room:    *)
(* of manageJoinRoom, manageQuitRoom and manageControl what the Server can *)
(* tell of them.  Which users win how many points is left open.            *)
(***************************************************************************)
EXTENDS Server

CONSTANTS
    MaxPoints,   \* bound: points a user earns altogether
    Backlogs     \* bound: how many tasks may wait when a notice is added

ASSUME SessionsBoundsAssumption == MaxPoints \in Nat /\ Backlogs \subseteq Nat

VARIABLES
    inRoom,      \* keys of the Manager's playersInfo
    earned       \* history: user -> points that user has taken out of rooms

sessionVars == <<serverVars, managerTasks, serverTasks, failed, inRoom, earned>>

Init ==
    /\ ServerInit
    /\ inRoom = {}
    /\ earned = [u \in UserIds |-> 0]

PostAll(tasks) == serverTasks' = serverTasks \o tasks

\* How many players a room has is left open too: no list names a room.
RoomsInfoTask == [type |-> "RoomsInfo", infos |-> {}]

ManageCreateRoom ==
    /\ ManagerTakes("Create")
    /\ PostAll(<<RoomsInfoTask>>)
    /\ UNCHANGED <<inRoom, earned>>

RefuseJoin(u) ==
    /\ PostAll(<<[type |-> "JoinResp", user |-> u]>>)
    /\ UNCHANGED inRoom

EnterRoom(u) ==
    /\ u \notin inRoom
    /\ roomNum > 0
    /\ inRoom' = inRoom \cup {u}
    /\ PostAll(<<[type |-> "JoinResp", user |-> u], RoomsInfoTask>>)

ManageJoinRoom ==
    /\ ManagerTakes("Join")
    /\ \/ RefuseJoin(Head(managerTasks).user)
       \/ EnterRoom(Head(managerTasks).user)
    /\ UNCHANGED earned

ManageQuitRoom ==
    /\ ManagerTakes("Quit")
    /\ LET u == Head(managerTasks).user
       IN  IF u \in inRoom
           THEN \E points \in 0..(MaxPoints - earned[u]) :
                   /\ inRoom' = inRoom \ {u}
                   /\ earned' = [earned EXCEPT ![u] = @ + points]
                   /\ PostAll(<<[type |-> "Save", user |-> u, score |-> points],
                                RoomsInfoTask>>)
           ELSE UNCHANGED <<inRoom, earned, serverTasks>>

ManageControl ==
    /\ ManagerTakes("Control")
    /\ UNCHANGED <<inRoom, earned, serverTasks>>

\* manageGames and restartRoom tell members of a room about their game, one thing
\* or two.  The IO thread treats all notices alike; one with no user to go to
\* does nothing there, as objects do, which need no connection.
Notice(users) == [type |-> "GameOn", users |-> users]

ManageGames ==
    /\ Running
    /\ Len(serverTasks) \in Backlogs      \* bound
    /\ \E some \in SUBSET (inRoom \cap Users) :
          \/ PostAll(<<Notice(some)>>)
          \/ \E others \in SUBSET (inRoom \cap Users) :
                PostAll(<<Notice(some), Notice(others)>>)
    /\ UNCHANGED <<serverVars, managerTasks, failed, inRoom, earned>>

ManagerRuns ==
    /\ ManageCreateRoom \/ ManageJoinRoom \/ ManageQuitRoom \/ ManageControl
    /\ UNCHANGED failed

Next ==
    \/ \E c \in Conns : Messages(c) /\ UNCHANGED <<inRoom, earned>>
    \/ \E i \in 1..Workers : PoolThread(i) /\ UNCHANGED <<inRoom, earned>>
    \/ IOTask /\ UNCHANGED <<inRoom, earned>>
    \/ ManagerRuns
    \/ ManageGames

Spec == Init /\ [][Next]_sessionVars

\* The threads keep running: a job of the pool, a queued task of either loop
\* and a callback in progress are finished.  Nothing obliges a client to act.
Fairness ==
    /\ \A i \in 1..Workers : WF_sessionVars(PoolThread(i) /\ UNCHANGED <<inRoom, earned>>)
    /\ WF_sessionVars(IOTask /\ UNCHANGED <<inRoom, earned>>)
    /\ WF_sessionVars(ManagerRuns)

FairSpec == Spec /\ Fairness

----------------------------------------------------------------------------
(* Properties. *)

\* The types of Server.h 64-74 and Data.h 14-27.
TypeOK ==
    /\ tcp \in [Conns -> {"fresh", "open", "closed"}]
    /\ onlineUsers \in [DOMAIN onlineUsers -> Session]
    /\ DOMAIN onlineUsers \subseteq Users
    /\ connIdToUserId \in [DOMAIN connIdToUserId -> UserIds]
    /\ DOMAIN connIdToUserId \subseteq Addresses
    /\ roomNum \in 0..MaxRoomNum
    /\ roomInfos \subseteq RoomInfo
    /\ told \in [Conns -> SUBSET RoomInfo]
    /\ jobs \in Seq(Job)
    /\ db \in [Users -> Nat \cup {NoRow}]
    /\ managerTasks \in Seq(ManagerTask)
    /\ serverTasks \in Seq(ServerTask)
    /\ failed \subseteq Failures
    /\ inRoom \subseteq UserIds
    /\ earned \in [UserIds -> Nat]

\* onlineUsers_ and connIdToUserId_ are each other's inverse, through logins,
\* second logins from elsewhere, disconnections and removals in any order: no
\* two users are found at one address, nobody is found at an address that was
\* given up, and every user with a connection is found at its address.
SessionsIndexed ==
    /\ \A u \in DOMAIN onlineUsers :
          LET c == onlineUsers[u].conn
          IN  c # NoConn => /\ Address[c] \in DOMAIN connIdToUserId
                            /\ connIdToUserId[Address[c]] = u
    /\ \A a \in DOMAIN connIdToUserId :
          LET u == connIdToUserId[a]
          IN  u # NoUser => /\ Online(u)
                            /\ onlineUsers[u].conn # NoConn
                            /\ Address[onlineUsers[u].conn] = a

\* The assertion at Server.cc 403 holds whenever it is reached: the mapping of a
\* user is still there when the last save of a user who has left is done.
SavedAsserts == "saved" \notin failed

\* No race between saves, logins and reconnects gives a user points that were
\* never earned, neither in the session nor in the database.
NoInventedPoints ==
    \A u \in Users :
        /\ db[u] <= earned[u]
        /\ Online(u) => onlineUsers[u].score <= earned[u]

\* When no two connections share an address: a user whose connection broke and
\* who is still in a room is on the way out of it.
LeavingUsersQuit ==
    IsInjective(Address) =>
    \A u \in inRoom \cap DOMAIN onlineUsers :
        onlineUsers[u].disconnecting =>
            \E i \in DOMAIN managerTasks :
                managerTasks[i] = [type |-> "Quit", user |-> u]

\* When no two connections share an address: the session of a user whose connection
\* broke while the user was in a room is removed, unless the user logs in again.
\* From an address used before, a client may join a room as the user who had it.
GoneUsersForgotten ==
    IsInjective(Address) =>
    \A u \in Users :
        (Online(u) /\ onlineUsers[u].disconnecting /\ u \in inRoom)
            ~> (~(Online(u) /\ onlineUsers[u].disconnecting) \/ failed # {})

\* Server.cc 384 asserts that no user is mapped to the address of a connection
\* when a login on it completes.
LoginAsserts == "login" \notin failed

\* Server.cc 373-375: a user found among onlineUsers_ at login is left over
\* from the last connection of that user, which is cleared away.
LoginFindsConnection ==
    (/\ serverTasks # <<>>
     /\ Head(serverTasks).type = "LoggedIn"
     /\ Online(Head(serverTasks).user))
        => onlineUsers[Head(serverTasks).user].conn # NoConn
=============================================================================
