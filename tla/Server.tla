------------------------------- MODULE Server -------------------------------
(***************************************************************************)
(* class Server (src/server/Server.cc): the IO thread, which answers the   *)
(* connections and keeps the tables of who is logged in, and the thread    *)
(* pool, which does the database work of a login or of a saved score and   *)
(* queues the outcome for the IO thread.  The Server hands requests to the *)
(* Manager's thread (managerTasks) and carries out what that thread posts  *)
(* back (serverTasks); a module that EXTENDS this one says who does that.  *)
(*                                                                         *)
(* A connection is an object that opens and closes once.  Its peer address *)
(* is what connIdToUserId_ is keyed by, and may be used again by a later   *)
(* connection.  A connection whose end the server has not heard of yet is  *)
(* still open here.  A nickname stands for the user whose row it names.    *)
(***************************************************************************)
EXTENDS Integers, SequencesExt

CONSTANTS
    Users,       \* those who have, or will have, a row in user_info
    NoUser,      \* the user id 0, which no row has
    Conns,       \* TCP connections
    NoConn,      \* the null TcpConnectionPtr
    Address,     \* connection -> peerAddress().toIpPort()
    Workers,     \* threads of threadPool_
    Caps,        \* room sizes a client may ask for, uint8_t
    MaxRoomNum,  \* maxRoomNum_
    MaxPending   \* bound: tasks and jobs not done when a message comes

ASSUME UsersAssumption == NoUser \notin Users
ASSUME ConnsAssumption == NoConn \notin Conns /\ DOMAIN Address = Conns
ASSUME WorkersAssumption == Workers \in Nat \ {0}
ASSUME ServerBoundsAssumption ==
    MaxRoomNum \in Nat /\ MaxPending \in Nat /\ Caps \subseteq 0..255

Addresses == Range(Address)

VARIABLES
    tcp,           \* connection -> "fresh", "open" or "closed"
    onlineUsers,   \* user -> session, for the users that have one
    connIdToUserId,\* address -> user, or NoUser where operator[] made the entry
    roomNum,       \* rooms created so far
    roomInfos,     \* the last list of rooms from the Manager
    told,          \* connection -> the last list of rooms sent on it
    jobs,          \* threadPool_: the first Workers jobs are being worked on
    db,            \* user -> score of the row, NoRow where there is none
    managerTasks,  \* managerLoop->queueInLoop
    serverTasks,   \* loop_.queueInLoop
    failed         \* assertions failed, null pointers followed

serverVars == <<tcp, onlineUsers, connIdToUserId, roomNum, roomInfos, told,
                jobs, db>>

NoRow == -1

\* OnlineUser; NoSession is what its default constructor makes.
Session == [conn : Conns \cup {NoConn}, disconnecting : BOOLEAN, score : Nat]
NoSession == [conn |-> NoConn, disconnecting |-> FALSE, score |-> 0]

Job == [op : {"Find", "Create"}, conn : Conns, user : Users]
       \cup [op : {"Found"}, conn : Conns, user : Users, score : Nat]
       \cup [op : {"Update"}, user : Users, score : Nat]
       \cup [op : {"Updated"}, user : Users]

UserIds == Users \cup {NoUser}
RoomIds == 1..MaxRoomNum

ManagerTask == [type : {"Create"}, cap : Caps]
               \cup [type : {"Join"}, user : UserIds, room : RoomIds]
               \cup [type : {"Quit", "Control"}, user : UserIds]

RoomInfo == [id : RoomIds, cap : Caps, playerNum : 0..255]

\* What a set of users is told about their game on their connections; objects
\* go by UDP.
Notices == {"GameOn", "GameOff", "Blocks", "PlayersScore"}

ServerTask ==
    [type : {"RoomsInfo"}, infos : SUBSET RoomInfo]
    \cup [type : {"JoinResp"}, user : UserIds]
    \cup [type : {"Save"}, user : UserIds, score : Nat]
    \cup [type : Notices \cup {"Objects"}, users : SUBSET UserIds]
    \cup [type : {"LoggedIn"}, conn : Conns, user : Users, score : Nat]
    \cup [type : {"Saved"}, user : Users]

Failures == {"login", "saved", "nullConn"}

ServerInit ==
    /\ tcp = [c \in Conns |-> "fresh"]
    /\ onlineUsers = [u \in {} |-> NoSession]
    /\ connIdToUserId = [a \in {} |-> NoUser]
    /\ roomNum = 0
    /\ roomInfos = {}
    /\ told = [c \in Conns |-> {}]
    /\ jobs = <<>>
    /\ db = [u \in Users |-> NoRow]
    /\ managerTasks = <<>>
    /\ serverTasks = <<>>
    /\ failed = {}

----------------------------------------------------------------------------
(* The tables. *)

With(f, x, y) == [z \in DOMAIN f \cup {x} |-> IF z = x THEN y ELSE f[z]]
Without(f, x) == Restrict(f, DOMAIN f \ {x})

Online(u) == u \in DOMAIN onlineUsers

\* connIdToUserId_[a] as an expression: it makes an entry 0 (NoUser) for a new address.
UserAt(a) == IF a \in DOMAIN connIdToUserId THEN connIdToUserId[a] ELSE NoUser

\* Mutated form of Looked: the mapping is erased after it was read.
LookedThenErased(a) == Without(connIdToUserId, a)

Looked(a) == With(connIdToUserId, a, UserAt(a))

\* Mutated form of MappingCleared: the mapping of the last connection stays.
MappingKept(u) == connIdToUserId

\* What a login does to the mapping of the user's last connection.
MappingCleared(u) ==
    IF Online(u) THEN Without(connIdToUserId, Address[onlineUsers[u].conn])
                 ELSE connIdToUserId

\* Mutated form of NewSession: points of the last session are added once more.
NewSessionAdds(c, u, score) ==
    [conn |-> c, disconnecting |-> FALSE,
     score |-> score + (IF Online(u) THEN onlineUsers[u].score ELSE 0)]

NewSession(c, u, score) == [conn |-> c, disconnecting |-> FALSE, score |-> score]

\* Those of `users` a message is sent to, and whether that can be done.
Receivers(users) ==
    {u \in users \cap DOMAIN onlineUsers : ~onlineUsers[u].disconnecting}
CanSend(users) == \A u \in Receivers(users) : onlineUsers[u].conn # NoConn

Fail(failure) ==
    /\ failed' = failed \cup {failure}
    /\ UNCHANGED <<onlineUsers, connIdToUserId, jobs>>

Ask(task) == managerTasks' = Append(managerTasks, task)

----------------------------------------------------------------------------
(* What the connections do.  Bound: not while too much is pending. *)

Running == failed = {}

MessageFrom(c) ==
    /\ Running
    /\ tcp[c] = "open"
    /\ Len(managerTasks) + Len(serverTasks) + Len(jobs) <= MaxPending

Connect(c) ==
    /\ Running
    /\ tcp[c] = "fresh"
    /\ \A d \in Conns : Address[d] = Address[c] => tcp[d] # "open"
    /\ tcp' = [tcp EXCEPT ![c] = "open"]
    /\ UNCHANGED <<onlineUsers, connIdToUserId, roomNum, roomInfos, told, jobs, db,
                   managerTasks, serverTasks, failed>>

\* Mutated form of Leaves: the Manager is not told.
LeavesUntold(u) == UNCHANGED managerTasks

Leaves(u) == Ask([type |-> "Quit", user |-> u])

HandleDisconnection(c) ==
    /\ MessageFrom(c)
    /\ tcp' = [tcp EXCEPT ![c] = "closed"]
    /\ connIdToUserId' = Looked(Address[c])
    /\ LET u == UserAt(Address[c])
       IN  IF Online(u)
           THEN /\ onlineUsers' = [onlineUsers EXCEPT ![u].disconnecting = TRUE]
                /\ Leaves(u)
           ELSE UNCHANGED <<onlineUsers, managerTasks>>
    /\ UNCHANGED <<roomNum, roomInfos, told, jobs, db, serverTasks, failed>>

OnLogin(c, u) ==
    /\ MessageFrom(c)
    /\ jobs' = Append(jobs, [op |-> "Find", conn |-> c, user |-> u])
    /\ UNCHANGED <<tcp, onlineUsers, connIdToUserId, roomNum, roomInfos, told, db,
                   managerTasks, serverTasks, failed>>

\* Mutated form of RoomLeft: one room too many.
RoomLeftOver == roomNum <= MaxRoomNum

RoomLeft == roomNum < MaxRoomNum

\* No login is needed to create a room.
OnCreateRoom(c, cap) ==
    /\ MessageFrom(c)
    /\ RoomLeft
    /\ roomNum' = roomNum + 1
    /\ Ask([type |-> "Create", cap |-> cap])
    /\ UNCHANGED <<tcp, onlineUsers, connIdToUserId, roomInfos, told, jobs, db,
                   serverTasks, failed>>

OnJoinRoom(c, r) ==
    /\ MessageFrom(c)
    /\ Address[c] \in DOMAIN connIdToUserId
    /\ Ask([type |-> "Join", user |-> connIdToUserId[Address[c]], room |-> r])
    /\ UNCHANGED <<serverVars, serverTasks, failed>>

OnQuitRoom(c) ==
    /\ MessageFrom(c)
    /\ connIdToUserId' = Looked(Address[c])
    /\ Ask([type |-> "Quit", user |-> UserAt(Address[c])])
    /\ UNCHANGED <<tcp, onlineUsers, roomNum, roomInfos, told, jobs, db, serverTasks,
                   failed>>

OnControlMessage(c) ==
    /\ MessageFrom(c)
    /\ Address[c] \in DOMAIN connIdToUserId
    /\ Ask([type |-> "Control", user |-> connIdToUserId[Address[c]]])
    /\ UNCHANGED <<serverVars, serverTasks, failed>>

----------------------------------------------------------------------------
(* The thread pool: each job is a database access or two and a callback. *)

Working(i) == Running /\ i \in 1..Len(jobs) /\ i <= Workers

FindUser(i) ==
    /\ Working(i) /\ jobs[i].op = "Find"
    /\ LET c == jobs[i].conn
           u == jobs[i].user
       IN  jobs' = [jobs EXCEPT ![i] =
                       IF db[u] = NoRow
                       THEN [op |-> "Create", conn |-> c, user |-> u]
                       ELSE [op |-> "Found", conn |-> c, user |-> u,
                             score |-> db[u]]]
    /\ UNCHANGED <<tcp, onlineUsers, connIdToUserId, roomNum, roomInfos, told, db,
                   managerTasks, serverTasks, failed>>

\* The nickname is unique: a row created by another job in between stays.
CreateUser(i) ==
    /\ Working(i) /\ jobs[i].op = "Create"
    /\ LET u == jobs[i].user
       IN  /\ db' = [db EXCEPT ![u] = IF @ = NoRow THEN 0 ELSE @]
           /\ jobs' = [jobs EXCEPT ![i] =
                          [op |-> "Found", conn |-> jobs[i].conn, user |-> u,
                           score |-> 0]]
    /\ UNCHANGED <<tcp, onlineUsers, connIdToUserId, roomNum, roomInfos, told,
                   managerTasks, serverTasks, failed>>

SaveUserInfoToDB(i) ==
    /\ Working(i) /\ jobs[i].op = "Update"
    /\ db' = [db EXCEPT ![jobs[i].user] = jobs[i].score]
    /\ jobs' = [jobs EXCEPT ![i] = [op |-> "Updated", user |-> jobs[i].user]]
    /\ UNCHANGED <<tcp, onlineUsers, connIdToUserId, roomNum, roomInfos, told,
                   managerTasks, serverTasks, failed>>

\* findUserCallback and saveUserInfoCallback queue a task for the IO thread.
Callback(i) ==
    /\ Working(i) /\ jobs[i].op \in {"Found", "Updated"}
    /\ jobs' = RemoveAt(jobs, i)
    /\ serverTasks' =
          Append(serverTasks,
                 IF jobs[i].op = "Found"
                 THEN [type |-> "LoggedIn", conn |-> jobs[i].conn,
                       user |-> jobs[i].user, score |-> jobs[i].score]
                 ELSE [type |-> "Saved", user |-> jobs[i].user])
    /\ UNCHANGED <<tcp, onlineUsers, connIdToUserId, roomNum, roomInfos, told, db,
                   managerTasks, failed>>

----------------------------------------------------------------------------
(* The tasks of the IO thread. *)

TakeTask(types) ==
    /\ Running
    /\ serverTasks # <<>>
    /\ Head(serverTasks).type \in types
    /\ serverTasks' = Tail(serverTasks)
    /\ UNCHANGED <<tcp, roomNum, db, managerTasks>>

Send(users) ==
    IF CanSend(users)
    THEN UNCHANGED <<onlineUsers, connIdToUserId, jobs, failed>>
    ELSE Fail("nullConn")

\* sendRoomsInfo, to users or on the connection of a login.
SendRoomsInfo(conns, infos) ==
    told' = [c \in Conns |-> IF c \in conns THEN infos ELSE told[c]]

RoomsInfoBroadcast ==
    /\ TakeTask({"RoomsInfo"})
    /\ roomInfos' = Head(serverTasks).infos
    /\ Send(DOMAIN onlineUsers)
    /\ SendRoomsInfo({onlineUsers[u].conn : u \in Receivers(DOMAIN onlineUsers)},
                     roomInfos')

JoinRoomRespond ==
    /\ TakeTask({"JoinResp"})
    /\ Send({Head(serverTasks).user})
    /\ UNCHANGED <<roomInfos, told>>

\* notifyGameOn, notifyGameOff, blocksDataBroadcast and playersScoreBroadcast.
Notify ==
    /\ TakeTask(Notices)
    /\ Send(Head(serverTasks).users)
    /\ UNCHANGED <<roomInfos, told>>

\* Datagrams go to udpAddr_, whatever it is, and need no connection.
ObjectsDataBroadcast ==
    /\ TakeTask({"Objects"})
    /\ UNCHANGED <<onlineUsers, connIdToUserId, roomInfos, told, jobs, failed>>

\* Mutated form of Saves: the score of a user who is leaving is dropped.
SavesOfPresent(u) == Online(u) /\ ~onlineUsers[u].disconnecting

Saves(u) == Online(u)

SaveOnlineUserInfo ==
    /\ TakeTask({"Save"})
    /\ LET u == Head(serverTasks).user
           score == onlineUsers[u].score + Head(serverTasks).score
       IN  IF Saves(u)
           THEN /\ onlineUsers' = [onlineUsers EXCEPT ![u].score = score]
                /\ jobs' = Append(jobs, [op |-> "Update", user |-> u,
                                         score |-> score])
           ELSE UNCHANGED <<onlineUsers, jobs>>
    /\ UNCHANGED <<connIdToUserId, roomInfos, told, failed>>

\* Mutated form of InformedAtLogin: the list is not sent at login.
NotInformedAtLogin(c) == {}

InformedAtLogin(c) == {c}

FindUserCallback ==
    /\ TakeTask({"LoggedIn"})
    /\ LET u == Head(serverTasks).user
           c == Head(serverTasks).conn
       IN  IF Online(u) /\ onlineUsers[u].conn = NoConn
           THEN Fail("nullConn") /\ UNCHANGED told
           ELSE IF Address[c] \in DOMAIN MappingCleared(u)
           THEN Fail("login") /\ UNCHANGED told
           ELSE /\ onlineUsers' = With(onlineUsers, u,
                                       NewSession(c, u, Head(serverTasks).score))
                /\ connIdToUserId' = With(MappingCleared(u), Address[c], u)
                /\ SendRoomsInfo(InformedAtLogin(c), roomInfos)
                /\ UNCHANGED <<jobs, failed>>
    /\ UNCHANGED roomInfos

SaveUserInfoCallback ==
    /\ TakeTask({"Saved"})
    /\ LET u == Head(serverTasks).user
           session == IF Online(u) THEN onlineUsers[u] ELSE NoSession
       IN  IF ~session.disconnecting
           THEN /\ onlineUsers' = With(onlineUsers, u, session)
                /\ UNCHANGED <<connIdToUserId, jobs, failed>>
           ELSE IF session.conn = NoConn
           THEN Fail("nullConn")
           ELSE IF Address[session.conn] \notin DOMAIN connIdToUserId
           THEN Fail("saved")
           ELSE /\ onlineUsers' = Without(onlineUsers, u)
                /\ connIdToUserId' = Without(connIdToUserId, Address[session.conn])
                /\ UNCHANGED <<jobs, failed>>
    /\ UNCHANGED <<roomInfos, told>>

----------------------------------------------------------------------------
Messages(c) ==
    \/ Connect(c)
    \/ HandleDisconnection(c)
    \/ \E u \in Users : OnLogin(c, u)
    \/ \E cap \in Caps : OnCreateRoom(c, cap)
    \/ \E r \in RoomIds : OnJoinRoom(c, r)
    \/ OnQuitRoom(c)
    \/ OnControlMessage(c)

\* The head of managerTasks is taken by the Manager's thread.
ManagerTakes(type) ==
    /\ Running
    /\ managerTasks # <<>>
    /\ Head(managerTasks).type = type
    /\ managerTasks' = Tail(managerTasks)
    /\ UNCHANGED serverVars

PoolThread(i) ==
    FindUser(i) \/ CreateUser(i) \/ SaveUserInfoToDB(i) \/ Callback(i)

IOTask ==
    \/ RoomsInfoBroadcast
    \/ JoinRoomRespond
    \/ Notify
    \/ ObjectsDataBroadcast
    \/ SaveOnlineUserInfo
    \/ FindUserCallback
    \/ SaveUserInfoCallback
=============================================================================
