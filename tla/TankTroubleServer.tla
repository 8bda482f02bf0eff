------------------------- MODULE TankTroubleServer -------------------------
(***************************************************************************)
(* The whole server: the IO thread and the thread pool of module Server    *)
(* and the Manager's thread of module Manager, with the two queues of      *)
(* tasks between them, from the start of the threads (Server::serve) on.   *)
(* Of a tank being steered nothing is kept, so that manageControl comes to *)
(* nothing here.                                                           *)
(***************************************************************************)
EXTENDS Server, FiniteSets

CONSTANTS
    MaxTankId, MaxHits, MaxScore, MaxTimers, MaxBacklog,   \* see Manager
    MaxPoints    \* bound: points a user earns altogether

ASSUME ManagerAssumption ==
    /\ MaxRoomNum \in 1..255
    /\ MaxTankId \in Nat \ {0} /\ MaxHits \in Nat
    /\ MaxScore \in Nat /\ MaxTimers \in Nat /\ MaxBacklog \in Nat
ASSUME MaxPointsAssumption == MaxPoints \in Nat

VARIABLES
    ioThread,    \* "created", "starting", "waiting" for the Manager, "serving"
    started,     \* managerLoop points to the loop of the Manager's thread
    rooms, nextRoomId, playersInfo, userIdsInRoom, restartTimers, ticking,
    earned       \* history: user -> points that user has taken out of rooms

M == INSTANCE Manager WITH Users <- UserIds

startVars == <<ioThread, started>>
queues == <<managerTasks, serverTasks, failed>>
managerVars == <<rooms, nextRoomId, playersInfo, userIdsInRoom, restartTimers,
                 ticking, earned>>
vars == <<startVars, serverVars, queues, managerVars>>

Init ==
    /\ ioThread = "created"
    /\ started = FALSE
    /\ ServerInit
    /\ M!Init
    /\ earned = [u \in UserIds |-> 0]

----------------------------------------------------------------------------
(* Manager::start.  What a thread does while it holds `mu` is one step. *)

Start ==
    /\ ioThread = "created"
    /\ ioThread' = "starting"
    /\ UNCHANGED started

\* Mutated form of StartSeen: start() returns without waiting.
StartNotAwaited == TRUE

StartSeen == started

AwaitStart ==
    /\ ioThread = "starting"
    /\ ioThread' = IF StartSeen THEN "serving" ELSE "waiting"
    /\ UNCHANGED started

\* A condition variable may wake a thread that nobody has notified.
WakeUp ==
    /\ ioThread = "waiting"
    /\ ioThread' = "starting"
    /\ UNCHANGED started

Manage ==
    /\ ioThread # "created"
    /\ ~started
    /\ started' = TRUE
    /\ ioThread' = IF ioThread = "waiting" THEN "starting" ELSE ioThread

StartThreads(step) == step /\ UNCHANGED <<serverVars, queues, managerVars>>

----------------------------------------------------------------------------
(* The loop of the Manager's thread. *)

ManageCreateRoom ==
    /\ ManagerTakes("Create")
    /\ M!ManageCreateRoom(Head(managerTasks).cap)
    /\ UNCHANGED earned

ManageJoinRoom ==
    /\ ManagerTakes("Join")
    /\ M!ManageJoinRoom(Head(managerTasks).user, Head(managerTasks).room)
    /\ UNCHANGED earned

ManageQuitRoom ==
    /\ ManagerTakes("Quit")
    /\ LET u == Head(managerTasks).user
       IN  /\ M!ManageQuitRoom(u)
           /\ earned' = [earned EXCEPT ![u] = @ + M!PointsOf(u)]

ManageControl ==
    /\ ManagerTakes("Control")
    /\ M!Idle
    /\ UNCHANGED <<serverTasks, failed, managerVars>>

ManagerRuns ==
    /\ started
    /\ ManageCreateRoom \/ ManageJoinRoom \/ ManageQuitRoom \/ ManageControl
    /\ UNCHANGED startVars

\* Bound: nobody plays on who may have all the points there are.
MayEarn == \A u \in UserIds : earned[u] + M!PointsOf(u) < MaxPoints

Timer(step) == step /\ UNCHANGED <<startVars, serverVars, managerTasks, earned>>

ManageGames == Timer(M!ManageGames) /\ MayEarn
ManageRooms == Timer(\E r \in ticking : M!ManageRoom(r))
RestartRooms == Timer(\E r \in RoomIds : M!RestartRoom(r))

----------------------------------------------------------------------------
(* The IO thread, once start() has returned, and the pool. *)

Serving(step) ==
    /\ ioThread = "serving"
    /\ step
    /\ UNCHANGED <<startVars, managerVars>>

Next ==
    \/ StartThreads(Start)
    \/ StartThreads(AwaitStart)
    \/ StartThreads(WakeUp)
    \/ StartThreads(Manage)
    \/ \E c \in Conns : Serving(Messages(c))
    \/ \E i \in 1..Workers : Serving(PoolThread(i))
    \/ Serving(IOTask)
    \/ ManagerRuns
    \/ ManageGames
    \/ ManageRooms
    \/ RestartRooms

Spec == Init /\ [][Next]_vars

\* As in Manager and in Sessions: each event loop keeps running what it has
\* queued, a call of manageGames visits every room, and each thread of the pool
\* does its jobs.  A task of the Manager's loop is not passed over for ever by the
\* timers that run in between (hence SF).  No game, and no client, has to go on.
Fairness ==
    /\ \A i \in 1..Workers : WF_vars(Serving(PoolThread(i)))
    /\ WF_vars(Serving(IOTask))
    /\ SF_vars(ManagerRuns)
    /\ WF_vars(ManageRooms)

FairSpec == Spec /\ Fairness

----------------------------------------------------------------------------
(* Properties. *)

\* Every interface of the Manager follows managerLoop, which is null until the
\* Manager's thread has come to set it: whichever thread is quicker, no request
\* is made before that.
NoRequestBeforeLoop == managerTasks # <<>> => started

\* When no new list is on its way, the list of rooms that the IO thread keeps,
\* and the last one sent to every client that is logged in, are those of the
\* rooms the Manager has: a client that logs in between a change and its
\* broadcast is not left with the old list.
RoomListFresh ==
    (\A i \in DOMAIN serverTasks : serverTasks[i].type # "RoomsInfo") =>
        /\ roomInfos = M!RoomInfos(rooms)
        /\ \A u \in Receivers(DOMAIN onlineUsers) :
              onlineUsers[u].conn # NoConn => told[onlineUsers[u].conn] = roomInfos

\* The IO thread counts the rooms it asks for, the Manager those it makes: the
\* limit that the one keeps holds for the other, however far behind it is.
Requested == {i \in DOMAIN managerTasks : managerTasks[i].type = "Create"}
RoomsCounted ==
    /\ roomNum <= MaxRoomNum
    /\ roomNum = Cardinality(DOMAIN rooms) + Cardinality(Requested)

\* When no two connections share an address: a user who is in a room and has no
\* session that is connected leaves the room, or logs in again, through the pool,
\* both queues, the tables of the Manager and any game in progress.  From an address
\* used before, a client may join as the user who had it after that user's quit, and
\* lose the session to that user's save: the Server then takes no notice of its end.
InRoom(u) == u \in DOMAIN playersInfo
Connected(u) == Online(u) /\ ~onlineUsers[u].disconnecting
GoneUsersLeave ==
    IsInjective(Address) =>
    \A u \in Users :
        (InRoom(u) /\ ~Connected(u)) ~> (~InRoom(u) \/ Connected(u) \/ failed # {})

\* The IO thread looks at who is told of a game and not at what it is, and objects
\* go to nobody's connection.
AsInSessions(task) ==
    CASE task.type = "RoomsInfo" -> [type |-> "RoomsInfo", infos |-> {}]
      [] task.type = "JoinResp" -> [type |-> "JoinResp", user |-> task.user]
      [] task.type \in Notices -> [type |-> "GameOn", users |-> task.users \cap Users]
      [] task.type = "Objects" -> [type |-> "GameOn", users |-> {}]
      [] OTHER -> task

Abstract == INSTANCE Sessions WITH
    inRoom      <- DOMAIN playersInfo,
    roomInfos   <- {},
    told        <- [c \in Conns |-> {}],
    serverTasks <- [i \in DOMAIN serverTasks |-> AsInSessions(serverTasks[i])],
    Backlogs    <- Nat

\* What Sessions leaves open of the Manager includes all that the Manager does:
\* its properties hold of the server as a whole.
ImplementsSessions == Abstract!Spec
=============================================================================
