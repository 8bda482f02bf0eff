---------------------------- MODULE ServerProofs ----------------------------
(***************************************************************************)
(* Proofs about the whole server, put together from those about its parts: *)
(* the Manager's thread keeps its tables whatever the IO thread and the    *)
(* pool do in between, and what all of them do together is what module     *)
(* Sessions allows, so that the properties proved of Sessions hold of the  *)
(* server.  For every set of users and connections, every number of        *)
(* threads in the pool, every set of room sizes that the tank ids suffice  *)
(* for, and every bound.  Then what only the whole has: the start of the   *)
(* threads, and the list of rooms on its way to the clients.               *)
(***************************************************************************)
EXTENDS TankTroubleServer, FiniteSetTheorems, FunctionTheorems, SequenceTheorems,
        TLAPS

\* What is proved of the Manager, for the Manager of this server,
LP == INSTANCE LobbyProofs WITH Users <- UserIds

\* and of Sessions, for what it sees of this server.
SP == INSTANCE SessionsProofs WITH
    inRoom      <- DOMAIN playersInfo,
    roomInfos   <- {},
    told        <- [c \in Conns |-> {}],
    serverTasks <- [i \in DOMAIN serverTasks |-> AsInSessions(serverTasks[i])],
    Backlogs    <- Nat

\* Manager is what LobbyProofs extends, word for word.
LEMMA SameManager ==
    /\ \A S : LP!Cardinality(S) = Cardinality(S)
    /\ \A rs : M!RoomInfos(rs) = LP!RoomInfos(rs)
    /\ \A u : M!PointsOf(u) = LP!PointsOf(u)
    /\ M!CapsFitTankIds <=> LP!CapsFitTankIds
    /\ M!TablesInv <=> LP!TablesInv
    /\ M!Init <=> LP!Init
    /\ \A cap : M!ManageCreateRoom(cap) <=> LP!ManageCreateRoom(cap)
    /\ \A u, r : M!ManageJoinRoom(u, r) <=> LP!ManageJoinRoom(u, r)
    /\ \A u : M!ManageQuitRoom(u) <=> LP!ManageQuitRoom(u)
    /\ M!ManageGames <=> LP!ManageGames
    /\ \A r : M!ManageRoom(r) <=> LP!ManageRoom(r)
    /\ \A r : M!RestartRoom(r) <=> LP!RestartRoom(r)
<1> USE DEF M!Init, LP!Init, M!NewRoom, LP!NewRoom, M!PlayerIds, LP!PlayerIds,
    M!NoRow, LP!NoRow, M!RoomIds, LP!RoomIds, M!ManageCreateRoom,
    LP!ManageCreateRoom, M!Idle, LP!Idle, M!MayPost, LP!MayPost, M!Post, LP!Post,
    M!RoomsInfoTask, LP!RoomsInfoTask, M!RoomInfos, LP!RoomInfos, M!ManageJoinRoom,
    LP!ManageJoinRoom, M!RefuseJoin, LP!RefuseJoin, M!JoinRespTask, LP!JoinRespTask,
    M!managerVars, LP!managerVars, M!RoomOpen, LP!RoomOpen, M!Status, LP!Status,
    M!Full, LP!Full, M!EnterRoom, LP!EnterRoom, M!NewPlayer, LP!NewPlayer,
    M!GetTankId, LP!GetTankId, M!TankIds, LP!TankIds, M!SetRow, LP!SetRow,
    M!Asserting, LP!Asserting, M!Check, LP!Check, M!MayAddPlayer, LP!MayAddPlayer,
    M!ManageQuitRoom, LP!ManageQuitRoom, M!LeaveRoom, LP!LeaveRoom, M!PlayerQuit,
    LP!PlayerQuit, M!ErasePlayer, LP!ErasePlayer, M!MayReturnTankId,
    LP!MayReturnTankId, M!SaveTask, LP!SaveTask, M!ScoreOf, LP!ScoreOf, M!vars,
    LP!vars, M!ManageGames, LP!ManageGames, M!WithinBounds, LP!WithinBounds,
    M!CanFinish, LP!CanFinish, M!ManageRoom, LP!ManageRoom, M!BeginGame,
    LP!BeginGame, M!InitRound, LP!InitRound, M!Rows, LP!Rows, M!SetStatus,
    LP!SetStatus, M!NotifyTask, LP!NotifyTask, M!EndGame, LP!EndGame, M!PlayGame,
    LP!PlayGame, M!NoWinner, LP!NoWinner, M!MoveAllMay, LP!MoveAllMay,
    M!HitsPossible, LP!HitsPossible, M!MayEndUndecided, LP!MayEndUndecided, M!MayWin,
    LP!MayWin, M!MoveAll, LP!MoveAll, M!AfterHits, LP!AfterHits, M!ClearRestart,
    LP!ClearRestart, M!NeedRestart, LP!NeedRestart, M!PassOver, LP!PassOver,
    M!RestartRoom, LP!RestartRoom, M!TablesInv, LP!TablesInv, M!TablesTypeOK,
    LP!TablesTypeOK, M!Room, LP!Room, M!RoomStatus, LP!RoomStatus, M!Scores,
    LP!Scores, M!PlayerInfo, LP!PlayerInfo, M!MembersMatch, LP!MembersMatch,
    M!PlayersMatch, LP!PlayersMatch, M!PlayerIdsIn, LP!PlayerIdsIn, M!HeadCount,
    LP!HeadCount, M!RoundSound, LP!RoundSound, M!RestartPending, LP!RestartPending,
    M!TimersOfRooms, LP!TimersOfRooms, M!CapsFitTankIds, LP!CapsFitTankIds,
    M!PointsOf, LP!PointsOf, M!Cardinality, LP!Cardinality, M!Restrict, LP!Restrict,
    M!IsFiniteSet, LP!IsFiniteSet, Cardinality, IsFiniteSet
<1>1. /\ \A S : LP!Cardinality(S) = Cardinality(S)
      /\ \A rs : M!RoomInfos(rs) = LP!RoomInfos(rs)
      /\ \A u : M!PointsOf(u) = LP!PointsOf(u)
      /\ M!CapsFitTankIds <=> LP!CapsFitTankIds
      /\ M!TablesInv <=> LP!TablesInv
      /\ M!Init <=> LP!Init
  OBVIOUS
<1>2. /\ \A cap : M!ManageCreateRoom(cap) <=> LP!ManageCreateRoom(cap)
      /\ \A u, r : M!ManageJoinRoom(u, r) <=> LP!ManageJoinRoom(u, r)
      /\ \A u : M!ManageQuitRoom(u) <=> LP!ManageQuitRoom(u)
  OBVIOUS
<1>3. /\ M!ManageGames <=> LP!ManageGames
      /\ \A r : M!ManageRoom(r) <=> LP!ManageRoom(r)
      /\ \A r : M!RestartRoom(r) <=> LP!RestartRoom(r)
  OBVIOUS
<1> QED
  BY <1>1, <1>2, <1>3

\* Sessions is what SessionsProofs extends, word for word.
LEMMA SameSessions ==
    /\ Abstract!Init <=> SP!Init
    /\ Abstract!Next <=> SP!Next
    /\ Abstract!sessionVars = SP!sessionVars
    /\ Abstract!SessionsIndexed <=> SP!SessionsIndexed
    /\ Abstract!SavedAsserts <=> SP!SavedAsserts
    /\ Abstract!NoInventedPoints <=> SP!NoInventedPoints
    /\ Abstract!LeavingUsersQuit <=> SP!LeavingUsersQuit
<1> USE DEF Abstract!Init, SP!Init, Abstract!ServerInit, SP!ServerInit,
    Abstract!NoSession, SP!NoSession, Abstract!NoRow, SP!NoRow, Abstract!UserIds,
    SP!UserIds, Abstract!Next, SP!Next, Abstract!Messages, SP!Messages,
    Abstract!Connect, SP!Connect, Abstract!Running, SP!Running,
    Abstract!HandleDisconnection, SP!HandleDisconnection, Abstract!MessageFrom,
    SP!MessageFrom, Abstract!Looked, SP!Looked, Abstract!With, SP!With,
    Abstract!UserAt, SP!UserAt, Abstract!Online, SP!Online, Abstract!Leaves,
    SP!Leaves, Abstract!Ask, SP!Ask, Abstract!OnLogin, SP!OnLogin,
    Abstract!OnCreateRoom, SP!OnCreateRoom, Abstract!RoomLeft, SP!RoomLeft,
    Abstract!RoomIds, SP!RoomIds, Abstract!OnJoinRoom, SP!OnJoinRoom,
    Abstract!serverVars, SP!serverVars, Abstract!OnQuitRoom, SP!OnQuitRoom,
    Abstract!OnControlMessage, SP!OnControlMessage, Abstract!PoolThread,
    SP!PoolThread, Abstract!FindUser, SP!FindUser, Abstract!Working, SP!Working,
    Abstract!CreateUser, SP!CreateUser, Abstract!SaveUserInfoToDB,
    SP!SaveUserInfoToDB, Abstract!Callback, SP!Callback, Abstract!IOTask, SP!IOTask,
    Abstract!RoomsInfoBroadcast, SP!RoomsInfoBroadcast, Abstract!TakeTask,
    SP!TakeTask, Abstract!Send, SP!Send, Abstract!CanSend, SP!CanSend,
    Abstract!Receivers, SP!Receivers, Abstract!Fail, SP!Fail, Abstract!SendRoomsInfo,
    SP!SendRoomsInfo, Abstract!JoinRoomRespond, SP!JoinRoomRespond, Abstract!Notify,
    SP!Notify, Abstract!Notices, SP!Notices, Abstract!ObjectsDataBroadcast,
    SP!ObjectsDataBroadcast, Abstract!SaveOnlineUserInfo, SP!SaveOnlineUserInfo,
    Abstract!Saves, SP!Saves, Abstract!FindUserCallback, SP!FindUserCallback,
    Abstract!MappingCleared, SP!MappingCleared, Abstract!Without, SP!Without,
    Abstract!NewSession, SP!NewSession, Abstract!InformedAtLogin, SP!InformedAtLogin,
    Abstract!SaveUserInfoCallback, SP!SaveUserInfoCallback, Abstract!ManagerRuns,
    SP!ManagerRuns, Abstract!ManageCreateRoom, SP!ManageCreateRoom,
    Abstract!ManagerTakes, SP!ManagerTakes, Abstract!PostAll, SP!PostAll,
    Abstract!RoomsInfoTask, SP!RoomsInfoTask, Abstract!ManageJoinRoom,
    SP!ManageJoinRoom, Abstract!RefuseJoin, SP!RefuseJoin, Abstract!EnterRoom,
    SP!EnterRoom, Abstract!ManageQuitRoom, SP!ManageQuitRoom, Abstract!ManageControl,
    SP!ManageControl, Abstract!ManageGames, SP!ManageGames, Abstract!Notice,
    SP!Notice, Abstract!sessionVars, SP!sessionVars, Abstract!SessionsIndexed,
    SP!SessionsIndexed, Abstract!NoInventedPoints, SP!NoInventedPoints,
    Abstract!LeavingUsersQuit, SP!LeavingUsersQuit, Abstract!SavedAsserts,
    SP!SavedAsserts, Abstract!Restrict, SP!Restrict, Abstract!RemoveAt, SP!RemoveAt,
    Abstract!IsInjective, SP!IsInjective
<1> QED
  OBVIOUS

----------------------------------------------------------------------------
(* What a callback of the Manager's thread does, as far as the other       *)
(* threads can tell.                                                       *)

\* While nothing has failed, and no call of manageGames is going on.
Idling == failed = {} /\ failed' = {} /\ ticking = {} /\ ticking' = {}

\* The points that users have in their rooms.
Points == [u \in UserIds |-> M!PointsOf(u)]

\* What the assumptions about the Manager's constants come to.
LEMMA ManagerConstants ==
    /\ MaxTankId \in Nat \ {0} /\ MaxHits \in Nat
    /\ Caps \subseteq 0..255
    /\ MaxRoomNum \in 1..255
    /\ MaxScore \in Nat /\ MaxTimers \in Nat /\ MaxBacklog \in Nat
BY ManagerAssumption, ServerBoundsAssumption

LEMMA SamePoints == Points = LP!Points /\ Points' = LP!Points'
<1>1. Points = LP!Points
  BY SameManager DEF Points, LP!Points
<1>2. (Points = LP!Points)'
  BY <1>1, PTL
<1> QED
  BY <1>1, <1>2

\* The points of a user in a room are a number.
LEMMA PointsType ==
    ASSUME LP!TablesInv
    PROVE  Points \in [UserIds -> Nat]
<1>1. ASSUME NEW u \in UserIds PROVE LP!PointsOf(u) \in Nat
  <2>1. CASE u \in DOMAIN playersInfo
    <3> DEFINE r == playersInfo[u].roomId
               id == playersInfo[u].playerId
    <3>1. r \in DOMAIN rooms /\ id \in LP!PlayerIds
      BY <2>1 DEF LP!TablesInv, LP!MembersMatch, LP!TablesTypeOK, LP!PlayerInfo
    <3>2. rooms[r].players \in LP!Scores
      BY <3>1 DEF LP!TablesInv, LP!TablesTypeOK, LP!Room
    <3> HIDE DEF r, id
    <3>3. LP!ScoreOf(rooms[r].players, id) \in Nat
      BY <3>1, <3>2 DEF LP!ScoreOf, LP!Scores, LP!NoRow
    <3> QED
      BY <2>1, <3>3 DEF LP!PointsOf, r, id
  <2>2. CASE u \notin DOMAIN playersInfo
    BY <2>2 DEF LP!PointsOf
  <2> QED
    BY <2>1, <2>2
<1> QED
  BY <1>1, SamePoints DEF LP!Points

\* The rooms are numbered without gap.
LEMMA RoomsNumbered ==
    ASSUME LP!TablesInv
    PROVE  /\ nextRoomId \in 1..(MaxRoomNum + 1)
           /\ DOMAIN rooms = 1..(nextRoomId - 1)
           /\ DOMAIN rooms \subseteq LP!RoomIds
           /\ IsFiniteSet(DOMAIN rooms)
           /\ Cardinality(DOMAIN rooms) = nextRoomId - 1
<1>1. nextRoomId \in 1..(MaxRoomNum + 1) /\ DOMAIN rooms = 1..(nextRoomId - 1)
  BY DEF LP!TablesInv, LP!TablesTypeOK
<1>2. 1 \in Int /\ nextRoomId - 1 \in Int /\ MaxRoomNum \in Nat
  BY <1>1, ManagerConstants
<1>3. /\ IsFiniteSet(1..(nextRoomId - 1))
      /\ Cardinality(1..(nextRoomId - 1)) =
            IF 1 > nextRoomId - 1 THEN 0 ELSE (nextRoomId - 1) - 1 + 1
  BY <1>2, FS_Interval
<1>4. DOMAIN rooms \subseteq LP!RoomIds
  BY LP!RoomsType, ManagerConstants DEF LP!TablesInv
<1> QED
  BY <1>1, <1>2, <1>3, <1>4

\* The list of rooms says how large each room is and how many members it has,
\* and so does not change while nobody enters or leaves.
LEMMA RoomInfosOf ==
    ASSUME LP!TablesInv
    PROVE  M!RoomInfos(rooms) =
              {[id |-> r, cap |-> LP!CapOf[r],
                playerNum |-> Cardinality(userIdsInRoom[r])] : r \in DOMAIN LP!CapOf}
<1>1. DOMAIN LP!CapOf = DOMAIN rooms
      /\ \A r \in DOMAIN rooms : LP!CapOf[r] = rooms[r].cap
  BY DEF LP!CapOf
<1>2. \A r \in DOMAIN rooms : rooms[r].playerNum = Cardinality(userIdsInRoom[r])
  BY SameManager DEF LP!TablesInv, LP!HeadCount
<1> QED
  BY <1>1, <1>2 DEF M!RoomInfos

LEMMA RoomInfosSame ==
    ASSUME LP!TablesInv, LP!TablesInv', UNCHANGED <<LP!CapOf, userIdsInRoom>>
    PROVE  DOMAIN rooms' = DOMAIN rooms /\ M!RoomInfos(rooms') = M!RoomInfos(rooms)
<1>1. M!RoomInfos(rooms') =
         {[id |-> r, cap |-> LP!CapOf'[r],
           playerNum |-> Cardinality(userIdsInRoom'[r])] : r \in DOMAIN LP!CapOf'}
  <2>1. (LP!TablesInv =>
           M!RoomInfos(rooms) =
             {[id |-> r, cap |-> LP!CapOf[r],
               playerNum |-> Cardinality(userIdsInRoom[r])] : r \in DOMAIN LP!CapOf})'
    BY RoomInfosOf, PTL
  <2> QED
    BY <2>1
<1>2. DOMAIN rooms' = DOMAIN rooms
  BY DEF LP!CapOf
<1> QED
  BY <1>1, <1>2, RoomInfosOf

\* manageCreateRoom adds a room and tells the clients.
LEMMA RoomCreated ==
    ASSUME LP!CapsFitTankIds, LP!TablesInv, NEW cap \in Caps,
           M!ManageCreateRoom(cap)
    PROVE  /\ LP!TablesInv' /\ Idling
           /\ UNCHANGED <<playersInfo, Points>>
           /\ nextRoomId \notin DOMAIN rooms
           /\ DOMAIN rooms' = DOMAIN rooms \cup {nextRoomId}
           /\ serverTasks' = serverTasks \o <<M!RoomsInfoTask(rooms')>>
<1>1. LP!ManageCreateRoom(cap)
  BY SameManager
<1>2. LP!TablesInv' /\ failed' = failed
  BY <1>1, LP!CreateJoinInv, ManagerConstants
<1>3. LP!Abstract!Open(nextRoomId, cap)
  BY <1>1, LP!CreateRoomOpens, ManagerConstants
<1>4. UNCHANGED LP!Points
  BY <1>3 DEF LP!Abstract!Open, LP!Points
<1>5. /\ failed = {} /\ ticking = {} /\ UNCHANGED <<playersInfo, ticking>>
      /\ DOMAIN rooms' = DOMAIN rooms \cup {nextRoomId}
      /\ serverTasks' = serverTasks \o <<M!RoomsInfoTask(rooms')>>
  BY DEF M!ManageCreateRoom, M!Idle, M!Post
<1>6. nextRoomId \notin DOMAIN rooms
  BY RoomsNumbered
<1> QED
  BY <1>2, <1>4, <1>5, <1>6, SamePoints DEF Idling

\* manageJoinRoom answers the user, and lets one into a room that is there.
LEMMA RoomJoined ==
    ASSUME LP!CapsFitTankIds, LP!TablesInv, NEW u \in UserIds,
           NEW r \in 0..MaxRoomNum, M!ManageJoinRoom(u, r)
    PROVE  /\ LP!TablesInv' /\ Idling
           /\ DOMAIN rooms' = DOMAIN rooms
           /\ UNCHANGED Points
           /\ \E code \in M!JoinCodes :
                 \/ /\ UNCHANGED <<rooms, playersInfo>>
                    /\ serverTasks' = serverTasks \o <<M!JoinRespTask(u, code)>>
                 \/ /\ u \notin DOMAIN playersInfo
                    /\ DOMAIN rooms # {}
                    /\ DOMAIN playersInfo' = DOMAIN playersInfo \cup {u}
                    /\ serverTasks' = serverTasks \o <<M!JoinRespTask(u, code),
                                                       M!RoomsInfoTask(rooms')>>
<1>1. LP!ManageJoinRoom(u, r)
  BY SameManager
<1>2. LP!TablesInv' /\ failed' = failed
  BY <1>1, LP!CreateJoinInv, ManagerConstants
<1>3. failed = {} /\ ticking = {}
  BY DEF M!ManageJoinRoom, M!Idle
<1>4. CASE \E code \in M!JoinCodes : M!RefuseJoin(u, code)
  <2>1. PICK code \in M!JoinCodes : M!RefuseJoin(u, code)
    BY <1>4
  <2>2. /\ UNCHANGED <<rooms, playersInfo, ticking>>
        /\ serverTasks' = serverTasks \o <<M!JoinRespTask(u, code)>>
    BY <2>1 DEF M!RefuseJoin, M!managerVars, M!Post
  <2>3. UNCHANGED Points
    BY <2>2 DEF Points, M!PointsOf
  <2> QED
    BY <1>2, <1>3, <2>2, <2>3 DEF Idling
<1>5. CASE u \notin DOMAIN playersInfo /\ r \in DOMAIN rooms
           /\ LP!RoomOpen(r) /\ LP!EnterRoom(u, r) /\ M!EnterRoom(u, r)
  <2>1. LP!Abstract!Enter(u, r)
    BY <1>5, LP!EnterRoomEnters, ManagerConstants
  <2>2. UNCHANGED Points
    BY <2>1, SamePoints DEF LP!Abstract!Enter, LP!Points
  <2>3. /\ UNCHANGED ticking
        /\ DOMAIN rooms' = DOMAIN rooms
        /\ DOMAIN playersInfo' = DOMAIN playersInfo \cup {u}
        /\ "JOIN_ROOM_SUCCESS" \in M!JoinCodes
        /\ serverTasks' = serverTasks \o <<M!JoinRespTask(u, "JOIN_ROOM_SUCCESS"),
                                           M!RoomsInfoTask(rooms')>>
    BY <1>5 DEF M!EnterRoom, M!Post, M!JoinCodes, LP!TablesInv, LP!TablesTypeOK
  <2> QED
    BY <1>2, <1>3, <1>5, <2>2, <2>3 DEF Idling
<1> QED
  BY <1>1, <1>4, <1>5 DEF M!ManageJoinRoom, LP!ManageJoinRoom, M!JoinCodes,
                          M!RoomOpen, LP!RoomOpen, M!Status, LP!Status, M!Full, LP!Full

\* manageQuitRoom posts the points of a user who was in a room.
LEMMA RoomQuit ==
    ASSUME LP!CapsFitTankIds, LP!TablesInv, NEW u \in UserIds,
           M!ManageQuitRoom(u)
    PROVE  /\ LP!TablesInv' /\ Idling
           /\ DOMAIN rooms' = DOMAIN rooms
           /\ \/ /\ u \notin DOMAIN playersInfo
                 /\ UNCHANGED <<rooms, playersInfo, Points, serverTasks>>
                 /\ Points[u] = 0
              \/ /\ u \in DOMAIN playersInfo
                 /\ DOMAIN playersInfo' = DOMAIN playersInfo \ {u}
                 /\ Points' = [Points EXCEPT ![u] = 0]
                 /\ serverTasks' = serverTasks \o <<M!SaveTask(u, Points[u]),
                                                    M!RoomsInfoTask(rooms')>>
<1>1. LP!ManageQuitRoom(u)
  BY SameManager
<1>2. LP!TablesInv' /\ failed' = failed
  BY <1>1, LP!QuitInv, ManagerConstants
<1>3. failed = {} /\ ticking = {}
  BY DEF M!ManageQuitRoom, M!Idle
<1>4. u \in DOMAIN playersInfo => playersInfo[u].roomId \in DOMAIN rooms
  BY DEF LP!TablesInv, LP!MembersMatch
<1>5. CASE u \notin DOMAIN playersInfo
  <2>1. UNCHANGED <<rooms, playersInfo, ticking, serverTasks>>
    BY <1>5 DEF M!ManageQuitRoom, M!vars, M!managerVars
  <2>2. UNCHANGED Points /\ Points[u] = 0
    BY <1>5, <2>1 DEF Points, M!PointsOf
  <2> QED
    BY <1>2, <1>3, <1>5, <2>1, <2>2 DEF Idling
<1>6. CASE u \in DOMAIN playersInfo
  <2> DEFINE r == playersInfo[u].roomId
             id == playersInfo[u].playerId
  <2>1. M!LeaveRoom(u, r, id) /\ LP!LeaveRoom(u, r, id)
    BY <1>1, <1>4, <1>6 DEF M!ManageQuitRoom, LP!ManageQuitRoom
  <2>2. LP!Abstract!Leave(u, r)
    BY <1>6, <2>1, LP!LeaveRoomLeaves, ManagerConstants
  <2>3. Points' = [Points EXCEPT ![u] = 0]
    BY <2>2, SamePoints DEF LP!Abstract!Leave, LP!Points
  <2>4. M!ScoreOf(rooms[r].players, id) = Points[u]
    BY <1>6 DEF Points, M!PointsOf
  <2>5. /\ UNCHANGED ticking
        /\ DOMAIN rooms' = DOMAIN rooms
        /\ serverTasks' = serverTasks \o <<M!SaveTask(u, Points[u]),
                                           M!RoomsInfoTask(rooms')>>
    BY <2>1, <2>4 DEF M!LeaveRoom, M!Post, LP!TablesInv, LP!TablesTypeOK
  <2>6. DOMAIN playersInfo' = DOMAIN playersInfo \ {u}
    BY <2>1 DEF M!LeaveRoom, M!ErasePlayer, M!Restrict
  <2> QED
    BY <1>2, <1>3, <1>6, <2>3, <2>5, <2>6 DEF Idling
<1> QED
  BY <1>5, <1>6

\* The timers post one notice or two to members of a room, or nothing.
PostsNotices ==
    \/ UNCHANGED serverTasks
    \/ \E t \in LP!GameNotice : serverTasks' = serverTasks \o <<t>>
    \/ \E t, v \in LP!GameNotice : serverTasks' = serverTasks \o <<t, v>>

\* Rooms, members and the list of rooms are the same as before.
SameRooms ==
    /\ UNCHANGED <<playersInfo, userIdsInRoom>>
    /\ DOMAIN rooms' = DOMAIN rooms
    /\ M!RoomInfos(rooms') = M!RoomInfos(rooms)

\* What the timers have in common.
LEMMA TimersRun ==
    ASSUME LP!CapsFitTankIds, LP!TablesInv,
           \/ M!ManageGames
           \/ \E r \in ticking : M!ManageRoom(r)
           \/ \E r \in M!RoomIds : M!RestartRoom(r)
    PROVE  LP!TablesInv' /\ failed = {} /\ failed' = {} /\ PostsNotices
<1>1. LP!Tick \/ \E r \in LP!RoomIds : LP!RestartRoom(r)
  BY SameManager DEF LP!Tick, M!RoomIds, LP!RoomIds
<1>2. LP!TablesInv' /\ failed' = failed
  BY <1>1, LP!TimersInv, ManagerConstants
<1>3. PostsNotices
  BY <1>1, LP!NoticesPosted, ManagerConstants DEF PostsNotices
<1>4. failed = {}
  BY DEF M!ManageGames, M!ManageRoom, M!RestartRoom, M!Idle
<1> QED
  BY <1>2, <1>3, <1>4

\* manageGames sets out to visit every room.
LEMMA GamesVisited ==
    ASSUME M!ManageGames
    PROVE  /\ ticking = {} /\ ticking' = DOMAIN rooms
           /\ SameRooms /\ UNCHANGED <<rooms, Points, serverTasks>>
<1>1. /\ ticking = {} /\ ticking' = DOMAIN rooms
      /\ UNCHANGED <<rooms, playersInfo, userIdsInRoom, serverTasks>>
  BY DEF M!ManageGames, M!Idle
<1>2. UNCHANGED Points
  BY <1>1 DEF Points, M!PointsOf
<1> QED
  BY <1>1, <1>2 DEF SameRooms

\* In a visit one member of the room wins a point, or nobody does.
LEMMA RoomVisited ==
    ASSUME LP!CapsFitTankIds, LP!TablesInv, NEW r \in ticking, M!ManageRoom(r)
    PROVE  /\ ticking' = ticking \ {r} /\ SameRooms
           /\ \/ UNCHANGED Points
              \/ \E u \in UserIds :
                    /\ u \in DOMAIN playersInfo /\ playersInfo[u].roomId = r
                    /\ Points' = [Points EXCEPT ![u] = @ + 1]
<1>1. /\ LP!ManageRoom(r) /\ LP!TablesInv'
  BY SameManager, TimersRun
<1>2. /\ r \in DOMAIN rooms /\ r \in LP!RoomIds
      /\ ticking' = ticking \ {r}
      /\ UNCHANGED <<playersInfo, userIdsInRoom>>
  BY <1>1, RoomsNumbered DEF LP!ManageRoom, LP!TablesInv, LP!TablesTypeOK
<1>3. CASE LP!BeginGame(r)
  <2>1. LP!Abstract!StartGame(r)
    BY <1>2, <1>3, LP!BeginGameStarts, ManagerConstants
  <2>2. UNCHANGED <<LP!CapOf, LP!Points>>
    BY <2>1 DEF LP!Abstract!StartGame, LP!CapOf, LP!Points
  <2> QED
    BY <1>1, <1>2, <2>2, RoomInfosSame, SamePoints DEF SameRooms
<1>4. CASE LP!EndGame(r)
  <2>1. LP!Abstract!StopGame(r)
    BY <1>2, <1>4, LP!EndGameStops, ManagerConstants
  <2>2. UNCHANGED <<LP!CapOf, LP!Points>>
    BY <2>1 DEF LP!Abstract!StopGame, LP!CapOf, LP!Points
  <2> QED
    BY <1>1, <1>2, <2>2, RoomInfosSame, SamePoints DEF SameRooms
<1>5. CASE LP!PlayGame(r)
  <2>1. \/ \E u \in UserIds : LP!Abstract!WinRound(u, r)
        \/ UNCHANGED LP!Abstract!lobbyVars
    BY <1>2, <1>5, LP!PlayGameWins, ManagerConstants
  <2>2. CASE UNCHANGED LP!Abstract!lobbyVars
    <3>1. UNCHANGED <<LP!CapOf, LP!Points>>
      BY <2>2 DEF LP!Abstract!lobbyVars, LP!CapOf, LP!Points
    <3> QED
      BY <1>1, <1>2, <3>1, RoomInfosSame, SamePoints DEF SameRooms
  <2>3. ASSUME NEW u \in UserIds, LP!Abstract!WinRound(u, r)
        PROVE  /\ SameRooms
               /\ u \in DOMAIN playersInfo /\ playersInfo[u].roomId = r
               /\ Points' = [Points EXCEPT ![u] = @ + 1]
    <3>1. /\ u \in userIdsInRoom[r]
          /\ LP!Points' = [LP!Points EXCEPT ![u] = @ + 1]
          /\ UNCHANGED LP!CapOf
      BY <2>3 DEF LP!Abstract!WinRound, LP!CapOf, LP!Points
    <3>2. u \in DOMAIN playersInfo /\ playersInfo[u].roomId = r
      BY <1>2, <3>1 DEF LP!TablesInv, LP!MembersMatch
    <3> QED
      BY <1>1, <1>2, <3>1, <3>2, RoomInfosSame, SamePoints DEF SameRooms
  <2> QED
    BY <1>2, <2>1, <2>2, <2>3
<1>6. CASE LP!PassOver(r)
  <2>1. UNCHANGED rooms
    BY <1>6 DEF LP!PassOver
  <2>2. UNCHANGED Points
    BY <1>2, <2>1 DEF Points, M!PointsOf
  <2> QED
    BY <1>2, <2>1, <2>2 DEF SameRooms
<1> QED
  BY <1>1, <1>2, <1>3, <1>4, <1>5, <1>6 DEF LP!ManageRoom

\* A new round gives nobody a point.
LEMMA RoomRestarted ==
    ASSUME LP!CapsFitTankIds, LP!TablesInv, NEW r \in M!RoomIds,
           M!RestartRoom(r)
    PROVE  SameRooms /\ UNCHANGED <<ticking, Points>>
<1>1. r \in LP!RoomIds /\ LP!RestartRoom(r) /\ LP!TablesInv'
  BY SameManager, TimersRun DEF M!RoomIds, LP!RoomIds
<1>2. LP!Abstract!NextRound(r) \/ UNCHANGED LP!Abstract!lobbyVars
  BY <1>1, LP!RestartRoomNext, ManagerConstants
<1>3. UNCHANGED <<LP!CapOf, LP!Points>>
  BY <1>2 DEF LP!Abstract!NextRound, LP!Abstract!lobbyVars, LP!CapOf, LP!Points
<1>4. UNCHANGED <<playersInfo, userIdsInRoom, ticking>>
  BY DEF M!RestartRoom
<1> QED
  BY <1>1, <1>3, <1>4, RoomInfosSame, SamePoints DEF SameRooms

----------------------------------------------------------------------------
(* The queue to the IO thread, and what Sessions sees of it. *)

Task == ServerTask \cup LP!ServerTask
SeenTask == {AsInSessions(t) : t \in Task}

AsSeen(queue) == [i \in DOMAIN queue |-> AsInSessions(queue[i])]

\* Sessions sees as many tasks, each in its place.
LEMMA SeenQueue ==
    ASSUME NEW q \in Seq(Task)
    PROVE  /\ AsSeen(q) \in Seq(SeenTask)
           /\ DOMAIN AsSeen(q) = 1..Len(q)
           /\ Len(AsSeen(q)) = Len(q)
           /\ \A i \in 1..Len(q) : AsSeen(q)[i] = AsInSessions(q[i])
<1>1. /\ Len(q) \in Nat /\ DOMAIN q = 1..Len(q)
      /\ \A i \in 1..Len(q) : q[i] \in Task
  BY ElementOfSeq, LenProperties
<1>2. /\ AsSeen(q) = [i \in 1..Len(q) |-> AsInSessions(q[i])]
      /\ \A i \in 1..Len(q) : AsInSessions(q[i]) \in SeenTask
  BY <1>1 DEF AsSeen, SeenTask
<1>3. AsSeen(q) \in [1..Len(q) -> SeenTask]
  BY <1>2
<1>4. AsSeen(q) \in Seq(SeenTask)
  BY <1>1, <1>2, IsASeq
<1>5. Len(AsSeen(q)) = Len(q)
  BY <1>1, <1>3, <1>4, LenProperties
<1> QED
  BY <1>2, <1>4, <1>5

\* What is added at the end is added at the end for Sessions.
LEMMA SeenPosted ==
    ASSUME NEW q \in Seq(Task), NEW t \in Task, NEW v \in Task
    PROVE  /\ AsSeen(q \o <<t>>) = AsSeen(q) \o <<AsInSessions(t)>>
           /\ AsSeen(q \o <<t, v>>) =
                 AsSeen(q) \o <<AsInSessions(t), AsInSessions(v)>>
           /\ AsSeen(Append(q, t)) = Append(AsSeen(q), AsInSessions(t))
<1>1. /\ <<t>> \in Seq(Task) /\ <<t, v>> \in Seq(Task)
      /\ AsInSessions(t) \in SeenTask /\ AsInSessions(v) \in SeenTask
  BY DEF SeenTask
<1> DEFINE s == AsInSessions(t)
           w == AsInSessions(v)
<1>2. <<s>> \in Seq(SeenTask) /\ <<s, w>> \in Seq(SeenTask)
  BY <1>1
<1> HIDE DEF s, w
<1>3. PICK y \in Seq(SeenTask) :
         /\ y = AsSeen(q) /\ Len(y) = Len(q)
         /\ \A i \in 1..Len(q) : y[i] = AsInSessions(q[i])
  BY SeenQueue
<1>4. ASSUME NEW p \in Seq(Task), NEW z \in Seq(SeenTask), Len(z) = Len(p),
             \A i \in 1..Len(p) : z[i] = AsInSessions(p[i])
      PROVE  AsSeen(q \o p) = y \o z
  <2>a. /\ q \o p \in Seq(Task) /\ Len(q \o p) = Len(q) + Len(p)
        /\ \A i \in 1..(Len(q) + Len(p)) :
              (q \o p)[i] = IF i <= Len(q) THEN q[i] ELSE p[i - Len(q)]
    BY ConcatProperties, Zenon
  <2>b. /\ y \o z \in Seq(SeenTask) /\ Len(y \o z) = Len(y) + Len(z)
        /\ \A i \in 1..(Len(y) + Len(z)) :
              (y \o z)[i] = IF i <= Len(y) THEN y[i] ELSE z[i - Len(y)]
    BY ConcatProperties, Zenon
  <2>1. PICK x \in Seq(Task) :
           /\ x = q \o p /\ Len(x) = Len(q) + Len(p)
           /\ \A i \in 1..(Len(q) + Len(p)) :
                 x[i] = IF i <= Len(q) THEN q[i] ELSE p[i - Len(q)]
    BY <2>a, Zenon
  <2>2. PICK b \in Seq(SeenTask) :
           /\ b = AsSeen(x) /\ Len(b) = Len(x)
           /\ \A i \in 1..Len(x) : b[i] = AsInSessions(x[i])
    BY SeenQueue
  <2>3. PICK c \in Seq(SeenTask) :
           /\ c = y \o z /\ Len(c) = Len(y) + Len(z)
           /\ \A i \in 1..(Len(y) + Len(z)) :
                 c[i] = IF i <= Len(y) THEN y[i] ELSE z[i - Len(y)]
    BY <2>b, Zenon
  <2>4. Len(q) \in Nat /\ Len(p) \in Nat
    BY LenProperties
  <2>5. ASSUME NEW i \in 1..(Len(q) + Len(p))
        PROVE  b[i] = c[i]
    <3>1. CASE i <= Len(q)
      <4>1. i \in 1..Len(q) /\ i \in 1..Len(x) /\ i \in 1..(Len(y) + Len(z))
        BY <1>3, <1>4, <2>1, <2>4, <3>1
      <4>2. x[i] = q[i] /\ c[i] = y[i]
        BY <1>3, <2>1, <2>3, <3>1, <4>1
      <4> QED
        BY <1>3, <2>2, <4>1, <4>2
    <3>2. CASE ~(i <= Len(q))
      <4>1. i - Len(q) \in 1..Len(p)
        BY <2>4, <3>2
      <4> QED
        BY <1>3, <1>4, <2>1, <2>2, <2>3, <2>4, <3>2, <4>1
    <3> QED
      BY <3>1, <3>2
  <2>6. b = c
    BY <1>3, <1>4, <2>1, <2>2, <2>3, <2>5, SeqEqual
  <2> QED
    BY <2>1, <2>2, <2>3, <2>6
<1>5. /\ AsSeen(q \o <<t>>) = y \o <<s>>
      /\ AsSeen(q \o <<t, v>>) = y \o <<s, w>>
  <2>1. /\ Len(<<s>>) = Len(<<t>>) /\ Len(<<s, w>>) = Len(<<t, v>>)
        /\ \A i \in 1..Len(<<t>>) : <<s>>[i] = AsInSessions(<<t>>[i])
        /\ \A i \in 1..Len(<<t, v>>) : <<s, w>>[i] = AsInSessions(<<t, v>>[i])
    BY DEF s, w
  <2> QED
    BY <1>1, <1>2, <1>4, <2>1, Zenon
<1>6. Append(q, t) = q \o <<t>> /\ Append(AsSeen(q), s) = AsSeen(q) \o <<s>>
  BY <1>1, <1>3, AppendIsConcat DEF s
<1> QED
  BY <1>3, <1>5, <1>6 DEF s, w

\* The IO thread takes a task from the front of both.
LEMMA SeenTaken ==
    ASSUME NEW q \in Seq(Task), q # <<>>
    PROVE  /\ AsSeen(q) # <<>>
           /\ Head(AsSeen(q)) = AsInSessions(Head(q))
           /\ Tail(AsSeen(q)) = AsSeen(Tail(q))
<1>1. Len(q) \in Nat \ {0} /\ Head(q) = q[1]
  BY LenProperties, EmptySeq, HeadTailProperties
<1>2. /\ AsSeen(q) \in Seq(SeenTask) /\ Len(AsSeen(q)) = Len(q)
      /\ \A i \in 1..Len(q) : AsSeen(q)[i] = AsInSessions(q[i])
  BY SeenQueue
<1>3. AsSeen(q) # <<>>
  BY <1>1, <1>2, EmptySeq
<1>4. /\ Tail(q) \in Seq(Task) /\ Len(Tail(q)) = Len(q) - 1
      /\ \A i \in 1..Len(Tail(q)) : Tail(q)[i] = q[i + 1]
  BY HeadTailProperties
<1>5. /\ Tail(AsSeen(q)) \in Seq(SeenTask)
      /\ Len(Tail(AsSeen(q))) = Len(AsSeen(q)) - 1
      /\ \A i \in 1..Len(Tail(AsSeen(q))) : Tail(AsSeen(q))[i] = AsSeen(q)[i + 1]
      /\ Head(AsSeen(q)) = AsSeen(q)[1]
  BY <1>2, <1>3, HeadTailProperties
<1>6. /\ AsSeen(Tail(q)) \in Seq(SeenTask)
      /\ Len(AsSeen(Tail(q))) = Len(q) - 1
      /\ \A i \in 1..(Len(q) - 1) : AsSeen(Tail(q))[i] = AsInSessions(Tail(q)[i])
  BY <1>4, SeenQueue
<1>7. \A i \in 1..(Len(q) - 1) : Tail(AsSeen(q))[i] = AsSeen(Tail(q))[i]
  BY <1>1, <1>2, <1>4, <1>5, <1>6
<1>8. Tail(AsSeen(q)) = AsSeen(Tail(q))
  BY <1>2, <1>5, <1>6, <1>7, SeqEqual
<1> QED
  BY <1>1, <1>2, <1>3, <1>5, <1>8

----------------------------------------------------------------------------
(* The steps of the IO thread and of the pool. *)

\* Those operators of the Server that do not look at the queue.
LEMMA SameServer ==
    /\ SP!Running <=> Running
    /\ SP!RoomLeft <=> RoomLeft
    /\ SP!RoomIds = RoomIds
    /\ SP!NoSession = NoSession
    /\ SP!NoRow = NoRow
    /\ \A a : SP!UserAt(a) = UserAt(a) /\ SP!Looked(a) = Looked(a)
    /\ \A u : /\ SP!Online(u) <=> Online(u)
              /\ SP!Saves(u) <=> Saves(u)
              /\ SP!MappingCleared(u) = MappingCleared(u)
    /\ \A f, x : SP!Without(f, x) = Without(f, x)
    /\ \A f, x, y : SP!With(f, x, y) = With(f, x, y)
    /\ \A c, u, score : SP!NewSession(c, u, score) = NewSession(c, u, score)
    /\ \A failure : SP!Fail(failure) <=> Fail(failure)
    /\ \A users : SP!Send(users) <=> Send(users)
    /\ \A task : SP!Ask(task) <=> Ask(task)
    /\ \A u : SP!Leaves(u) <=> Leaves(u)
    /\ \A i : SP!Working(i) <=> Working(i)
    /\ \A s, i : SP!RemoveAt(s, i) = RemoveAt(s, i)
BY DEF SP!Running, Running, SP!RoomLeft, RoomLeft, SP!RoomIds, RoomIds,
       SP!NoSession, NoSession, SP!NoRow, NoRow, SP!UserAt, UserAt, SP!Looked,
       Looked, SP!Online, Online, SP!Saves, Saves, SP!MappingCleared, MappingCleared,
       SP!Without, Without, SP!With, With, SP!Restrict, Restrict, SP!NewSession,
       NewSession, SP!Fail, Fail, SP!Send, Send, SP!CanSend, CanSend, SP!Receivers,
       Receivers, SP!Ask, Ask, SP!Leaves, Leaves, SP!Working, Working, SP!RemoveAt,
       RemoveAt

\* What the Manager's thread alone changes.
ManagerWaits == UNCHANGED <<playersInfo, earned>>

\* Sessions sees every message, connection and disconnection.
LEMMA MessagesSeen ==
    ASSUME serverTasks \in Seq(Task), NEW c \in Conns, Messages(c), ManagerWaits
    PROVE  SP!Next
<1>1. MessageFrom(c) => SP!MessageFrom(c)
  <2>1. Len(AsSeen(serverTasks)) = Len(serverTasks)
    BY SeenQueue
  <2> QED
    BY <2>1, SameServer DEF MessageFrom, SP!MessageFrom, AsSeen
<1>2. ASSUME Connect(c) PROVE SP!Connect(c)
  BY <1>2, SameServer DEF Connect, SP!Connect
<1>3. ASSUME HandleDisconnection(c) PROVE SP!HandleDisconnection(c)
  BY <1>1, <1>3, SameServer DEF HandleDisconnection, SP!HandleDisconnection
<1>4. ASSUME NEW u \in Users, OnLogin(c, u) PROVE SP!OnLogin(c, u)
  BY <1>1, <1>4 DEF OnLogin, SP!OnLogin
<1>5. ASSUME NEW cap \in Caps, OnCreateRoom(c, cap) PROVE SP!OnCreateRoom(c, cap)
  BY <1>1, <1>5, SameServer DEF OnCreateRoom, SP!OnCreateRoom
<1>6. ASSUME NEW r \in RoomIds, OnJoinRoom(c, r) PROVE SP!OnJoinRoom(c, r)
  BY <1>1, <1>6, SameServer
     DEF OnJoinRoom, SP!OnJoinRoom, serverVars, SP!serverVars
<1>7. ASSUME OnQuitRoom(c) PROVE SP!OnQuitRoom(c)
  BY <1>1, <1>7, SameServer DEF OnQuitRoom, SP!OnQuitRoom
<1>8. ASSUME OnControlMessage(c) PROVE SP!OnControlMessage(c)
  BY <1>1, <1>8, SameServer
     DEF OnControlMessage, SP!OnControlMessage, serverVars, SP!serverVars
<1>9. SP!Messages(c)
  BY <1>2, <1>3, <1>4, <1>5, <1>6, <1>7, <1>8, SameServer DEF Messages, SP!Messages
<1> QED
  BY <1>9 DEF SP!Next, ManagerWaits

\* Sessions sees every access to the database and its callback.
LEMMA PoolThreadSeen ==
    ASSUME serverTasks \in Seq(Task), jobs \in Seq(Job),
           NEW i \in 1..Workers, PoolThread(i), ManagerWaits
    PROVE  SP!Next
<1>1. ASSUME FindUser(i) PROVE SP!FindUser(i)
  BY <1>1, SameServer DEF FindUser, SP!FindUser
<1>2. ASSUME CreateUser(i) PROVE SP!CreateUser(i)
  BY <1>2, SameServer DEF CreateUser, SP!CreateUser
<1>3. ASSUME SaveUserInfoToDB(i) PROVE SP!SaveUserInfoToDB(i)
  BY <1>3, SameServer DEF SaveUserInfoToDB, SP!SaveUserInfoToDB
<1>4. ASSUME Callback(i) PROVE SP!Callback(i)
  <2> DEFINE task == IF jobs[i].op = "Found"
                     THEN [type |-> "LoggedIn", conn |-> jobs[i].conn,
                           user |-> jobs[i].user, score |-> jobs[i].score]
                     ELSE [type |-> "Saved", user |-> jobs[i].user]
  <2>1. serverTasks' = Append(serverTasks, task)
    BY <1>4 DEF Callback
  <2>2. task \in Task
    <3>1. jobs[i] \in Job
      BY <1>4, ElementOfSeq DEF Callback, Working
    <3>2. /\ jobs[i].op = "Found" => /\ jobs[i].conn \in Conns
                                     /\ jobs[i].score \in Nat
          /\ jobs[i].user \in Users
      BY <3>1 DEF Job
    <3>3. task \in ServerTask
      BY <3>2 DEF ServerTask
    <3> QED
      BY <3>3 DEF Task
  <2>3. AsInSessions(task) = task
    BY DEF AsInSessions, Notices
  <2> HIDE DEF task
  <2>4. AsSeen(serverTasks') = Append(AsSeen(serverTasks), task)
    BY <2>1, <2>2, <2>3, SeenPosted
  <2> QED
    BY <1>4, <2>4, SameServer DEF Callback, SP!Callback, AsSeen, task
<1>5. SP!PoolThread(i)
  BY <1>1, <1>2, <1>3, <1>4 DEF PoolThread, SP!PoolThread
<1> QED
  BY <1>5 DEF SP!Next, ManagerWaits

\* A task taken is taken for Sessions too, as what it is seen to be.
LEMMA TaskTaken ==
    ASSUME serverTasks \in Seq(Task), NEW types, NEW seen, TakeTask(types),
           AsInSessions(Head(serverTasks)).type \in seen
    PROVE  /\ SP!TakeTask(seen)
           /\ Head(AsSeen(serverTasks)) = AsInSessions(Head(serverTasks))
<1>1. serverTasks # <<>> /\ serverTasks' = Tail(serverTasks)
  BY DEF TakeTask
<1>2. /\ AsSeen(serverTasks) # <<>>
      /\ Head(AsSeen(serverTasks)) = AsInSessions(Head(serverTasks))
      /\ AsSeen(serverTasks') = Tail(AsSeen(serverTasks))
  BY <1>1, SeenTaken
<1> QED
  BY <1>2, SameServer DEF TakeTask, SP!TakeTask, AsSeen

\* Sessions sees every task of the IO thread.
LEMMA IOTaskSeen ==
    ASSUME serverTasks \in Seq(Task), DOMAIN onlineUsers \subseteq Users,
           IOTask, ManagerWaits
    PROVE  SP!Next
<1> DEFINE head == Head(serverTasks)
<1>0. AsSeen(serverTasks) =
         [i \in DOMAIN serverTasks |-> AsInSessions(serverTasks[i])]
  BY DEF AsSeen
<1>00. UNCHANGED <<{}, [c \in Conns |-> {}]>>
  OBVIOUS
<1>1. ASSUME RoomsInfoBroadcast PROVE SP!RoomsInfoBroadcast
  <2>1. TakeTask({"RoomsInfo"}) /\ head.type = "RoomsInfo"
    BY <1>1 DEF RoomsInfoBroadcast, TakeTask
  <2>2. /\ AsInSessions(head) = [type |-> "RoomsInfo", infos |-> {}]
        /\ AsInSessions(head).type \in {"RoomsInfo"}
    BY <2>1 DEF AsInSessions, Notices
  <2>3. /\ SP!TakeTask({"RoomsInfo"})
        /\ Head(AsSeen(serverTasks)) = [type |-> "RoomsInfo", infos |-> {}]
    BY <2>1, <2>2, TaskTaken, SMTT(30)
  <2>4. SP!Send(DOMAIN onlineUsers)
    BY <1>1, SameServer DEF RoomsInfoBroadcast
  <2>5. Head([i \in DOMAIN serverTasks |-> AsInSessions(serverTasks[i])]).infos = {}
    BY <1>0, <2>3
  <2> QED
    BY <1>00, <2>3, <2>4, <2>5 DEF SP!RoomsInfoBroadcast, SP!SendRoomsInfo
<1>2. ASSUME JoinRoomRespond PROVE SP!JoinRoomRespond
  <2>1. TakeTask({"JoinResp"}) /\ head.type = "JoinResp"
    BY <1>2 DEF JoinRoomRespond, TakeTask
  <2>2. /\ AsInSessions(head) = [type |-> "JoinResp", user |-> head.user]
        /\ AsInSessions(head).type \in {"JoinResp"}
    BY <2>1 DEF AsInSessions, Notices
  <2>3. /\ SP!TakeTask({"JoinResp"})
        /\ Head(AsSeen(serverTasks)) = AsInSessions(head)
    BY <2>1, <2>2, TaskTaken, SMTT(30)
  <2>4. SP!Send({head.user})
    BY <1>2, SameServer DEF JoinRoomRespond
  <2>5. Head([i \in DOMAIN serverTasks |-> AsInSessions(serverTasks[i])]).user =
            head.user
    BY <1>0, <2>2, <2>3
  <2> QED
    BY <1>00, <2>3, <2>4, <2>5 DEF SP!JoinRoomRespond
<1>3. ASSUME Notify PROVE SP!Notify
  <2>1. TakeTask(Notices) /\ head.type \in Notices /\ Send(head.users)
    BY <1>3 DEF Notify, TakeTask
  <2>2. /\ AsInSessions(head) = [type |-> "GameOn", users |-> head.users \cap Users]
        /\ AsInSessions(head).type \in SP!Notices
    BY <2>1 DEF AsInSessions, Notices, SP!Notices
  <2>3. /\ SP!TakeTask(SP!Notices)
        /\ Head(AsSeen(serverTasks)) = AsInSessions(head)
    BY <2>1, <2>2, TaskTaken, SMTT(30)
  <2>4. Receivers(head.users \cap Users) = Receivers(head.users)
    BY DEF Receivers
  <2>5. SP!Send(head.users \cap Users)
    BY <2>1, <2>4, SameServer DEF Send, CanSend
  <2>6. Head([i \in DOMAIN serverTasks |-> AsInSessions(serverTasks[i])]).users =
            head.users \cap Users
    BY <1>0, <2>2, <2>3
  <2> QED
    BY <1>00, <2>3, <2>5, <2>6 DEF SP!Notify
<1>4. ASSUME ObjectsDataBroadcast PROVE SP!Notify
  <2>1. TakeTask({"Objects"}) /\ head.type = "Objects"
    BY <1>4 DEF ObjectsDataBroadcast, TakeTask
  <2>2. /\ AsInSessions(head) = [type |-> "GameOn", users |-> {}]
        /\ AsInSessions(head).type \in SP!Notices
    BY <2>1 DEF AsInSessions, Notices, SP!Notices
  <2>3. /\ SP!TakeTask(SP!Notices)
        /\ Head(AsSeen(serverTasks)) = AsInSessions(head)
    BY <2>1, <2>2, TaskTaken, SMTT(30)
  <2>4. SP!Send({})
    BY <1>4 DEF ObjectsDataBroadcast, SP!Send, SP!CanSend, SP!Receivers
  <2>5. Head([i \in DOMAIN serverTasks |-> AsInSessions(serverTasks[i])]).users = {}
    BY <1>0, <2>2, <2>3
  <2> QED
    BY <1>00, <2>3, <2>4, <2>5 DEF SP!Notify
<1>5. ASSUME NEW type \in {"Save", "LoggedIn", "Saved"}, TakeTask({type})
      PROVE  /\ SP!TakeTask({type})
             /\ Head(AsSeen(serverTasks)) = head
  <2>1. head.type = type
    BY <1>5 DEF TakeTask
  <2>2. AsInSessions(head) = head
    BY <2>1 DEF AsInSessions, Notices
  <2> QED
    BY <1>5, <2>1, <2>2, TaskTaken, SMTT(30)
<1>6. ASSUME SaveOnlineUserInfo PROVE SP!SaveOnlineUserInfo
  <2>1. SP!TakeTask({"Save"}) /\ Head(AsSeen(serverTasks)) = head
    BY <1>5, <1>6 DEF SaveOnlineUserInfo
  <2> QED
    BY <1>0, <1>6, <2>1, SameServer DEF SaveOnlineUserInfo, SP!SaveOnlineUserInfo
<1>7. ASSUME FindUserCallback PROVE SP!FindUserCallback
  <2>1. SP!TakeTask({"LoggedIn"}) /\ Head(AsSeen(serverTasks)) = head
    BY <1>5, <1>7 DEF FindUserCallback
  <2> QED
    BY <1>0, <1>7, <2>1, SameServer
       DEF FindUserCallback, SP!FindUserCallback, SP!SendRoomsInfo
<1>8. ASSUME SaveUserInfoCallback PROVE SP!SaveUserInfoCallback
  <2>1. SP!TakeTask({"Saved"}) /\ Head(AsSeen(serverTasks)) = head
    BY <1>5, <1>8 DEF SaveUserInfoCallback
  <2> QED
    BY <1>0, <1>8, <2>1, SameServer DEF SaveUserInfoCallback, SP!SaveUserInfoCallback
<1> HIDE DEF head
<1>9. SP!IOTask
  BY <1>1, <1>2, <1>3, <1>4, <1>6, <1>7, <1>8 DEF IOTask, SP!IOTask
<1> QED
  BY <1>9 DEF SP!Next, ManagerWaits

----------------------------------------------------------------------------
(* The steps of the Manager's thread. *)

\* A task of the Manager's loop is one of those that are asked for.
LEMMA RequestTaken ==
    ASSUME managerTasks \in Seq(ManagerTask), NEW type, ManagerTakes(type)
    PROVE  /\ SP!ManagerTakes(type)
           /\ Head(managerTasks) \in ManagerTask
           /\ type = "Create" => Head(managerTasks).cap \in Caps
           /\ type \in {"Join", "Quit"} => Head(managerTasks).user \in UserIds
           /\ type = "Join" => Head(managerTasks).room \in 0..MaxRoomNum
           /\ UNCHANGED roomNum
<1>1. Head(managerTasks) \in ManagerTask /\ Head(managerTasks).type = type
  BY HeadTailProperties DEF ManagerTakes
<1>2. SP!ManagerTakes(type) /\ UNCHANGED roomNum
  BY SameServer DEF ManagerTakes, SP!ManagerTakes, serverVars, SP!serverVars
<1>3. RoomIds \subseteq 0..MaxRoomNum
  BY ManagerConstants DEF RoomIds
<1> QED
  BY <1>1, <1>2, <1>3 DEF ManagerTask

\* What Sessions sees of the tasks that the Manager posts.
LEMMA PostedSeen ==
    ASSUME LP!TablesInv'
    PROVE  /\ M!RoomsInfoTask(rooms') \in Task
           /\ AsInSessions(M!RoomsInfoTask(rooms')) = SP!RoomsInfoTask
           /\ \A u \in UserIds, code \in M!JoinCodes :
                 /\ M!JoinRespTask(u, code) \in Task
                 /\ AsInSessions(M!JoinRespTask(u, code)) =
                       [type |-> "JoinResp", user |-> u]
           /\ \A u \in UserIds, score \in Nat :
                 /\ M!SaveTask(u, score) \in Task
                 /\ AsInSessions(M!SaveTask(u, score)) =
                       [type |-> "Save", user |-> u, score |-> score]
<1>1. LP!RoomsInfoTask(rooms') \in LP!ServerTask
  <2>1. /\ nextRoomId' \in 1..(MaxRoomNum + 1)
        /\ rooms' \in [1..(nextRoomId' - 1) -> LP!Room]
    BY DEF LP!TablesInv, LP!TablesTypeOK
  <2> QED
    BY <2>1, LP!RoomsInfoTaskType, ManagerConstants
<1>2. LP!RoomsInfoTask(rooms') = M!RoomsInfoTask(rooms')
  BY SameManager DEF LP!RoomsInfoTask, M!RoomsInfoTask
<1>3. AsInSessions(M!RoomsInfoTask(rooms')) = SP!RoomsInfoTask
  BY DEF AsInSessions, Notices, M!RoomsInfoTask, SP!RoomsInfoTask
<1>4. ASSUME NEW u \in UserIds, NEW code \in M!JoinCodes
      PROVE  /\ M!JoinRespTask(u, code) \in LP!ServerTask
             /\ AsInSessions(M!JoinRespTask(u, code)) =
                   [type |-> "JoinResp", user |-> u]
  BY DEF AsInSessions, Notices, M!JoinRespTask, LP!ServerTask, M!JoinCodes,
         LP!JoinCodes
<1>5. ASSUME NEW u \in UserIds, NEW score \in Nat
      PROVE  /\ M!SaveTask(u, score) \in LP!ServerTask
             /\ AsInSessions(M!SaveTask(u, score)) =
                   [type |-> "Save", user |-> u, score |-> score]
  BY DEF AsInSessions, Notices, M!SaveTask, LP!ServerTask
<1> QED
  BY <1>1, <1>2, <1>3, <1>4, <1>5 DEF Task

\* A user who has earned no more than there is cannot leave with more.
PointsWithin ==
    \A u \in UserIds :
        /\ earned[u] + Points[u] <= MaxPoints
        /\ u \in DOMAIN playersInfo /\ playersInfo[u].roomId \in ticking =>
              earned[u] + Points[u] < MaxPoints

\* The rooms that are there and those that are on their way have been counted.
AllCounted == roomNum = Cardinality(DOMAIN rooms) + Cardinality(Requested)

\* Sessions sees every task of the Manager's loop.
LEMMA ManagerRunsSeen ==
    ASSUME LP!CapsFitTankIds, LP!TablesInv,
           serverTasks \in Seq(Task), managerTasks \in Seq(ManagerTask),
           earned \in [UserIds -> Nat], roomNum \in Nat,
           PointsWithin, AllCounted, ManagerRuns
    PROVE  SP!Next
<1> DEFINE head == Head(managerTasks)
           info == M!RoomsInfoTask(rooms')
<1>0. /\ AsSeen(serverTasks) =
            [i \in DOMAIN serverTasks |-> AsInSessions(serverTasks[i])]
      /\ AsSeen(serverTasks') =
            [i \in DOMAIN serverTasks' |-> AsInSessions(serverTasks'[i])]
  BY DEF AsSeen
<1>1. ASSUME ManageCreateRoom PROVE SP!ManagerRuns
  <2>1. /\ SP!ManagerTakes("Create") /\ head.cap \in Caps
        /\ M!ManageCreateRoom(head.cap) /\ UNCHANGED earned
    BY <1>1, RequestTaken DEF ManageCreateRoom
  <2>2. /\ LP!TablesInv' /\ Idling /\ UNCHANGED playersInfo
        /\ serverTasks' = serverTasks \o <<info>>
    BY <2>1, RoomCreated
  <2>3. AsSeen(serverTasks') = AsSeen(serverTasks) \o <<SP!RoomsInfoTask>>
    <3>1. info \in Task /\ AsInSessions(info) = SP!RoomsInfoTask
      BY <2>2, PostedSeen
    <3> HIDE DEF info
    <3> QED
      BY <2>2, <3>1, SeenPosted
  <2>4. SP!PostAll(<<SP!RoomsInfoTask>>)
    BY <1>0, <2>3 DEF SP!PostAll
  <2> QED
    BY <2>1, <2>2, <2>4 DEF SP!ManagerRuns, SP!ManageCreateRoom, Idling
<1>2. ASSUME ManageJoinRoom PROVE SP!ManagerRuns
  <2> DEFINE u == head.user
  <2>1. /\ SP!ManagerTakes("Join") /\ u \in UserIds /\ head.room \in 0..MaxRoomNum
        /\ M!ManageJoinRoom(u, head.room) /\ UNCHANGED earned /\ UNCHANGED roomNum
    BY <1>2, RequestTaken DEF ManageJoinRoom
  <2>2. PICK code \in M!JoinCodes :
           \/ /\ UNCHANGED <<rooms, playersInfo>>
              /\ serverTasks' = serverTasks \o <<M!JoinRespTask(u, code)>>
           \/ /\ u \notin DOMAIN playersInfo
              /\ DOMAIN rooms # {}
              /\ DOMAIN playersInfo' = DOMAIN playersInfo \cup {u}
              /\ serverTasks' = serverTasks \o <<M!JoinRespTask(u, code), info>>
    BY <2>1, RoomJoined
  <2>3. LP!TablesInv' /\ Idling
    BY <2>1, RoomJoined
  <2> DEFINE resp == M!JoinRespTask(u, code)
             seen == [type |-> "JoinResp", user |-> u]
  <2>4. /\ info \in Task /\ AsInSessions(info) = SP!RoomsInfoTask
        /\ resp \in Task /\ AsInSessions(resp) = seen
    BY <2>1, <2>3, PostedSeen
  <2> HIDE DEF info, resp, seen
  <2>5. CASE UNCHANGED playersInfo /\ serverTasks' = serverTasks \o <<resp>>
    <3>1. AsSeen(serverTasks') = AsSeen(serverTasks) \o <<seen>>
      BY <2>4, <2>5, SeenPosted
    <3>2. SP!RefuseJoin(u)
      BY <1>0, <2>5, <3>1 DEF SP!RefuseJoin, SP!PostAll, seen
    <3> QED
      BY <2>1, <2>3, <3>2 DEF SP!ManagerRuns, SP!ManageJoinRoom, Idling
  <2>6. CASE /\ u \notin DOMAIN playersInfo
             /\ DOMAIN rooms # {}
             /\ DOMAIN playersInfo' = DOMAIN playersInfo \cup {u}
             /\ serverTasks' = serverTasks \o <<resp, info>>
    <3>1. AsSeen(serverTasks') = AsSeen(serverTasks) \o <<seen, SP!RoomsInfoTask>>
      BY <2>4, <2>6, SeenPosted
    <3>2. roomNum > 0
      <4>1. Cardinality(DOMAIN rooms) \in Nat /\ Cardinality(DOMAIN rooms) # 0
        BY <2>6, RoomsNumbered, FS_EmptySet, FS_CardinalityType
      <4>2. Cardinality(Requested) \in Nat
        <5>1. DOMAIN managerTasks = 1..Len(managerTasks) /\ Len(managerTasks) \in Nat
          BY LenProperties
        <5>2. IsFiniteSet(1..Len(managerTasks))
          BY <5>1, FS_Interval
        <5>3. Requested \subseteq 1..Len(managerTasks)
          BY <5>1 DEF Requested
        <5> QED
          BY <5>2, <5>3, FS_Subset, FS_CardinalityType
      <4> QED
        BY <4>1, <4>2 DEF AllCounted
    <3>3. SP!EnterRoom(u)
      BY <1>0, <2>6, <3>1, <3>2 DEF SP!EnterRoom, SP!PostAll, seen
    <3> QED
      BY <2>1, <2>3, <3>3 DEF SP!ManagerRuns, SP!ManageJoinRoom, Idling
  <2> QED
    BY <2>2, <2>5, <2>6 DEF resp
<1>3. ASSUME ManageQuitRoom PROVE SP!ManagerRuns
  <2> DEFINE u == head.user
  <2>1. /\ SP!ManagerTakes("Quit") /\ u \in UserIds /\ M!ManageQuitRoom(u)
        /\ earned' = [earned EXCEPT ![u] = @ + M!PointsOf(u)]
    BY <1>3, RequestTaken DEF ManageQuitRoom
  <2>2. /\ LP!TablesInv' /\ Idling
        /\ Points[u] = M!PointsOf(u) /\ Points[u] \in Nat
        /\ Points[u] \in 0..(MaxPoints - earned[u])
    <3>1. LP!TablesInv' /\ Idling
      BY <2>1, RoomQuit
    <3>2. Points[u] = M!PointsOf(u)
      BY <2>1 DEF Points
    <3>3. /\ Points[u] \in Nat /\ earned[u] \in Nat
          /\ earned[u] + Points[u] <= MaxPoints
      BY <2>1, PointsType DEF PointsWithin
    <3> HIDE DEF u
    <3>4. Points[u] \in 0..(MaxPoints - earned[u])
      BY <3>3, MaxPointsAssumption
    <3> QED
      BY <3>1, <3>2, <3>3, <3>4
  <2>3. CASE u \notin DOMAIN playersInfo
    <3>1. UNCHANGED <<playersInfo, serverTasks>> /\ Points[u] = 0
      BY <2>1, <2>3, RoomQuit
    <3>2. UNCHANGED earned
      BY <2>1, <2>2, <3>1
    <3> QED
      BY <2>1, <2>2, <2>3, <3>1, <3>2 DEF SP!ManagerRuns, SP!ManageQuitRoom, Idling
  <2>4. CASE u \in DOMAIN playersInfo
    <3> DEFINE points == Points[u]
               save == M!SaveTask(u, points)
    <3>1. /\ DOMAIN playersInfo' = DOMAIN playersInfo \ {u}
          /\ serverTasks' = serverTasks \o <<save, info>>
      BY <2>1, <2>4, RoomQuit
    <3>2. /\ info \in Task /\ AsInSessions(info) = SP!RoomsInfoTask
          /\ save \in Task
          /\ AsInSessions(save) = [type |-> "Save", user |-> u, score |-> points]
      BY <2>1, <2>2, PostedSeen
    <3>a. points \in 0..(MaxPoints - earned[u])
          /\ earned' = [earned EXCEPT ![u] = @ + points]
      BY <2>1, <2>2
    <3> HIDE DEF info, save, points
    <3>3. AsSeen(serverTasks') = AsSeen(serverTasks)
            \o <<[type |-> "Save", user |-> u, score |-> points], SP!RoomsInfoTask>>
      BY <3>1, <3>2, SeenPosted
    <3>4. SP!ManageQuitRoom
      BY <1>0, <2>1, <2>4, <3>1, <3>3, <3>a DEF SP!ManageQuitRoom, SP!PostAll
    <3> QED
      BY <2>2, <3>4 DEF SP!ManagerRuns, Idling
  <2> QED
    BY <2>3, <2>4
<1>4. ASSUME ManageControl PROVE SP!ManagerRuns
  <2>1. SP!ManagerTakes("Control")
    BY <1>4, RequestTaken DEF ManageControl
  <2> QED
    BY <1>4, <2>1 DEF ManageControl, managerVars, SP!ManagerRuns, SP!ManageControl
<1> QED
  BY <1>1, <1>2, <1>3, <1>4 DEF ManagerRuns, SP!Next

\* Sessions sees what the timers tell the members of a room.
LEMMA TimersSeen ==
    ASSUME LP!CapsFitTankIds, LP!TablesInv, serverTasks \in Seq(Task),
           ManageGames \/ ManageRooms \/ RestartRooms
    PROVE  SP!Next \/ UNCHANGED SP!sessionVars
<1>1. /\ \/ M!ManageGames
         \/ \E r \in ticking : M!ManageRoom(r)
         \/ \E r \in M!RoomIds : M!RestartRoom(r)
      /\ UNCHANGED <<serverVars, managerTasks, earned, playersInfo>>
  BY DEF ManageGames, ManageRooms, RestartRooms, Timer, RoomIds, M!RoomIds,
         M!ManageGames, M!ManageRoom, M!RestartRoom
<1>2. failed = {} /\ failed' = {} /\ PostsNotices
  BY <1>1, TimersRun
<1>3. /\ AsSeen(serverTasks) =
            [i \in DOMAIN serverTasks |-> AsInSessions(serverTasks[i])]
      /\ AsSeen(serverTasks') =
            [i \in DOMAIN serverTasks' |-> AsInSessions(serverTasks'[i])]
  BY DEF AsSeen
<1>4. CASE UNCHANGED serverTasks
  BY <1>1, <1>2, <1>4 DEF SP!sessionVars, serverVars, SP!serverVars
<1>5. ASSUME NEW t \in LP!GameNotice
      PROVE  /\ t \in Task
             /\ \E users \in SUBSET (DOMAIN playersInfo \cap Users) :
                   AsInSessions(t) = SP!Notice(users)
  <2>1. t.type \in LP!Notices /\ t.users \subseteq DOMAIN playersInfo
    BY DEF LP!GameNotice
  <2>2. t \in Task
    BY DEF LP!GameNotice, Task, LP!ServerTask, LP!TablesInv, LP!TablesTypeOK
  <2>3. CASE t.type = "Objects"
    <3>1. AsInSessions(t) = SP!Notice({})
      BY <2>3 DEF AsInSessions, Notices, SP!Notice
    <3> QED
      BY <2>2, <3>1
  <2>4. CASE t.type \in Notices
    <3>1. AsInSessions(t) = SP!Notice(t.users \cap Users)
      BY <2>4 DEF AsInSessions, Notices, SP!Notice
    <3> QED
      BY <2>1, <2>2, <3>1
  <2> QED
    BY <2>1, <2>3, <2>4 DEF LP!Notices, Notices
<1>6. Len(AsSeen(serverTasks)) \in Nat
  BY SeenQueue, LenProperties
<1>7. CASE \E t \in LP!GameNotice : serverTasks' = serverTasks \o <<t>>
  <2>1. PICK t \in LP!GameNotice : serverTasks' = serverTasks \o <<t>>
    BY <1>7
  <2>2. PICK some \in SUBSET (DOMAIN playersInfo \cap Users) :
           AsInSessions(t) = SP!Notice(some)
    BY <1>5
  <2>3. AsSeen(serverTasks') = AsSeen(serverTasks) \o <<SP!Notice(some)>>
    BY <1>5, <2>1, <2>2, SeenPosted
  <2>4. SP!PostAll(<<SP!Notice(some)>>)
    BY <1>3, <2>3 DEF SP!PostAll
  <2>5. SP!ManageGames
    BY <1>1, <1>2, <1>3, <1>6, <2>4, SameServer
       DEF SP!ManageGames, Running, serverVars, SP!serverVars
  <2> QED
    BY <2>5 DEF SP!Next
<1>8. CASE \E t, v \in LP!GameNotice : serverTasks' = serverTasks \o <<t, v>>
  <2>1. PICK t \in LP!GameNotice, v \in LP!GameNotice :
           serverTasks' = serverTasks \o <<t, v>>
    BY <1>8
  <2>2. PICK some \in SUBSET (DOMAIN playersInfo \cap Users) :
           AsInSessions(t) = SP!Notice(some)
    BY <1>5
  <2>3. PICK others \in SUBSET (DOMAIN playersInfo \cap Users) :
           AsInSessions(v) = SP!Notice(others)
    BY <1>5
  <2>4. AsSeen(serverTasks') =
           AsSeen(serverTasks) \o <<SP!Notice(some), SP!Notice(others)>>
    BY <1>5, <2>1, <2>2, <2>3, SeenPosted
  <2>5. SP!PostAll(<<SP!Notice(some), SP!Notice(others)>>)
    BY <1>3, <2>4 DEF SP!PostAll
  <2>6. SP!ManageGames
    BY <1>1, <1>2, <1>3, <1>6, <2>5, SameServer
       DEF SP!ManageGames, Running, serverVars, SP!serverVars
  <2> QED
    BY <2>6 DEF SP!Next
<1> QED
  BY <1>2, <1>4, <1>7, <1>8 DEF PostsNotices

----------------------------------------------------------------------------
(* The rooms asked for. *)

RequestedIn(queue) == {i \in DOMAIN queue : queue[i].type = "Create"}

\* There are finitely many in a queue.
LEMMA SomeRequested ==
    ASSUME NEW q \in Seq(ManagerTask)
    PROVE  /\ IsFiniteSet(RequestedIn(q))
           /\ Cardinality(RequestedIn(q)) \in Nat
<1>1. Len(q) \in Nat /\ DOMAIN q = 1..Len(q)
  BY LenProperties
<1>2. IsFiniteSet(1..Len(q)) /\ RequestedIn(q) \subseteq 1..Len(q)
  BY <1>1, FS_Interval DEF RequestedIn
<1> QED
  BY <1>2, FS_Subset, FS_CardinalityType

\* One more, or as many, are there when a task is added.
LEMMA RequestAsked ==
    ASSUME NEW q \in Seq(ManagerTask), NEW t \in ManagerTask
    PROVE  Cardinality(RequestedIn(Append(q, t))) =
              IF t.type = "Create" THEN Cardinality(RequestedIn(q)) + 1
                                   ELSE Cardinality(RequestedIn(q))
<1>1. Len(q) \in Nat /\ DOMAIN q = 1..Len(q)
  BY LenProperties
<1>2. IsFiniteSet(RequestedIn(q))
  BY SomeRequested
<1>3. /\ DOMAIN Append(q, t) = 1..(Len(q) + 1)
      /\ Append(q, t)[Len(q) + 1] = t
      /\ \A i \in 1..Len(q) : Append(q, t)[i] = q[i]
  BY <1>1, AppendProperties, LenProperties
<1>4. RequestedIn(Append(q, t)) =
         IF t.type = "Create" THEN RequestedIn(q) \cup {Len(q) + 1}
                              ELSE RequestedIn(q)
  BY <1>1, <1>3 DEF RequestedIn
<1>5. Len(q) + 1 \notin RequestedIn(q)
  BY <1>1 DEF RequestedIn
<1> QED
  BY <1>2, <1>4, <1>5, FS_AddElement

\* One less, or as many, are left when the first task of the queue is taken.
LEMMA RequestServed ==
    ASSUME NEW q \in Seq(ManagerTask), q # <<>>
    PROVE  Cardinality(RequestedIn(q)) =
              IF Head(q).type = "Create" THEN Cardinality(RequestedIn(Tail(q))) + 1
                                         ELSE Cardinality(RequestedIn(Tail(q)))
<1> DEFINE later == RequestedIn(q) \ {1}
           rest == RequestedIn(Tail(q))
           f == [i \in rest |-> i + 1]
<1>1. /\ Len(q) \in Nat \ {0} /\ DOMAIN q = 1..Len(q) /\ Head(q) = q[1]
      /\ DOMAIN Tail(q) = 1..(Len(q) - 1) /\ Tail(q) \in Seq(ManagerTask)
      /\ \A i \in 1..(Len(q) - 1) : Tail(q)[i] = q[i + 1]
  BY LenProperties, EmptySeq, HeadTailProperties
<1>2. /\ \A i \in rest : i \in 1..(Len(q) - 1) /\ q[i + 1].type = "Create"
      /\ \A j \in later : j - 1 \in rest /\ j \in Int
  BY <1>1 DEF RequestedIn
<1>3. \A i \in rest : i + 1 \in later /\ i \in Int
  BY <1>1, <1>2 DEF RequestedIn
<1>4. IsFiniteSet(RequestedIn(q)) /\ Cardinality(RequestedIn(q)) \in Nat
      /\ IsFiniteSet(rest) /\ Cardinality(rest) \in Nat
  BY <1>1, SomeRequested
<1> HIDE DEF later, rest
<1>5. f \in Bijection(rest, later)
  <2>1. f \in [rest -> later]
    BY <1>3
  <2>2. \A i, j \in rest : f[i] = f[j] => i = j
    BY <1>3
  <2>3. \A j \in later : \E i \in rest : f[i] = j
    <3>1. ASSUME NEW j \in later PROVE f[j - 1] = j
      BY <1>2, <3>1
    <3> QED
      BY <1>2, <3>1
  <2> HIDE DEF f
  <2> QED
    BY <2>1, <2>2, <2>3, Fun_IsBij
<1>6. Cardinality(later) = Cardinality(rest)
  BY <1>4, <1>5, FS_Bijection DEF ExistsBijection
<1>7. /\ 1 \in RequestedIn(q) <=> Head(q).type = "Create"
      /\ Cardinality(later) = IF 1 \in RequestedIn(q)
                              THEN Cardinality(RequestedIn(q)) - 1
                              ELSE Cardinality(RequestedIn(q))
  <2>1. 1 \in RequestedIn(q) <=> Head(q).type = "Create"
    BY <1>1 DEF RequestedIn
  <2> QED
    BY <1>4, <2>1, FS_RemoveElement DEF later
<1> QED
  BY <1>4, <1>6, <1>7 DEF rest
----------------------------------------------------------------------------
(***************************************************************************)
(* The invariant of the whole server: that of the Manager's tables, the    *)
(* types of what Sessions sees, those of the tasks for the IO thread, and  *)
(* the two bounds that the threads keep together.                          *)
(***************************************************************************)
WholeInv ==
    /\ LP!TablesInv
    /\ SP!TypeOK
    /\ serverTasks \in Seq(Task)
    /\ PointsWithin
    /\ AllCounted

\* What the types that Sessions gives say of the variables of this server.
LEMMA Typed ==
    ASSUME SP!TypeOK
    PROVE  /\ managerTasks \in Seq(ManagerTask)
           /\ jobs \in Seq(Job)
           /\ DOMAIN onlineUsers \subseteq Users
           /\ earned \in [UserIds -> Nat]
           /\ roomNum \in 0..MaxRoomNum
           /\ failed \subseteq Failures
<1>1. /\ SP!ManagerTask = ManagerTask /\ SP!Job = Job
      /\ SP!UserIds = UserIds /\ SP!Failures = Failures
  BY DEF SP!ManagerTask, ManagerTask, SP!Job, Job, SP!UserIds, UserIds,
         SP!RoomIds, RoomIds, SP!Failures, Failures
<1> QED
  BY <1>1 DEF SP!TypeOK

\* Who moves in a step.
LEMMA StepOf ==
    ASSUME [Next]_vars
    PROVE  \/ /\ \/ \E c \in Conns : Messages(c)
                 \/ \E i \in 1..Workers : PoolThread(i)
                 \/ IOTask
              /\ UNCHANGED managerVars
           \/ ManagerRuns
           \/ ManageGames \/ ManageRooms \/ RestartRooms
           \/ UNCHANGED <<serverVars, queues, managerVars>>
BY DEF Next, StartThreads, Serving, vars

\* Sessions sees every step, or nothing of it.
LEMMA StepSeen ==
    ASSUME LP!CapsFitTankIds, WholeInv, [Next]_vars
    PROVE  SP!Next \/ UNCHANGED SP!sessionVars
<1> USE DEF WholeInv
<1>1. /\ managerTasks \in Seq(ManagerTask) /\ jobs \in Seq(Job)
      /\ DOMAIN onlineUsers \subseteq Users /\ earned \in [UserIds -> Nat]
      /\ roomNum \in Nat
  BY Typed
<1>2. CASE /\ \/ \E c \in Conns : Messages(c)
              \/ \E i \in 1..Workers : PoolThread(i)
              \/ IOTask
           /\ UNCHANGED managerVars
  <2>1. ManagerWaits
    BY <1>2 DEF managerVars, ManagerWaits
  <2> QED
    BY <1>1, <1>2, <2>1, MessagesSeen, PoolThreadSeen, IOTaskSeen
<1>3. CASE ManagerRuns
  BY <1>1, <1>3, ManagerRunsSeen
<1>4. CASE ManageGames \/ ManageRooms \/ RestartRooms
  BY <1>1, <1>4, TimersSeen
<1>5. CASE UNCHANGED <<serverVars, queues, managerVars>>
  BY <1>5 DEF serverVars, queues, managerVars, SP!sessionVars, SP!serverVars
<1> QED
  BY <1>2, <1>3, <1>4, <1>5, StepOf

\* The Manager's tables do not depend on what the other threads do.
LEMMA StepKeepsTables ==
    ASSUME LP!CapsFitTankIds, WholeInv, [Next]_vars
    PROVE  LP!TablesInv'
<1> USE DEF WholeInv
<1>1. ASSUME UNCHANGED managerVars PROVE LP!TablesInv'
  <2>1. UNCHANGED LP!managerVars
    BY <1>1 DEF managerVars, LP!managerVars
  <2> QED
    BY <2>1, LP!OtherwiseInv, ManagerConstants
<1>2. ASSUME ManagerRuns PROVE LP!TablesInv'
  <2>0. managerTasks \in Seq(ManagerTask)
    BY Typed
  <2>1. CASE ManageCreateRoom
    BY <2>0, <2>1, RequestTaken, RoomCreated DEF ManageCreateRoom
  <2>2. CASE ManageJoinRoom
    BY <2>0, <2>2, RequestTaken, RoomJoined DEF ManageJoinRoom
  <2>3. CASE ManageQuitRoom
    BY <2>0, <2>3, RequestTaken, RoomQuit DEF ManageQuitRoom
  <2>4. CASE ManageControl
    BY <1>1, <2>4 DEF ManageControl
  <2> QED
    BY <1>2, <2>1, <2>2, <2>3, <2>4 DEF ManagerRuns
<1>3. ASSUME ManageGames \/ ManageRooms \/ RestartRooms PROVE LP!TablesInv'
  BY <1>3, TimersRun
     DEF ManageGames, ManageRooms, RestartRooms, Timer, RoomIds, M!RoomIds
<1>4. CASE UNCHANGED <<serverVars, queues, managerVars>>
  BY <1>1, <1>4
<1> QED
  BY <1>1, <1>2, <1>3, <1>4, StepOf

\* Every task for the IO thread is one of the Server's or one of the Manager's.
LEMMA StepKeepsQueue ==
    ASSUME LP!CapsFitTankIds, WholeInv, [Next]_vars
    PROVE  serverTasks' \in Seq(Task)
<1> USE DEF WholeInv
<1>1. \A t \in Task, v \in Task :
         /\ Append(serverTasks, t) \in Seq(Task)
         /\ serverTasks \o <<t>> \in Seq(Task)
         /\ serverTasks \o <<t, v>> \in Seq(Task)
  BY SP!AppendTasks
<1>2. managerTasks \in Seq(ManagerTask) /\ jobs \in Seq(Job)
  BY Typed
<1>3. ASSUME NEW c \in Conns, Messages(c) PROVE UNCHANGED serverTasks
  BY <1>3 DEF Messages, Connect, HandleDisconnection, OnLogin, OnCreateRoom,
              OnJoinRoom, OnQuitRoom, OnControlMessage
<1>4. ASSUME NEW i \in 1..Workers, PoolThread(i) PROVE serverTasks' \in Seq(Task)
  <2>1. CASE Callback(i)
    <3>1. jobs[i] \in Job /\ jobs[i].op \in {"Found", "Updated"}
      BY <1>2, <2>1, ElementOfSeq DEF Callback, Working
    <3> DEFINE task == IF jobs[i].op = "Found"
                       THEN [type |-> "LoggedIn", conn |-> jobs[i].conn,
                             user |-> jobs[i].user, score |-> jobs[i].score]
                       ELSE [type |-> "Saved", user |-> jobs[i].user]
    <3>2. task \in ServerTask
      BY <3>1 DEF Job, ServerTask
    <3>3. serverTasks' = Append(serverTasks, task)
      BY <2>1 DEF Callback
    <3> HIDE DEF task
    <3> QED
      BY <1>1, <3>2, <3>3 DEF Task
  <2> QED
    BY <1>4, <2>1 DEF PoolThread, FindUser, CreateUser, SaveUserInfoToDB
<1>5. ASSUME IOTask PROVE serverTasks' \in Seq(Task)
  <2>1. serverTasks # <<>> /\ serverTasks' = Tail(serverTasks)
    BY <1>5 DEF IOTask, RoomsInfoBroadcast, JoinRoomRespond, Notify,
                ObjectsDataBroadcast, SaveOnlineUserInfo, FindUserCallback,
                SaveUserInfoCallback, TakeTask
  <2> QED
    BY <2>1, HeadTailProperties
<1>6. ASSUME ManagerRuns PROVE serverTasks' \in Seq(Task)
  <2> DEFINE head == Head(managerTasks)
             info == M!RoomsInfoTask(rooms')
  <2>0. LP!TablesInv'
    BY StepKeepsTables, <1>6 DEF Next
  <2>1. info \in Task
    BY <2>0, PostedSeen
  <2> HIDE DEF info
  <2>2. CASE ManageCreateRoom
    <3>1. head.cap \in Caps /\ M!ManageCreateRoom(head.cap)
      BY <1>2, <2>2, RequestTaken DEF ManageCreateRoom
    <3>2. serverTasks' = serverTasks \o <<info>>
      BY <3>1, RoomCreated DEF info
    <3> QED
      BY <1>1, <2>1, <3>2
  <2>3. CASE ManageJoinRoom
    <3>1. /\ head.user \in UserIds /\ head.room \in 0..MaxRoomNum
          /\ M!ManageJoinRoom(head.user, head.room)
      BY <1>2, <2>3, RequestTaken DEF ManageJoinRoom
    <3>2. PICK code \in M!JoinCodes :
             \/ serverTasks' = serverTasks \o <<M!JoinRespTask(head.user, code)>>
             \/ serverTasks' = serverTasks \o <<M!JoinRespTask(head.user, code), info>>
      BY <3>1, RoomJoined DEF info
    <3>3. M!JoinRespTask(head.user, code) \in Task
      BY <2>0, <3>1, PostedSeen
    <3> QED
      BY <1>1, <2>1, <3>2, <3>3
  <2>4. CASE ManageQuitRoom
    <3>1. head.user \in UserIds /\ M!ManageQuitRoom(head.user)
      BY <1>2, <2>4, RequestTaken DEF ManageQuitRoom
    <3> DEFINE save == M!SaveTask(head.user, Points[head.user])
    <3>2. \/ UNCHANGED serverTasks
          \/ serverTasks' = serverTasks \o <<save, info>>
      BY <3>1, RoomQuit DEF info
    <3>3. Points[head.user] \in Nat
      BY <3>1, PointsType
    <3>4. save \in Task
      BY <2>0, <3>1, <3>3, PostedSeen
    <3> HIDE DEF save
    <3> QED
      BY <1>1, <2>1, <3>2, <3>4
  <2>5. CASE ManageControl
    BY <2>5 DEF ManageControl
  <2> QED
    BY <1>6, <2>2, <2>3, <2>4, <2>5 DEF ManagerRuns
<1>7. ASSUME ManageGames \/ ManageRooms \/ RestartRooms
      PROVE  serverTasks' \in Seq(Task)
  <2>1. PostsNotices
    BY <1>7, TimersRun
       DEF ManageGames, ManageRooms, RestartRooms, Timer, RoomIds, M!RoomIds
  <2>2. LP!GameNotice \subseteq Task
    <3>1. DOMAIN playersInfo \subseteq UserIds
      BY DEF LP!TablesInv, LP!TablesTypeOK
    <3> QED
      BY <3>1 DEF LP!GameNotice, LP!ServerTask, Task
  <2> QED
    BY <1>1, <2>1, <2>2 DEF PostsNotices
<1> QED
  BY <1>3, <1>4, <1>5, <1>6, <1>7, StepOf DEF queues

\* A step that changes nobody's points, and visits no more rooms, keeps the bound.
LEMMA PointsWithinKept ==
    ASSUME PointsWithin, UNCHANGED <<earned, Points, playersInfo>>,
           ticking' \subseteq ticking
    PROVE  PointsWithin'
BY DEF PointsWithin

\* No user has more points, earned or about to be, than there are.
LEMMA StepKeepsPoints ==
    ASSUME LP!CapsFitTankIds, WholeInv, [Next]_vars
    PROVE  PointsWithin'
<1> USE DEF WholeInv
<1>0. /\ managerTasks \in Seq(ManagerTask) /\ earned \in [UserIds -> Nat]
      /\ Points \in [UserIds -> Nat] /\ MaxPoints \in Nat
  BY Typed, PointsType, MaxPointsAssumption
<1>1. ASSUME UNCHANGED managerVars PROVE PointsWithin'
  <2>1. UNCHANGED Points
    BY <1>1 DEF managerVars, Points, M!PointsOf
  <2> QED
    BY <1>1, <2>1, PointsWithinKept DEF managerVars
<1>2. ASSUME ManagerRuns PROVE PointsWithin'
  <2> DEFINE head == Head(managerTasks)
  <2>1. CASE ManageCreateRoom
    <3>1. head.cap \in Caps /\ M!ManageCreateRoom(head.cap) /\ UNCHANGED earned
      BY <1>0, <2>1, RequestTaken DEF ManageCreateRoom
    <3>2. UNCHANGED <<playersInfo, Points>> /\ Idling
      BY <3>1, RoomCreated
    <3> QED
      BY <3>1, <3>2, PointsWithinKept DEF Idling
  <2>2. CASE ManageJoinRoom
    <3>1. /\ head.user \in UserIds /\ head.room \in 0..MaxRoomNum
          /\ M!ManageJoinRoom(head.user, head.room) /\ UNCHANGED earned
      BY <1>0, <2>2, RequestTaken DEF ManageJoinRoom
    <3>2. UNCHANGED Points /\ Idling
      BY <3>1, RoomJoined
    <3> QED
      BY <3>1, <3>2 DEF PointsWithin, Idling
  <2>3. CASE ManageQuitRoom
    <3> DEFINE u == head.user
    <3>1. /\ u \in UserIds /\ M!ManageQuitRoom(u)
          /\ earned' = [earned EXCEPT ![u] = @ + M!PointsOf(u)]
      BY <1>0, <2>3, RequestTaken DEF ManageQuitRoom
    <3>2. M!PointsOf(u) = Points[u]
      BY <3>1 DEF Points
    <3>3. /\ Idling
          /\ \/ UNCHANGED Points /\ Points[u] = 0
             \/ Points' = [Points EXCEPT ![u] = 0]
      BY <3>1, RoomQuit
    <3> HIDE DEF u
    <3>4. \A v \in UserIds : earned'[v] + Points'[v] = earned[v] + Points[v]
      BY <1>0, <3>1, <3>2, <3>3
    <3> QED
      BY <3>3, <3>4 DEF PointsWithin, Idling
  <2>4. CASE ManageControl
    BY <1>1, <2>4 DEF ManageControl
  <2> QED
    BY <1>2, <2>1, <2>2, <2>3, <2>4 DEF ManagerRuns
<1>3. ASSUME ManageGames PROVE PointsWithin'
  <2>1. UNCHANGED <<earned, Points, playersInfo>>
    BY <1>3, GamesVisited DEF ManageGames, Timer, SameRooms
  <2>2. \A u \in UserIds : earned[u] + Points[u] < MaxPoints
    BY <1>3 DEF ManageGames, MayEarn, Points
  <2> QED
    BY <1>0, <2>1, <2>2 DEF PointsWithin
<1>4. ASSUME ManageRooms PROVE PointsWithin'
  <2>1. PICK r \in ticking : M!ManageRoom(r) /\ UNCHANGED earned
    BY <1>4 DEF ManageRooms, Timer
  <2>2. /\ ticking' = ticking \ {r} /\ UNCHANGED playersInfo
        /\ \/ UNCHANGED Points
           \/ \E u \in UserIds :
                 /\ u \in DOMAIN playersInfo /\ playersInfo[u].roomId = r
                 /\ Points' = [Points EXCEPT ![u] = @ + 1]
    BY <2>1, RoomVisited DEF SameRooms
  <2>3. CASE UNCHANGED Points
    BY <2>1, <2>2, <2>3, PointsWithinKept
  <2>4. ASSUME NEW u \in UserIds,
               u \in DOMAIN playersInfo, playersInfo[u].roomId = r,
               Points' = [Points EXCEPT ![u] = @ + 1]
        PROVE  PointsWithin'
    <3>1. earned[u] + Points[u] < MaxPoints
      BY <2>1, <2>4 DEF PointsWithin
    <3>2. earned'[u] + Points'[u] <= MaxPoints
      BY <1>0, <2>1, <2>4, <3>1
    <3>3. \A v \in UserIds \ {u} : earned'[v] + Points'[v] = earned[v] + Points[v]
      BY <1>0, <2>1, <2>4
    <3>4. playersInfo'[u].roomId \notin ticking'
      BY <2>2, <2>4
    <3> QED
      BY <2>2, <3>2, <3>3, <3>4 DEF PointsWithin
  <2> QED
    BY <2>2, <2>3, <2>4
<1>5. ASSUME RestartRooms PROVE PointsWithin'
  <2>1. PICK r \in M!RoomIds : M!RestartRoom(r) /\ UNCHANGED earned
    BY <1>5 DEF RestartRooms, Timer, RoomIds, M!RoomIds
  <2> QED
    BY <2>1, RoomRestarted, PointsWithinKept DEF SameRooms
<1>6. CASE UNCHANGED <<serverVars, queues, managerVars>>
  BY <1>1, <1>6
<1> QED
  BY <1>1, <1>2, <1>3, <1>4, <1>5, <1>6, StepOf

\* Every request for a room is one of a number that the IO thread counts, and
\* becomes a room.
LEMMA StepKeepsCount ==
    ASSUME LP!CapsFitTankIds, WholeInv, [Next]_vars
    PROVE  AllCounted'
<1> USE DEF WholeInv
<1> DEFINE made == Cardinality(DOMAIN rooms)
<1>1. /\ managerTasks \in Seq(ManagerTask) /\ roomNum \in 0..MaxRoomNum
      /\ MaxRoomNum \in Nat
  BY Typed, ServerBoundsAssumption
<1>2. /\ Requested = RequestedIn(managerTasks)
      /\ Requested' = RequestedIn(managerTasks')
  BY DEF Requested, RequestedIn
<1>3. made \in Nat
  BY RoomsNumbered, FS_CardinalityType
<1>4. ASSUME UNCHANGED <<roomNum, rooms, managerTasks>> PROVE AllCounted'
  BY <1>4 DEF AllCounted, Requested
<1>5. ASSUME NEW t \in ManagerTask, Ask(t), UNCHANGED rooms,
             roomNum' = IF t.type = "Create" THEN roomNum + 1 ELSE roomNum
      PROVE  AllCounted'
  <2> DEFINE asked == Cardinality(RequestedIn(managerTasks))
             now == Cardinality(RequestedIn(managerTasks'))
  <2>1. /\ asked \in Nat
        /\ now = IF t.type = "Create" THEN asked + 1 ELSE asked
    BY <1>1, <1>5, SomeRequested, RequestAsked DEF Ask
  <2>2. roomNum = made + asked
    BY <1>2 DEF AllCounted
  <2>3. made' = made
    BY <1>5
  <2> HIDE DEF made, asked, now
  <2>4. roomNum' = made' + now
    BY <1>3, <1>5, <2>1, <2>2, <2>3
  <2> QED
    BY <1>2, <2>4 DEF AllCounted, made, now
<1>6. ASSUME NEW c \in Conns, Messages(c), UNCHANGED rooms PROVE AllCounted'
  <2>1. UserAt(Address[c]) \in UserIds
        /\ (Address[c] \in DOMAIN connIdToUserId =>
               connIdToUserId[Address[c]] \in UserIds)
    <3>1. connIdToUserId \in [DOMAIN connIdToUserId -> UserIds]
      BY DEF SP!TypeOK, SP!UserIds, UserIds
    <3> QED
      BY <3>1 DEF UserAt, UserIds
  <2>2. CASE Connect(c) \/ \E u \in Users : OnLogin(c, u)
    BY <1>4, <1>6, <2>2 DEF Connect, OnLogin
  <2>3. CASE HandleDisconnection(c)
    <3> DEFINE u == UserAt(Address[c])
    <3>1. /\ UNCHANGED roomNum
          /\ \/ UNCHANGED managerTasks
             \/ Ask([type |-> "Quit", user |-> u])
      BY <2>3 DEF HandleDisconnection, Leaves
    <3>2. [type |-> "Quit", user |-> u] \in ManagerTask
      BY <2>1 DEF ManagerTask
    <3> QED
      BY <1>4, <1>5, <1>6, <3>1, <3>2
  <2>4. ASSUME NEW cap \in Caps, OnCreateRoom(c, cap) PROVE AllCounted'
    <3>1. [type |-> "Create", cap |-> cap] \in ManagerTask
      BY DEF ManagerTask
    <3> QED
      BY <1>5, <1>6, <2>4, <3>1 DEF OnCreateRoom
  <2>5. ASSUME NEW r \in RoomIds, OnJoinRoom(c, r) PROVE AllCounted'
    <3>1. [type |-> "Join", user |-> connIdToUserId[Address[c]], room |-> r]
             \in ManagerTask
      BY <2>1, <2>5 DEF OnJoinRoom, ManagerTask
    <3> QED
      BY <1>5, <1>6, <2>5, <3>1 DEF OnJoinRoom, serverVars
  <2>6. CASE OnQuitRoom(c)
    <3>1. [type |-> "Quit", user |-> UserAt(Address[c])] \in ManagerTask
      BY <2>1 DEF ManagerTask
    <3> QED
      BY <1>5, <1>6, <2>6, <3>1 DEF OnQuitRoom
  <2>7. CASE OnControlMessage(c)
    <3>1. [type |-> "Control", user |-> connIdToUserId[Address[c]]] \in ManagerTask
      BY <2>1, <2>7 DEF OnControlMessage, ManagerTask
    <3> QED
      BY <1>5, <1>6, <2>7, <3>1 DEF OnControlMessage, serverVars
  <2> QED
    BY <1>6, <2>2, <2>3, <2>4, <2>5, <2>6, <2>7 DEF Messages
<1>7. ASSUME (\E i \in 1..Workers : PoolThread(i)) \/ IOTask, UNCHANGED rooms
      PROVE  AllCounted'
  <2>1. UNCHANGED <<roomNum, managerTasks>>
    BY <1>7 DEF PoolThread, FindUser, CreateUser, SaveUserInfoToDB, Callback, IOTask,
                RoomsInfoBroadcast, JoinRoomRespond, Notify, ObjectsDataBroadcast,
                SaveOnlineUserInfo, FindUserCallback, SaveUserInfoCallback, TakeTask
  <2> QED
    BY <1>4, <1>7, <2>1
<1>8. ASSUME ManagerRuns PROVE AllCounted'
  <2> DEFINE head == Head(managerTasks)
             before == Cardinality(RequestedIn(managerTasks))
             now == Cardinality(RequestedIn(managerTasks'))
  <2>1. /\ managerTasks # <<>> /\ managerTasks' = Tail(managerTasks)
        /\ UNCHANGED roomNum
    BY <1>8 DEF ManagerRuns, ManageCreateRoom, ManageJoinRoom, ManageQuitRoom,
                ManageControl, ManagerTakes, serverVars
  <2>2. /\ now \in Nat
        /\ before = IF head.type = "Create" THEN now + 1 ELSE now
    <3>1. managerTasks' \in Seq(ManagerTask)
      BY <1>1, <2>1, HeadTailProperties
    <3>2. now \in Nat
      BY <3>1, SomeRequested
    <3>3. before = IF head.type = "Create" THEN now + 1 ELSE now
      BY <1>1, <2>1, RequestServed
    <3> QED
      BY <3>2, <3>3
  <2>3. roomNum = made + before
    BY <1>2 DEF AllCounted
  <2>4. made' = IF head.type = "Create" THEN made + 1 ELSE made
    <3>1. CASE ManageCreateRoom
      <4>1. head.type = "Create" /\ head.cap \in Caps /\ M!ManageCreateRoom(head.cap)
        BY <1>1, <3>1, RequestTaken DEF ManageCreateRoom, ManagerTakes
      <4>2. /\ nextRoomId \notin DOMAIN rooms
            /\ DOMAIN rooms' = DOMAIN rooms \cup {nextRoomId}
        BY <4>1, RoomCreated
      <4>3. Cardinality(DOMAIN rooms \cup {nextRoomId}) = made + 1
        BY <4>2, RoomsNumbered, FS_AddElement
      <4> QED
        BY <4>1, <4>2, <4>3
    <3>2. CASE ManageJoinRoom
      <4>1. /\ head.type = "Join" /\ head.user \in UserIds
            /\ head.room \in 0..MaxRoomNum
            /\ M!ManageJoinRoom(head.user, head.room)
        BY <1>1, <3>2, RequestTaken DEF ManageJoinRoom, ManagerTakes
      <4> QED
        BY <4>1, RoomJoined
    <3>3. CASE ManageQuitRoom
      <4>1. head.type = "Quit" /\ head.user \in UserIds /\ M!ManageQuitRoom(head.user)
        BY <1>1, <3>3, RequestTaken DEF ManageQuitRoom, ManagerTakes
      <4> QED
        BY <4>1, RoomQuit
    <3>4. CASE ManageControl
      BY <3>4 DEF ManageControl, ManagerTakes, managerVars
    <3> QED
      BY <1>8, <3>1, <3>2, <3>3, <3>4 DEF ManagerRuns
  <2> HIDE DEF made, before, now
  <2>5. roomNum' = made' + now
    BY <1>3, <2>1, <2>2, <2>3, <2>4
  <2> QED
    BY <1>2, <2>5 DEF AllCounted, made, now
<1>9. ASSUME ManageGames \/ ManageRooms \/ RestartRooms PROVE AllCounted'
  <2>1. UNCHANGED <<roomNum, managerTasks>>
    BY <1>9 DEF ManageGames, ManageRooms, RestartRooms, Timer, serverVars
  <2>2. SameRooms
    BY <1>9, GamesVisited, RoomVisited, RoomRestarted
       DEF ManageGames, ManageRooms, RestartRooms, Timer, RoomIds, M!RoomIds
  <2> QED
    BY <2>1, <2>2 DEF AllCounted, SameRooms, Requested
<1>10. CASE UNCHANGED <<serverVars, queues, managerVars>>
  BY <1>4, <1>10 DEF serverVars, queues, managerVars
<1> QED
  BY <1>6, <1>7, <1>8, <1>9, <1>10, StepOf DEF managerVars

\* The threads start as Sessions has them.
LEMMA InitSeen == Init => SP!Init
<1>1. ASSUME Init
      PROVE  /\ [i \in DOMAIN serverTasks |-> AsInSessions(serverTasks[i])] = <<>>
             /\ DOMAIN playersInfo = {}
  BY <1>1 DEF Init, ServerInit, M!Init
<1> QED
  BY <1>1 DEF Init, ServerInit, SP!Init, SP!ServerInit, SP!NoSession, NoSession,
              SP!NoRow, NoRow, SP!UserIds, UserIds

\* WholeInv holds throughout.
LEMMA WholeInit == Init => WholeInv
<1> SUFFICES ASSUME Init PROVE WholeInv
  OBVIOUS
<1>1. LP!TablesInv
  <2>1. LP!Init
    BY SameManager DEF Init
  <2> QED
    BY <2>1, LP!InitInv, ManagerConstants
<1>2. SP!TypeOK
  BY InitSeen, SP!InitType, UsersAssumption, ConnsAssumption, WorkersAssumption,
     ServerBoundsAssumption, MaxPointsAssumption
<1>3. serverTasks \in Seq(Task)
  <2>1. <<>> \in Seq(Task)
    OBVIOUS
  <2> QED
    BY <2>1 DEF Init, ServerInit
<1>4. PointsWithin
  <2>1. DOMAIN playersInfo = {} /\ \A u \in UserIds : earned[u] = 0
    BY DEF Init, M!Init
  <2>2. \A u \in UserIds : Points[u] = 0
    BY <2>1 DEF Points, M!PointsOf
  <2> QED
    BY <2>1, <2>2, MaxPointsAssumption DEF PointsWithin
<1>5. AllCounted
  <2>1. DOMAIN rooms = {} /\ roomNum = 0 /\ managerTasks = <<>>
    BY DEF Init, ServerInit, M!Init
  <2>2. Requested = {}
    BY <2>1 DEF Requested
  <2> QED
    BY <2>1, <2>2, FS_EmptySet DEF AllCounted
<1> QED
  BY <1>1, <1>2, <1>3, <1>4, <1>5 DEF WholeInv

LEMMA WholeStep ==
    ASSUME LP!CapsFitTankIds, WholeInv, [Next]_vars
    PROVE  WholeInv'
<1>1. SP!TypeOK'
  <2>1. [SP!Next]_(SP!sessionVars)
    BY StepSeen
  <2> QED
    BY <2>1, SP!NextType, UsersAssumption, ConnsAssumption, WorkersAssumption,
       ServerBoundsAssumption, MaxPointsAssumption DEF WholeInv
<1> QED
  BY <1>1, StepKeepsTables, StepKeepsQueue, StepKeepsPoints, StepKeepsCount
     DEF WholeInv

LEMMA WholeInvariance ==
    ASSUME M!CapsFitTankIds
    PROVE  Spec => []WholeInv
<1>0. LP!CapsFitTankIds
  BY SameManager
<1>1. WholeInv /\ [Next]_vars => WholeInv'
  BY <1>0, WholeStep
<1> QED
  BY <1>1, WholeInit, PTL DEF Spec

----------------------------------------------------------------------------
(* What holds of the whole server. *)

\* The limit on rooms that the IO thread keeps holds for those the Manager has
\* made and those it is about to make (onCreateRoom, Manager::createRoom).
THEOREM RoomsAreCounted ==
    ASSUME M!CapsFitTankIds
    PROVE  Spec => []RoomsCounted
<1>1. WholeInv => RoomsCounted
  <2>1. SP!TypeOK => roomNum <= MaxRoomNum
    BY Typed, ServerBoundsAssumption
  <2> QED
    BY <2>1 DEF WholeInv, AllCounted, RoomsCounted
<1> QED
  BY <1>1, WholeInvariance, PTL

\* Under all the tasks that the IO thread posts, and the timers in between, the
\* tables of the Manager agree, as they do in module Manager by itself.
THEOREM TablesOfWhole ==
    ASSUME M!CapsFitTankIds
    PROVE  Spec => []M!TablesInv
<1>1. WholeInv => M!TablesInv
  BY SameManager DEF WholeInv
<1> QED
  BY <1>1, WholeInvariance, PTL

\* No assertion of the Manager's thread fails in the whole server.
THEOREM ManagerNeverAborts ==
    ASSUME M!CapsFitTankIds
    PROVE  Spec => [](failed \cap M!Assertions = {})
<1>1. WholeInv => failed \cap M!Assertions = {}
  BY Typed DEF WholeInv, Failures, M!Assertions
<1> QED
  BY <1>1, WholeInvariance, PTL

\* The threads of the server do no more than those of module Sessions, where the
\* Manager only knows who is in a room.
THEOREM SessionsImplemented ==
    ASSUME M!CapsFitTankIds
    PROVE  Spec => ImplementsSessions
<1>0. LP!CapsFitTankIds
  BY SameManager
<1>1. Init => Abstract!Init
  BY InitSeen, SameSessions
<1>2. WholeInv /\ [Next]_vars => [Abstract!Next]_(Abstract!sessionVars)
  <2>1. (Abstract!sessionVars = SP!sessionVars)'
    BY SameSessions, PTL
  <2> QED
    BY <1>0, <2>1, StepSeen, SameSessions
<1> QED
  BY <1>1, <1>2, WholeInvariance, PTL DEF Spec, ImplementsSessions, Abstract!Spec

\* What Sessions promises of users, their sessions, their points and their saves
\* holds with the Manager as it is, timers and queues included.
THEOREM SessionsOfWhole ==
    ASSUME M!CapsFitTankIds
    PROVE  Spec => /\ []Abstract!SessionsIndexed
                   /\ []Abstract!SavedAsserts
                   /\ []Abstract!NoInventedPoints
                   /\ []Abstract!LeavingUsersQuit
<1>1. Spec => Abstract!Spec
  BY SessionsImplemented DEF ImplementsSessions
<1>2. Abstract!Spec <=> SP!Spec
  <2>1. (Abstract!sessionVars = SP!sessionVars)'
    BY SameSessions, PTL
  <2>2. [Abstract!Next]_(Abstract!sessionVars) <=> [SP!Next]_(SP!sessionVars)
    BY <2>1, SameSessions
  <2>3. Abstract!Init <=> SP!Init
    BY SameSessions
  <2> QED
    BY <2>2, <2>3, PTL DEF Abstract!Spec, SP!Spec
<1>3. /\ SP!Spec => []SP!SessionsIndexed
      /\ SP!Spec => []SP!SavedAsserts
      /\ SP!Spec => []SP!NoInventedPoints
      /\ SP!Spec => []SP!LeavingUsersQuit
  BY SP!TablesInverse, SP!NoSaveAborts, SP!PointsAreEarned, SP!LeaversQuit,
     UsersAssumption, ConnsAssumption, WorkersAssumption, ServerBoundsAssumption,
     MaxPointsAssumption
<1>4. /\ SP!SessionsIndexed => Abstract!SessionsIndexed
      /\ SP!SavedAsserts => Abstract!SavedAsserts
      /\ SP!NoInventedPoints => Abstract!NoInventedPoints
      /\ SP!LeavingUsersQuit => Abstract!LeavingUsersQuit
  BY SameSessions
<1> QED
  BY <1>1, <1>2, <1>3, <1>4, PTL

----------------------------------------------------------------------------
(* The lobby that the whole server comes to. *)

\* The Lobby of the Manager is the one of LobbyProofs.
LEMMA SameLobby ==
    /\ M!Abstract!Init <=> LP!Abstract!Init
    /\ M!Abstract!Next <=> LP!Abstract!Next
    /\ M!Abstract!lobbyVars = LP!Abstract!lobbyVars
    /\ M!Abstract!lobbyVars' = LP!Abstract!lobbyVars'
<1> USE DEF M!Status, LP!Status, M!PointsOf, LP!PointsOf, M!ScoreOf, LP!ScoreOf,
    M!NoRow, LP!NoRow, M!RoomIds, LP!RoomIds, M!Abstract!lobbyVars,
    LP!Abstract!lobbyVars
<1>1. M!Abstract!Init <=> LP!Abstract!Init
  BY DEF M!Abstract!Init, LP!Abstract!Init
<1>2. /\ M!Abstract!lobbyVars = LP!Abstract!lobbyVars
      /\ M!Abstract!lobbyVars' = LP!Abstract!lobbyVars'
  OBVIOUS
<1>3. M!Abstract!Next <=> LP!Abstract!Next
  BY DEF M!Abstract!Next, LP!Abstract!Next, M!Abstract!Open, LP!Abstract!Open,
     M!Abstract!Enter, LP!Abstract!Enter, M!Abstract!Leave, LP!Abstract!Leave,
     M!Abstract!WinRound, LP!Abstract!WinRound, M!Abstract!StartGame,
     LP!Abstract!StartGame, M!Abstract!StopGame, LP!Abstract!StopGame,
     M!Abstract!NextRound, LP!Abstract!NextRound, M!Abstract!HasCap,
     LP!Abstract!HasCap, M!Abstract!Cardinality, LP!Abstract!Cardinality
<1> QED
  BY <1>1, <1>2, <1>3

\* Each step of the server is one of the Manager by itself, or leaves its tables
\* alone.
LEMMA StepOfManager ==
    ASSUME LP!CapsFitTankIds, WholeInv, [Next]_vars
    PROVE  LP!Next \/ UNCHANGED <<rooms, playersInfo, userIdsInRoom>>
<1>1. CASE UNCHANGED managerVars
  BY <1>1 DEF managerVars
<1>2. CASE ManagerRuns
  <2>0. managerTasks \in Seq(ManagerTask)
    BY Typed DEF WholeInv
  <2>1. CASE ManageCreateRoom
    <3>1. Head(managerTasks).cap \in Caps /\ LP!ManageCreateRoom(Head(managerTasks).cap)
      BY <2>0, <2>1, RequestTaken, SameManager DEF ManageCreateRoom
    <3> QED
      BY <3>1 DEF LP!Next
  <2>2. CASE ManageJoinRoom
    <3>1. /\ Head(managerTasks).user \in UserIds
          /\ Head(managerTasks).room \in 0..MaxRoomNum
          /\ LP!ManageJoinRoom(Head(managerTasks).user, Head(managerTasks).room)
      BY <2>0, <2>2, RequestTaken, SameManager DEF ManageJoinRoom
    <3> QED
      BY <3>1 DEF LP!Next
  <2>3. CASE ManageQuitRoom
    <3>1. /\ Head(managerTasks).user \in UserIds
          /\ LP!ManageQuitRoom(Head(managerTasks).user)
      BY <2>0, <2>3, RequestTaken, SameManager DEF ManageQuitRoom
    <3> QED
      BY <3>1 DEF LP!Next
  <2>4. CASE ManageControl
    BY <1>1, <2>4 DEF ManageControl
  <2> QED
    BY <1>2, <2>1, <2>2, <2>3, <2>4 DEF ManagerRuns
<1>3. CASE ManageGames
  BY <1>3, SameManager DEF ManageGames, Timer, LP!Next, LP!Tick
<1>4. CASE ManageRooms
  BY <1>4, SameManager DEF ManageRooms, Timer, LP!Next, LP!Tick
<1>5. CASE RestartRooms
  BY <1>5, SameManager DEF RestartRooms, Timer, LP!Next, RoomIds, LP!RoomIds
<1>6. CASE UNCHANGED <<serverVars, queues, managerVars>>
  BY <1>1, <1>6
<1> QED
  BY <1>1, <1>2, <1>3, <1>4, <1>5, <1>6, StepOf

\* Whatever the IO thread, the pool and the timers do in between, and however
\* far its queues are behind, the Manager promises the clients of the whole
\* server what it promises by itself: nobody is in two rooms or comes into one
\* that is full or where a game is on, and who leaves has the points won there.
THEOREM LobbyOfWhole ==
    ASSUME M!CapsFitTankIds
    PROVE  Spec => M!ImplementsLobby
<1>0. LP!CapsFitTankIds
  BY SameManager
<1>1. Init => M!Abstract!Init
  <2>1. Init => LP!Init
    BY SameManager DEF Init
  <2> QED
    BY <2>1, LP!InitIsLobby, ManagerConstants, SameLobby
<1>2. WholeInv /\ [Next]_vars => [M!Abstract!Next]_(M!Abstract!lobbyVars)
  <2> SUFFICES ASSUME WholeInv, [Next]_vars
               PROVE  [M!Abstract!Next]_(M!Abstract!lobbyVars)
    OBVIOUS
  <2>1. CASE LP!Next
    <3>1. [LP!Abstract!Next]_(LP!Abstract!lobbyVars)
      BY <1>0, <2>1, LP!NextIsLobby, ManagerConstants DEF WholeInv
    <3> QED
      BY <3>1, SameLobby
  <2>2. CASE UNCHANGED <<rooms, playersInfo, userIdsInRoom>>
    BY <2>2, LP!HiddenStep, ManagerConstants, SameLobby
  <2> QED
    BY <1>0, <2>1, <2>2, StepOfManager
<1> QED
  BY <1>1, <1>2, WholeInvariance, PTL DEF Spec, M!ImplementsLobby, M!Abstract!Spec

----------------------------------------------------------------------------
(* The start of the threads: the IO thread makes no request of the Manager  *)
(* before its loop is there.                                               *)

\* start() returns only when it has seen `started`, which nobody takes back, and
\* before it has returned no handler runs that could make a request.
StartInv ==
    /\ ioThread = "serving" => started
    /\ managerTasks # <<>> => ioThread = "serving"

\* A step of the IO thread or of the pool, once start() has returned.
LEMMA ServingInv ==
    ASSUME StartInv, ioThread = "serving", UNCHANGED startVars
    PROVE  StartInv'
BY DEF StartInv, startVars

\* A task of the Manager's loop is one that was requested.
LEMMA ManagerRunsInv ==
    ASSUME StartInv, ManagerRuns
    PROVE  StartInv'
<1>1. managerTasks # <<>>
  BY DEF ManagerRuns, ManageCreateRoom, ManageJoinRoom, ManageQuitRoom,
         ManageControl, ManagerTakes
<1>2. ioThread = "serving" /\ UNCHANGED startVars
  BY <1>1 DEF StartInv, ManagerRuns
<1> QED
  BY <1>2, ServingInv

\* Starting changes no queue; a timer changes neither the start nor requests.
LEMMA StartStep ==
    ASSUME StartInv,
           \/ StartThreads(Start) \/ StartThreads(AwaitStart)
           \/ StartThreads(WakeUp) \/ StartThreads(Manage)
    PROVE  StartInv'
<1>0. UNCHANGED managerTasks
  BY DEF StartThreads, queues
<1>1. CASE Start
  BY <1>0, <1>1 DEF Start, StartInv
<1>2. CASE AwaitStart
  BY <1>0, <1>2 DEF AwaitStart, StartSeen, StartInv
<1>3. CASE WakeUp
  BY <1>0, <1>3 DEF WakeUp, StartInv
<1>4. CASE Manage
  BY <1>0, <1>4 DEF Manage, StartInv
<1> QED
  BY <1>1, <1>2, <1>3, <1>4 DEF StartThreads

\* NoRequestBeforeLoop holds of every behaviour: whichever thread is quicker,
\* and however often a wait ends without a notification, Manager.cc 31 to 41 never
\* follow a managerLoop that was not set.
THEOREM NoEarlyRequest == Spec => []NoRequestBeforeLoop
<1>1. Init => StartInv
  BY DEF Init, ServerInit, StartInv
<1>2. StartInv /\ [Next]_vars => StartInv'
  <2> SUFFICES ASSUME StartInv, [Next]_vars
               PROVE  StartInv'
    OBVIOUS
  <2>1. CASE \/ StartThreads(Start) \/ StartThreads(AwaitStart)
             \/ StartThreads(WakeUp) \/ StartThreads(Manage)
    BY <2>1, StartStep
  <2>2. CASE \/ \E c \in Conns : Serving(Messages(c))
             \/ \E i \in 1..Workers : Serving(PoolThread(i))
             \/ Serving(IOTask)
    <3>1. ioThread = "serving" /\ UNCHANGED startVars
      BY <2>2 DEF Serving
    <3> QED
      BY <3>1, ServingInv
  <2>3. CASE ManagerRuns
    BY <2>3, ManagerRunsInv
  <2>4. CASE ManageGames \/ ManageRooms \/ RestartRooms
    BY <2>4 DEF ManageGames, ManageRooms, RestartRooms, Timer, startVars, StartInv
  <2>5. CASE UNCHANGED vars
    BY <2>5 DEF vars, startVars, queues, StartInv
  <2> QED
    BY <2>1, <2>2, <2>3, <2>4, <2>5 DEF Next
<1>3. StartInv => NoRequestBeforeLoop
  BY DEF StartInv, NoRequestBeforeLoop
<1> QED
  BY <1>1, <1>2, <1>3, PTL DEF Spec

----------------------------------------------------------------------------
(* The list of rooms, from the tables of the Manager through the queue of   *)
(* the IO thread to the clients.                                           *)

IsList(task) == task.type = "RoomsInfo"

\* The last list of a queue, or the one kept where none is queued, is `now`.
LatestIs(queue, kept, now) ==
    \/ /\ \A i \in DOMAIN queue : ~IsList(queue[i])
       /\ kept = now
    \/ \E i \in DOMAIN queue :
          /\ IsList(queue[i]) /\ queue[i].infos = now
          /\ \A j \in DOMAIN queue : j > i => ~IsList(queue[j])

\* Every client that is logged in has been sent the list that the IO thread keeps.
AllTold ==
    \A u \in Receivers(DOMAIN onlineUsers) :
        onlineUsers[u].conn # NoConn => told[onlineUsers[u].conn] = roomInfos

ListInv == LatestIs(serverTasks, roomInfos, M!RoomInfos(rooms)) /\ AllTold

----------------------------------------------------------------------------
(* The queue. *)

\* Two tasks posted at once are posted one after the other.
LEMMA PostedOne ==
    ASSUME NEW q \in Seq(Task), NEW t \in Task, NEW v \in Task
    PROVE  /\ q \o <<t>> = Append(q, t)
           /\ q \o <<t, v>> = Append(Append(q, t), v)
<1>1. <<t>> \in Seq(Task) /\ <<v>> \in Seq(Task) /\ Append(q, t) \in Seq(Task)
  BY SP!AppendTasks
<1>2. /\ Append(q, t) = q \o <<t>>
      /\ Append(Append(q, t), v) = Append(q, t) \o <<v>>
  BY <1>1, AppendIsConcat
<1>3. (q \o <<t>>) \o <<v>> = q \o (<<t>> \o <<v>>)
  BY <1>1, ConcatAssociative
<1>4. <<t>> \o <<v>> = <<t, v>>
  <2>1. PICK both \in Seq(Task) :
           /\ both = Append(<<t>>, v)
           /\ Len(both) = Len(<<t>>) + 1
           /\ \A i \in 1..Len(<<t>>) : both[i] = <<t>>[i]
           /\ both[Len(<<t>>) + 1] = v
    BY <1>1, AppendProperties
  <2>2. Len(both) = 2 /\ both[1] = t /\ both[2] = v
    BY <2>1
  <2>3. <<t, v>> \in Seq(Task) /\ Len(<<t, v>>) = 2
    OBVIOUS
  <2>4. \A i \in 1..2 : both[i] = <<t, v>>[i]
    BY <2>2
  <2>5. both = <<t, v>>
    BY <2>2, <2>3, <2>4, SeqEqual
  <2> QED
    BY <1>1, <2>1, <2>5, AppendIsConcat
<1> QED
  BY <1>2, <1>3, <1>4

\* A task that is no list changes nothing, a list is the last one from then on.
LEMMA LatestAppended ==
    ASSUME NEW q \in Seq(Task), NEW t \in Task, NEW kept, NEW now
    PROVE  /\ ~IsList(t) /\ LatestIs(q, kept, now) => LatestIs(Append(q, t), kept, now)
           /\ IsList(t) /\ t.infos = now => LatestIs(Append(q, t), kept, now)
<1> DEFINE r == Append(q, t)
<1>1. /\ Len(q) \in Nat /\ DOMAIN q = 1..Len(q)
      /\ DOMAIN r = 1..(Len(q) + 1)
      /\ r[Len(q) + 1] = t
      /\ \A i \in 1..Len(q) : r[i] = q[i]
  BY AppendProperties, LenProperties
<1> HIDE DEF r
<1>2. ASSUME IsList(t), t.infos = now PROVE LatestIs(r, kept, now)
  <2>1. \A j \in DOMAIN r : ~(j > Len(q) + 1)
    BY <1>1
  <2>2. Len(q) + 1 \in DOMAIN r
    BY <1>1
  <2> QED
    BY <1>1, <1>2, <2>1, <2>2 DEF LatestIs
<1>3. ASSUME ~IsList(t), LatestIs(q, kept, now) PROVE LatestIs(r, kept, now)
  <2>1. CASE kept = now /\ \A i \in DOMAIN q : ~IsList(q[i])
    <3>1. \A i \in DOMAIN r : ~IsList(r[i])
      BY <1>1, <1>3, <2>1
    <3> QED
      BY <2>1, <3>1 DEF LatestIs
  <2>2. ASSUME NEW i \in DOMAIN q, IsList(q[i]), q[i].infos = now,
               \A j \in DOMAIN q : j > i => ~IsList(q[j])
        PROVE  LatestIs(r, kept, now)
    <3>1. i \in DOMAIN r /\ r[i] = q[i]
      BY <1>1, <2>2
    <3>2. \A j \in DOMAIN r : j > i => ~IsList(r[j])
      BY <1>1, <1>3, <2>2
    <3> QED
      BY <2>2, <3>1, <3>2 DEF LatestIs
  <2> QED
    BY <1>3, <2>1, <2>2 DEF LatestIs
<1> QED
  BY <1>2, <1>3 DEF r

\* The same of tasks that are posted one or two at a time.
LEMMA LatestPosted ==
    ASSUME NEW q \in Seq(Task), NEW t \in Task, NEW v \in Task, NEW kept, NEW now
    PROVE  /\ ~IsList(t) /\ LatestIs(q, kept, now) => LatestIs(q \o <<t>>, kept, now)
           /\ ~IsList(t) /\ ~IsList(v) /\ LatestIs(q, kept, now)
                 => LatestIs(q \o <<t, v>>, kept, now)
           /\ IsList(t) /\ t.infos = now => LatestIs(q \o <<t>>, kept, now)
           /\ IsList(v) /\ v.infos = now => LatestIs(q \o <<t, v>>, kept, now)
<1>1. Append(q, t) \in Seq(Task)
  BY SP!AppendTasks
<1>2. q \o <<t>> = Append(q, t) /\ q \o <<t, v>> = Append(Append(q, t), v)
  BY PostedOne
<1>3. /\ ~IsList(v) /\ LatestIs(Append(q, t), kept, now)
            => LatestIs(Append(Append(q, t), v), kept, now)
      /\ IsList(v) /\ v.infos = now => LatestIs(Append(Append(q, t), v), kept, now)
  BY <1>1, LatestAppended
<1>4. /\ ~IsList(t) /\ LatestIs(q, kept, now) => LatestIs(Append(q, t), kept, now)
      /\ IsList(t) /\ t.infos = now => LatestIs(Append(q, t), kept, now)
  BY LatestAppended
<1> QED
  BY <1>2, <1>3, <1>4

\* A list that is taken is kept, and any other task makes no difference.
LEMMA LatestTaken ==
    ASSUME NEW q \in Seq(Task), q # <<>>, NEW kept, NEW now, LatestIs(q, kept, now)
    PROVE  LatestIs(Tail(q), IF IsList(Head(q)) THEN Head(q).infos ELSE kept, now)
<1> DEFINE r == Tail(q)
           keeps == IF IsList(Head(q)) THEN Head(q).infos ELSE kept
<1>1. /\ Len(q) \in Nat /\ Len(q) >= 1 /\ DOMAIN q = 1..Len(q)
      /\ Head(q) = q[1]
      /\ DOMAIN r = 1..(Len(q) - 1)
      /\ \A i \in 1..(Len(q) - 1) : r[i] = q[i + 1]
  BY LenProperties, EmptySeq, HeadTailProperties
<1> HIDE DEF r
<1>2. CASE kept = now /\ \A i \in DOMAIN q : ~IsList(q[i])
  <2>1. \A i \in DOMAIN r : ~IsList(r[i])
    BY <1>1, <1>2
  <2>2. keeps = now
    BY <1>1, <1>2
  <2> QED
    BY <2>1, <2>2 DEF LatestIs, r
<1>3. ASSUME NEW i \in DOMAIN q, IsList(q[i]), q[i].infos = now,
             \A j \in DOMAIN q : j > i => ~IsList(q[j])
      PROVE  LatestIs(r, keeps, now)
  <2>1. CASE i = 1
    <3>1. \A j \in DOMAIN r : ~IsList(r[j])
      BY <1>1, <1>3, <2>1
    <3>2. keeps = now
      BY <1>1, <1>3, <2>1
    <3> QED
      BY <3>1, <3>2 DEF LatestIs
  <2>2. CASE i # 1
    <3>1. i - 1 \in DOMAIN r /\ r[i - 1] = q[i]
      BY <1>1, <1>3, <2>2
    <3>2. ASSUME NEW j \in DOMAIN r, j > i - 1 PROVE ~IsList(r[j])
      <4>1. j + 1 \in DOMAIN q /\ j + 1 > i /\ r[j] = q[j + 1]
        BY <1>1, <3>2
      <4> QED
        BY <1>3, <4>1
    <3> QED
      BY <1>3, <3>1, <3>2 DEF LatestIs
  <2> QED
    BY <2>1, <2>2
<1> QED
  BY <1>2, <1>3 DEF LatestIs, r

----------------------------------------------------------------------------
(* The queue of the IO thread. *)

\* The tasks by what they are.
LEMMA ListTasks ==
    /\ \A rs : IsList(M!RoomsInfoTask(rs)) /\ M!RoomsInfoTask(rs).infos = M!RoomInfos(rs)
    /\ \A u, code : ~IsList(M!JoinRespTask(u, code))
    /\ \A u, score : ~IsList(M!SaveTask(u, score))
    /\ \A t \in LP!GameNotice : ~IsList(t)
BY DEF IsList, M!RoomsInfoTask, M!JoinRespTask, M!SaveTask, LP!GameNotice, LP!Notices

\* The Manager posts the new list with every change of the rooms.
LEMMA ManagerPostsList ==
    ASSUME LP!CapsFitTankIds, WholeInv, ManagerRuns,
           LatestIs(serverTasks, roomInfos, M!RoomInfos(rooms))
    PROVE  LatestIs(serverTasks', roomInfos, M!RoomInfos(rooms'))
<1> DEFINE head == Head(managerTasks)
           info == M!RoomsInfoTask(rooms')
<1>1. /\ serverTasks \in Seq(Task) /\ managerTasks \in Seq(ManagerTask)
      /\ LP!TablesInv
  BY Typed DEF WholeInv
<1>2. LP!TablesInv'
  BY StepKeepsTables DEF Next
<1>3. info \in Task /\ IsList(info) /\ info.infos = M!RoomInfos(rooms')
  BY <1>2, PostedSeen, ListTasks
<1> HIDE DEF info
<1>4. CASE ManageCreateRoom
  <2>1. head.cap \in Caps /\ M!ManageCreateRoom(head.cap)
    BY <1>1, <1>4, RequestTaken DEF ManageCreateRoom
  <2>2. serverTasks' = serverTasks \o <<info>>
    BY <1>1, <2>1, RoomCreated DEF info
  <2> QED
    BY <1>1, <1>3, <2>2, LatestPosted
<1>5. CASE ManageJoinRoom
  <2>1. /\ head.user \in UserIds /\ head.room \in 0..MaxRoomNum
        /\ M!ManageJoinRoom(head.user, head.room)
    BY <1>1, <1>5, RequestTaken DEF ManageJoinRoom
  <2>2. PICK code \in M!JoinCodes :
           LET resp == M!JoinRespTask(head.user, code)
           IN  \/ UNCHANGED rooms /\ serverTasks' = serverTasks \o <<resp>>
               \/ serverTasks' = serverTasks \o <<resp, info>>
    BY <1>1, <2>1, RoomJoined DEF info
  <2> DEFINE resp == M!JoinRespTask(head.user, code)
  <2>3. resp \in Task /\ ~IsList(resp)
    BY <1>2, <2>1, PostedSeen, ListTasks
  <2> HIDE DEF resp
  <2>4. CASE UNCHANGED rooms /\ serverTasks' = serverTasks \o <<resp>>
    BY <1>1, <2>3, <2>4, LatestPosted
  <2>5. CASE serverTasks' = serverTasks \o <<resp, info>>
    BY <1>1, <1>3, <2>3, <2>5, LatestPosted
  <2> QED
    BY <2>2, <2>4, <2>5 DEF resp
<1>6. CASE ManageQuitRoom
  <2>1. head.user \in UserIds /\ M!ManageQuitRoom(head.user)
    BY <1>1, <1>6, RequestTaken DEF ManageQuitRoom
  <2> DEFINE save == M!SaveTask(head.user, Points[head.user])
  <2>2. \/ UNCHANGED <<rooms, serverTasks>>
        \/ serverTasks' = serverTasks \o <<save, info>>
    BY <1>1, <2>1, RoomQuit DEF info
  <2>3. Points[head.user] \in Nat
    BY <1>1, <2>1, PointsType
  <2>4. save \in Task
    BY <1>2, <2>1, <2>3, PostedSeen
  <2> HIDE DEF save
  <2> QED
    BY <1>1, <1>3, <2>2, <2>4, LatestPosted
<1>7. CASE ManageControl
  BY <1>7 DEF ManageControl, managerVars
<1> QED
  BY <1>4, <1>5, <1>6, <1>7 DEF ManagerRuns

\* The timers change no room's size or head count, and post no list.
LEMMA TimersPostNoList ==
    ASSUME LP!CapsFitTankIds, WholeInv, ManageGames \/ ManageRooms \/ RestartRooms,
           LatestIs(serverTasks, roomInfos, M!RoomInfos(rooms))
    PROVE  LatestIs(serverTasks', roomInfos, M!RoomInfos(rooms'))
<1>1. /\ serverTasks \in Seq(Task) /\ LP!TablesInv
  BY DEF WholeInv
<1>2. M!RoomInfos(rooms') = M!RoomInfos(rooms)
  BY <1>1, GamesVisited, RoomVisited, RoomRestarted
     DEF ManageGames, ManageRooms, RestartRooms, Timer, RoomIds, M!RoomIds, SameRooms
<1>3. PostsNotices
  BY <1>1, TimersRun
     DEF ManageGames, ManageRooms, RestartRooms, Timer, RoomIds, M!RoomIds
<1>4. LP!GameNotice \subseteq Task
  <2>1. DOMAIN playersInfo \subseteq UserIds
    BY <1>1 DEF LP!TablesInv, LP!TablesTypeOK
  <2> QED
    BY <2>1 DEF LP!GameNotice, LP!ServerTask, Task
<1>5. \A t, v \in LP!GameNotice :
         /\ LatestIs(serverTasks \o <<t>>, roomInfos, M!RoomInfos(rooms))
         /\ LatestIs(serverTasks \o <<t, v>>, roomInfos, M!RoomInfos(rooms))
  BY <1>1, <1>4, ListTasks, LatestPosted
<1> QED
  BY <1>2, <1>3, <1>5 DEF PostsNotices

\* The IO thread keeps the list that it takes, and it alone writes roomInfos_.
LEMMA IOTaskKeepsList ==
    ASSUME serverTasks \in Seq(Task), IOTask, UNCHANGED rooms,
           LatestIs(serverTasks, roomInfos, M!RoomInfos(rooms))
    PROVE  LatestIs(serverTasks', roomInfos', M!RoomInfos(rooms'))
<1>1. serverTasks # <<>> /\ serverTasks' = Tail(serverTasks)
  BY DEF IOTask, RoomsInfoBroadcast, JoinRoomRespond, Notify, ObjectsDataBroadcast,
         SaveOnlineUserInfo, FindUserCallback, SaveUserInfoCallback, TakeTask
<1>2. roomInfos' = IF IsList(Head(serverTasks)) THEN Head(serverTasks).infos
                                               ELSE roomInfos
  BY DEF IOTask, RoomsInfoBroadcast, JoinRoomRespond, Notify, ObjectsDataBroadcast,
         SaveOnlineUserInfo, FindUserCallback, SaveUserInfoCallback, TakeTask,
         IsList, Notices
<1> QED
  BY <1>1, <1>2, LatestTaken

\* A callback of the pool posts no list.
LEMMA PoolThreadPostsNoList ==
    ASSUME serverTasks \in Seq(Task), jobs \in Seq(Job),
           NEW i \in 1..Workers, PoolThread(i), UNCHANGED rooms,
           LatestIs(serverTasks, roomInfos, M!RoomInfos(rooms))
    PROVE  LatestIs(serverTasks', roomInfos', M!RoomInfos(rooms'))
<1>1. CASE Callback(i)
  <2>1. jobs[i] \in Job /\ jobs[i].op \in {"Found", "Updated"}
    BY <1>1, ElementOfSeq DEF Callback, Working
  <2> DEFINE task == IF jobs[i].op = "Found"
                     THEN [type |-> "LoggedIn", conn |-> jobs[i].conn,
                           user |-> jobs[i].user, score |-> jobs[i].score]
                     ELSE [type |-> "Saved", user |-> jobs[i].user]
  <2>2. task \in Task /\ ~IsList(task)
    <3>1. task \in ServerTask
      BY <2>1 DEF Job, ServerTask
    <3>2. ~IsList(task)
      BY DEF IsList
    <3> QED
      BY <3>1, <3>2 DEF Task
  <2>3. serverTasks' = Append(serverTasks, task) /\ UNCHANGED roomInfos
    BY <1>1 DEF Callback
  <2> HIDE DEF task
  <2> QED
    BY <2>2, <2>3, LatestAppended
<1>2. CASE FindUser(i) \/ CreateUser(i) \/ SaveUserInfoToDB(i)
  BY <1>2 DEF FindUser, CreateUser, SaveUserInfoToDB
<1> QED
  BY <1>1, <1>2 DEF PoolThread

----------------------------------------------------------------------------
(* The clients. *)

\* While the list and what was sent are the same, no session is new that has a
\* connection.
LEMMA NobodyNew ==
    ASSUME AllTold, UNCHANGED <<told, roomInfos>>,
           \A u \in DOMAIN onlineUsers' :
              LET now == onlineUsers'[u]
              IN  ~now.disconnecting /\ now.conn # NoConn =>
                     /\ u \in DOMAIN onlineUsers
                     /\ ~onlineUsers[u].disconnecting
                     /\ onlineUsers[u].conn = now.conn
    PROVE  AllTold'
BY DEF AllTold, Receivers

\* Sessions as they are in Server.
LEMMA SessionsTyped ==
    ASSUME SP!TypeOK
    PROVE  onlineUsers \in [DOMAIN onlineUsers -> Session]
BY DEF SP!TypeOK, SP!Session, Session

\* A list goes to everyone who is logged in, and a client that logs in is sent
\* the one that is kept.
LEMMA IOTaskTells ==
    ASSUME SP!TypeOK, serverTasks \in Seq(Task), AllTold, IOTask
    PROVE  AllTold'
<1>1. onlineUsers \in [DOMAIN onlineUsers -> Session]
  BY SessionsTyped
<1>2. CASE RoomsInfoBroadcast
  <2> DEFINE conns == {onlineUsers[u].conn : u \in Receivers(DOMAIN onlineUsers)}
  <2>1. /\ UNCHANGED onlineUsers
        /\ told' = [c \in Conns |-> IF c \in conns THEN roomInfos' ELSE told[c]]
    BY <1>2 DEF RoomsInfoBroadcast, Send, Fail, SendRoomsInfo
  <2>2. ASSUME NEW u \in Receivers(DOMAIN onlineUsers), onlineUsers[u].conn # NoConn
        PROVE  told'[onlineUsers[u].conn] = roomInfos'
    <3>1. onlineUsers[u].conn \in Conns
      BY <1>1, <2>2 DEF Session, Receivers
    <3>2. onlineUsers[u].conn \in conns
      OBVIOUS
    <3> QED
      BY <2>1, <3>1, <3>2
  <2> QED
    BY <2>1, <2>2 DEF AllTold, Receivers
<1>3. CASE JoinRoomRespond \/ Notify \/ ObjectsDataBroadcast
  <2>1. UNCHANGED <<onlineUsers, told, roomInfos>>
    BY <1>3 DEF JoinRoomRespond, Notify, ObjectsDataBroadcast, Send, Fail
  <2> QED
    BY <2>1, NobodyNew
<1>4. CASE SaveOnlineUserInfo
  <2> DEFINE u == Head(serverTasks).user
  <2>1. /\ UNCHANGED <<told, roomInfos>>
        /\ \/ UNCHANGED onlineUsers
           \/ onlineUsers' = [onlineUsers EXCEPT ![u].score =
                                 onlineUsers[u].score + Head(serverTasks).score]
    BY <1>4 DEF SaveOnlineUserInfo
  <2>2. \A v \in DOMAIN onlineUsers' :
           /\ v \in DOMAIN onlineUsers
           /\ onlineUsers'[v].disconnecting = onlineUsers[v].disconnecting
           /\ onlineUsers'[v].conn = onlineUsers[v].conn
    BY <1>1, <2>1 DEF Session
  <2> QED
    BY <2>1, <2>2, NobodyNew
<1>5. CASE FindUserCallback
  <2> DEFINE u == Head(serverTasks).user
             c == Head(serverTasks).conn
             session == NewSession(c, u, Head(serverTasks).score)
  <2>0. UNCHANGED roomInfos
    BY <1>5 DEF FindUserCallback
  <2>1. CASE UNCHANGED <<onlineUsers, told>>
    BY <2>0, <2>1, NobodyNew
  <2>2. CASE /\ onlineUsers' = With(onlineUsers, u, session)
             /\ told' = [d \in Conns |-> IF d \in {c} THEN roomInfos ELSE told[d]]
    <3>1. c \in Conns
      <4>1. Head(serverTasks) \in Task /\ Head(serverTasks).type = "LoggedIn"
        BY <1>5, HeadTailProperties DEF FindUserCallback, TakeTask
      <4> QED
        BY <4>1 DEF Task, ServerTask, LP!ServerTask, Notices, LP!Notices
    <3>2. session.conn = c
      BY DEF NewSession
    <3> HIDE DEF u, c, session
    <3>3. /\ DOMAIN onlineUsers' = DOMAIN onlineUsers \cup {u}
          /\ onlineUsers'[u] = session
          /\ \A v \in DOMAIN onlineUsers \ {u} : onlineUsers'[v] = onlineUsers[v]
      BY <2>2 DEF With
    <3>4. ASSUME NEW v \in DOMAIN onlineUsers',
                 ~onlineUsers'[v].disconnecting, onlineUsers'[v].conn # NoConn
          PROVE  told'[onlineUsers'[v].conn] = roomInfos'
      <4>1. CASE v = u
        BY <2>0, <2>2, <3>1, <3>2, <3>3, <4>1
      <4>2. CASE v # u
        <5>1. /\ v \in DOMAIN onlineUsers /\ onlineUsers'[v] = onlineUsers[v]
              /\ onlineUsers[v].conn \in Conns
          BY <1>1, <3>3, <3>4, <4>2 DEF Session
        <5>2. told[onlineUsers[v].conn] = roomInfos
          BY <3>4, <5>1 DEF AllTold, Receivers
        <5> QED
          BY <2>0, <2>2, <5>1, <5>2
      <4> QED
        BY <4>1, <4>2
    <3> QED
      BY <3>4 DEF AllTold, Receivers
  <2> QED
    BY <1>5, <2>1, <2>2 DEF FindUserCallback, Fail, SendRoomsInfo, InformedAtLogin
<1>6. CASE SaveUserInfoCallback
  <2> DEFINE u == Head(serverTasks).user
             session == IF Online(u) THEN onlineUsers[u] ELSE NoSession
  <2>1. /\ UNCHANGED <<told, roomInfos>>
        /\ \/ UNCHANGED onlineUsers
           \/ onlineUsers' = With(onlineUsers, u, session)
           \/ onlineUsers' = Without(onlineUsers, u)
    BY <1>6 DEF SaveUserInfoCallback, Fail
  <2>2. CASE UNCHANGED onlineUsers
    BY <2>1, <2>2, NobodyNew
  <2>3. CASE onlineUsers' = With(onlineUsers, u, session)
    <3> HIDE DEF u
    <3>1. /\ DOMAIN onlineUsers' = DOMAIN onlineUsers \cup {u}
          /\ onlineUsers'[u] = session
          /\ \A v \in DOMAIN onlineUsers \ {u} : onlineUsers'[v] = onlineUsers[v]
      BY <2>3 DEF With
    <3>2. \/ u \in DOMAIN onlineUsers /\ session = onlineUsers[u]
          \/ session.conn = NoConn
      BY DEF Online, NoSession
    <3> QED
      BY <2>1, <3>1, <3>2, NobodyNew
  <2>4. CASE onlineUsers' = Without(onlineUsers, u)
    <3>1. \A v \in DOMAIN onlineUsers' :
             v \in DOMAIN onlineUsers /\ onlineUsers'[v] = onlineUsers[v]
      BY <2>4 DEF Without, Restrict
    <3> QED
      BY <2>1, <3>1, NobodyNew
  <2> QED
    BY <2>1, <2>2, <2>3, <2>4
<1> QED
  BY <1>2, <1>3, <1>4, <1>5, <1>6 DEF IOTask

\* Clients that come and go, and the other threads, leave the rest as told.
LEMMA OthersTellNobody ==
    ASSUME SP!TypeOK, AllTold,
           \/ \E c \in Conns : Messages(c)
           \/ \E i \in 1..Workers : PoolThread(i)
           \/ ManagerRuns \/ ManageGames \/ ManageRooms \/ RestartRooms
           \/ UNCHANGED <<serverVars, queues, managerVars>>
    PROVE  AllTold' /\ UNCHANGED roomInfos
<1>1. onlineUsers \in [DOMAIN onlineUsers -> Session]
  BY SessionsTyped
<1>2. ASSUME NEW c \in Conns, HandleDisconnection(c)
      PROVE  AllTold' /\ UNCHANGED roomInfos
  <2> DEFINE u == UserAt(Address[c])
  <2>1. /\ UNCHANGED <<told, roomInfos>>
        /\ \/ UNCHANGED onlineUsers
           \/ onlineUsers' = [onlineUsers EXCEPT ![u].disconnecting = TRUE]
    BY <1>2 DEF HandleDisconnection
  <2> HIDE DEF u
  <2>2. \A v \in DOMAIN onlineUsers' :
           /\ v \in DOMAIN onlineUsers
           /\ onlineUsers'[v].conn = onlineUsers[v].conn
           /\ ~onlineUsers'[v].disconnecting => ~onlineUsers[v].disconnecting
    BY <1>1, <2>1 DEF Session
  <2> QED
    BY <2>1, <2>2, NobodyNew
<1>3. ASSUME NEW c \in Conns, Messages(c), ~HandleDisconnection(c)
      PROVE  UNCHANGED <<onlineUsers, told, roomInfos>>
  BY <1>3 DEF Messages, Connect, OnLogin, OnCreateRoom, OnJoinRoom, OnQuitRoom,
              OnControlMessage, serverVars
<1>4. ASSUME NEW i \in 1..Workers, PoolThread(i)
      PROVE  UNCHANGED <<onlineUsers, told, roomInfos>>
  BY <1>4 DEF PoolThread, FindUser, CreateUser, SaveUserInfoToDB, Callback
<1>5. ASSUME ManagerRuns PROVE UNCHANGED <<onlineUsers, told, roomInfos>>
  BY <1>5 DEF ManagerRuns, ManageCreateRoom, ManageJoinRoom, ManageQuitRoom,
              ManageControl, ManagerTakes, serverVars
<1>6. ASSUME ManageGames \/ ManageRooms \/ RestartRooms
      PROVE  UNCHANGED <<onlineUsers, told, roomInfos>>
  BY <1>6 DEF ManageGames, ManageRooms, RestartRooms, Timer, serverVars
<1>7. ASSUME UNCHANGED <<onlineUsers, told, roomInfos>>
      PROVE  AllTold' /\ UNCHANGED roomInfos
  BY <1>7, NobodyNew
<1> QED
  BY <1>2, <1>3, <1>4, <1>5, <1>6, <1>7 DEF serverVars

----------------------------------------------------------------------------
\* The list a client has is out of date only while a newer one is on its way.
THEOREM ListsAreFresh ==
    ASSUME M!CapsFitTankIds
    PROVE  Spec => []RoomListFresh
<1>0. LP!CapsFitTankIds
  BY SameManager
<1>1. Init => ListInv
  <2> SUFFICES ASSUME Init PROVE ListInv
    OBVIOUS
  <2>1. /\ DOMAIN onlineUsers = {} /\ roomInfos = {}
        /\ serverTasks = <<>> /\ DOMAIN rooms = {}
    BY DEF Init, ServerInit, M!Init
  <2>2. M!RoomInfos(rooms) = {}
    BY <2>1 DEF M!RoomInfos
  <2> QED
    BY <2>1, <2>2 DEF ListInv, LatestIs, AllTold, Receivers
<1>2. ASSUME WholeInv, ListInv, [Next]_vars PROVE ListInv'
  <2>1. /\ SP!TypeOK /\ serverTasks \in Seq(Task) /\ jobs \in Seq(Job)
    BY <1>2, Typed DEF WholeInv
  <2>2. CASE (\E c \in Conns : Messages(c)) /\ UNCHANGED managerVars
    <3>1. UNCHANGED <<serverTasks, rooms>>
      BY <2>2 DEF managerVars, Messages, Connect, HandleDisconnection, OnLogin,
                  OnCreateRoom, OnJoinRoom, OnQuitRoom, OnControlMessage
    <3> QED
      BY <1>2, <2>1, <2>2, <3>1, OthersTellNobody DEF ListInv
  <2>3. CASE (\E i \in 1..Workers : PoolThread(i)) /\ UNCHANGED managerVars
    <3>1. UNCHANGED rooms
      BY <2>3 DEF managerVars
    <3> QED
      BY <1>2, <2>1, <2>3, <3>1, PoolThreadPostsNoList, OthersTellNobody DEF ListInv
  <2>4. CASE IOTask /\ UNCHANGED managerVars
    <3>1. UNCHANGED rooms
      BY <2>4 DEF managerVars
    <3> QED
      BY <1>2, <2>1, <2>4, <3>1, IOTaskKeepsList, IOTaskTells DEF ListInv
  <2>5. CASE ManagerRuns
    BY <1>0, <1>2, <2>1, <2>5, ManagerPostsList, OthersTellNobody DEF ListInv
  <2>6. CASE ManageGames \/ ManageRooms \/ RestartRooms
    BY <1>0, <1>2, <2>1, <2>6, TimersPostNoList, OthersTellNobody DEF ListInv
  <2>7. CASE UNCHANGED <<serverVars, queues, managerVars>>
    <3>1. UNCHANGED <<serverTasks, rooms>>
      BY <2>7 DEF queues, managerVars
    <3> QED
      BY <1>2, <2>1, <2>7, <3>1, OthersTellNobody DEF ListInv
  <2> QED
    BY <1>2, <2>2, <2>3, <2>4, <2>5, <2>6, <2>7, StepOf
<1>3. ListInv => RoomListFresh
  BY DEF ListInv, LatestIs, IsList, AllTold, RoomListFresh
<1> QED
  BY <1>1, <1>2, <1>3, WholeInvariance, PTL DEF Spec
=============================================================================
