------------------------------ MODULE Manager ------------------------------
(***************************************************************************)
(* class Manager (src/server/Manager.cc): the thread that owns the rooms.  *)
(* Its event loop runs, one after the other, the tasks the IO thread has   *)
(* queued (manageCreateRoom, manageJoinRoom, manageQuitRoom), the 10 ms    *)
(* timer manageGames and the two-second timers of restartRoom.  Whatever   *)
(* the Manager has to tell the clients it queues for the IO thread, here   *)
(* as records appended to serverTasks.                                     *)
(*                                                                         *)
(* Real time is abstracted: a pending timer may fire at any moment.  The   *)
(* fourth kind of task, manageControl, only steers a tank or fires a shell *)
(* and is part of module GameRound; here the hits of a tick are arbitrary. *)
(***************************************************************************)
EXTENDS GameRoom, Sequences, Functions

CONSTANTS
    Users,       \* user ids that may turn up; 0 (never logged in) may be one
    Caps,        \* room sizes a client may ask for, uint8_t
    MaxRoomNum,  \* Server::maxRoomNum_, the number of rooms ever created
    MaxScore,    \* bound: points of one player in one room
    MaxTimers,   \* bound: restart timers pending for one room
    MaxBacklog   \* bound: tasks waiting for the IO thread when one is added

ASSUME CapsAssumption == Caps \subseteq 0..255
ASSUME MaxRoomNumAssumption == MaxRoomNum \in 1..255
ASSUME BoundsAssumption ==
    MaxScore \in Nat /\ MaxTimers \in Nat /\ MaxBacklog \in Nat

RoomIds == 1..MaxRoomNum

VARIABLES
    rooms,          \* room id -> Room, for the rooms created so far
    nextRoomId,
    playersInfo,    \* user -> [roomId, playerId], for the users in a room
    userIdsInRoom,  \* room id -> set of users ({} where C++ has no entry yet)
    restartTimers,  \* room id -> number of pending runAfter(2.0) timers
    ticking,        \* rooms the running call of manageGames has yet to visit
    serverTasks,    \* loop_.queueInLoop: tasks posted to the IO thread
    failed          \* assertions that have failed: the process has aborted

managerVars == <<rooms, nextRoomId, playersInfo, userIdsInRoom,
                 restartTimers, ticking>>
vars == <<managerVars, serverTasks, failed>>

Assertions == {"newPlayer", "returnTankId", "playerNum"}

Status(r) == rooms[r].status
Full(r) == rooms[r].playerNum = rooms[r].cap

\* Mutated forms of RoomOpen: one half of the test at Manager.cc 79-80 is missing.
RoomOpenThoughFull(r) == Status(r) # "Playing"
RoomOpenDuringGame(r) == ~Full(r)

RoomOpen(r) == Status(r) # "Playing" /\ ~Full(r)

\* Mutated form of ErasePlayer: the entry stays behind.
ErasePlayerForgotten(u) == playersInfo

\* playersInfo.erase(userId)
ErasePlayer(u) == Restrict(playersInfo, DOMAIN playersInfo \ {u})

----------------------------------------------------------------------------
(* Tasks for the IO thread. *)

RoomInfos(rs) ==
    {[id |-> r, cap |-> rs[r].cap, playerNum |-> rs[r].playerNum] :
        r \in DOMAIN rs}

RoomsInfoTask(rs) == [type |-> "RoomsInfo", infos |-> RoomInfos(rs)]
JoinRespTask(user, code) == [type |-> "JoinResp", user |-> user, code |-> code]
SaveTask(user, score) == [type |-> "Save", user |-> user, score |-> score]
\* GameOn, GameOff, Blocks, Objects and PlayersScore go to a set of users.
NotifyTask(type, users) == [type |-> type, users |-> users]

RoomInfo == [id : RoomIds, cap : 0..255, playerNum : 0..255]
JoinCodes == {"JOIN_ROOM_SUCCESS", "ERR_IS_IN_ROOM", "ERR_ROOM_NOT_EXIST",
              "ERR_ROOM_FULL"}
Notices == {"GameOn", "GameOff", "Blocks", "Objects", "PlayersScore"}

ServerTask ==
    [type : {"RoomsInfo"}, infos : SUBSET RoomInfo]
    \cup [type : {"JoinResp"}, user : Users, code : JoinCodes]
    \cup [type : {"Save"}, user : Users, score : Nat]
    \cup [type : Notices, users : SUBSET Users]

Post(tasks) == serverTasks' = serverTasks \o tasks

\* A failed assert() aborts the process.
Check(name, holds) == IF holds THEN {} ELSE {name}
Asserting(failures) == failed' = failed \cup failures

\* The loop runs one task at a time, and no task once the process is gone.
Idle == failed = {} /\ ticking = {}

\* Bound: tasks that post others wait while the IO thread is behind.
MayPost == Len(serverTasks) <= MaxBacklog

----------------------------------------------------------------------------
Init ==
    /\ rooms = [r \in {} |-> NewRoom(0)]
    /\ nextRoomId = 1
    /\ playersInfo = [u \in {} |-> [roomId |-> 0, playerId |-> 0]]
    /\ userIdsInRoom = [r \in RoomIds |-> {}]
    /\ restartTimers = [r \in RoomIds |-> 0]
    /\ ticking = {}
    /\ serverTasks = <<>>
    /\ failed = {}

ManageCreateRoom(cap) ==
    /\ Idle /\ MayPost
    /\ nextRoomId \in RoomIds      \* onCreateRoom creates no more than these
    /\ rooms' = [r \in DOMAIN rooms \cup {nextRoomId} |->
                    IF r = nextRoomId THEN NewRoom(cap) ELSE rooms[r]]
    /\ nextRoomId' = nextRoomId + 1
    /\ Post(<<RoomsInfoTask(rooms')>>)
    /\ UNCHANGED <<playersInfo, userIdsInRoom, restartTimers, ticking, failed>>

RefuseJoin(u, code) ==
    /\ Post(<<JoinRespTask(u, code)>>)
    /\ UNCHANGED <<managerVars, failed>>

EnterRoom(u, r) ==
    /\ rooms' = [rooms EXCEPT ![r] = NewPlayer(@)]
    /\ playersInfo' =
          [v \in DOMAIN playersInfo \cup {u} |->
              IF v = u THEN [roomId |-> r,
                             playerId |-> GetTankId(rooms[r].usedTankId)]
                       ELSE playersInfo[v]]
    /\ userIdsInRoom' = [userIdsInRoom EXCEPT ![r] = @ \cup {u}]
    /\ Asserting(Check("newPlayer", MayAddPlayer(rooms[r]))
                 \cup Check("playerNum",
                            rooms'[r].playerNum = Cardinality(userIdsInRoom'[r])))
    /\ Post(<<JoinRespTask(u, "JOIN_ROOM_SUCCESS"), RoomsInfoTask(rooms')>>)
    /\ UNCHANGED <<nextRoomId, restartTimers, ticking>>

ManageJoinRoom(u, r) ==
    /\ Idle /\ MayPost
    /\ \/ /\ u \in DOMAIN playersInfo
          /\ RefuseJoin(u, "ERR_IS_IN_ROOM")
       \/ /\ u \notin DOMAIN playersInfo
          /\ r \notin DOMAIN rooms
          /\ RefuseJoin(u, "ERR_ROOM_NOT_EXIST")
       \/ /\ u \notin DOMAIN playersInfo
          /\ r \in DOMAIN rooms
          /\ ~RoomOpen(r)
          /\ RefuseJoin(u, "ERR_ROOM_FULL")
       \/ /\ u \notin DOMAIN playersInfo
          /\ r \in DOMAIN rooms
          /\ RoomOpen(r)
          /\ EnterRoom(u, r)

LeaveRoom(u, r, id) ==
    /\ rooms' = [rooms EXCEPT ![r] = PlayerQuit(@, id)]
    /\ userIdsInRoom' = [userIdsInRoom EXCEPT ![r] = @ \ {u}]
    /\ playersInfo' = ErasePlayer(u)
    /\ Asserting(Check("returnTankId", MayReturnTankId(id))
                 \cup Check("playerNum",
                            rooms'[r].playerNum = Cardinality(userIdsInRoom'[r])))
    /\ Post(<<SaveTask(u, ScoreOf(rooms[r].players, id)), RoomsInfoTask(rooms')>>)
    /\ UNCHANGED <<nextRoomId, restartTimers, ticking>>

\* Does nothing for a user that is in no room, or in one that is not there.
ManageQuitRoom(u) ==
    /\ Idle /\ MayPost
    /\ IF u \in DOMAIN playersInfo /\ playersInfo[u].roomId \in DOMAIN rooms
       THEN LeaveRoom(u, playersInfo[u].roomId, playersInfo[u].playerId)
       ELSE UNCHANGED vars

----------------------------------------------------------------------------
(* manageGames, one room at a time: the order is that of an unordered_map. *)

\* A call of moveAll may end the round of room r.
CanFinish(r) == Status(r) = "Playing" /\ Full(r) /\ ~rooms[r].hasWinner

\* Bound: nobody plays on beyond MaxScore points or MaxTimers timers.
WithinBounds(r) ==
    CanFinish(r) => /\ restartTimers[r] < MaxTimers
                    /\ \A p \in PlayerIds :
                          rooms[r].players[p] < MaxScore

ManageGames ==
    /\ Idle /\ MayPost
    /\ DOMAIN rooms # {}
    /\ \A r \in DOMAIN rooms : WithinBounds(r)
    /\ ticking' = DOMAIN rooms
    /\ UNCHANGED <<rooms, nextRoomId, playersInfo, userIdsInRoom, restartTimers,
                   serverTasks, failed>>

BeginGame(r) ==
    /\ Status(r) = "Waiting" /\ Full(r)
    /\ rooms' = [rooms EXCEPT ![r] = InitRound(SetStatus(@, "Playing"))]
    /\ Post(<<NotifyTask("GameOn", userIdsInRoom[r]),
              NotifyTask("Blocks", userIdsInRoom[r])>>)
    /\ UNCHANGED restartTimers

\* Mutated form of EndGame: the players are told, the status is not changed.
EndGameOnlyTold(r) ==
    /\ Status(r) = "Playing" /\ rooms[r].playerNum < rooms[r].cap
    /\ Post(<<NotifyTask("GameOff", userIdsInRoom[r])>>)
    /\ UNCHANGED <<rooms, restartTimers>>

EndGame(r) ==
    /\ Status(r) = "Playing" /\ rooms[r].playerNum < rooms[r].cap
    /\ rooms' = [rooms EXCEPT ![r] = SetStatus(@, "Waiting")]
    /\ Post(<<NotifyTask("GameOff", userIdsInRoom[r])>>)
    /\ UNCHANGED restartTimers

\* restartRoom is called when moveAll has found a winner.
PlayGame(r) ==
    /\ Status(r) = "Playing" /\ rooms[r].playerNum >= rooms[r].cap
    /\ \E dead \in SUBSET rooms[r].tanks, hits \in 0..MaxHits,
          winner \in rooms[r].tanks \cup {NoWinner} :
        /\ MoveAllMay(rooms[r], dead, hits, winner)
        /\ LET after == MoveAll(rooms[r], dead, hits, winner)
           IN  /\ rooms' = [rooms EXCEPT ![r] = ClearRestart(after)]
               /\ IF NeedRestart(after)
                  THEN /\ restartTimers' = [restartTimers EXCEPT ![r] = @ + 1]
                       /\ Post(<<NotifyTask("Objects", userIdsInRoom[r]),
                                 NotifyTask("PlayersScore", userIdsInRoom[r])>>)
                  ELSE /\ UNCHANGED restartTimers
                       /\ Post(<<NotifyTask("Objects", userIdsInRoom[r])>>)

PassOver(r) ==
    /\ Status(r) # "Playing" /\ ~(Status(r) = "Waiting" /\ Full(r))
    /\ UNCHANGED <<rooms, restartTimers, serverTasks>>

ManageRoom(r) ==
    /\ failed = {}
    /\ ticking' = ticking \ {r}
    /\ BeginGame(r) \/ EndGame(r) \/ PlayGame(r) \/ PassOver(r)
    /\ UNCHANGED <<nextRoomId, playersInfo, userIdsInRoom, failed>>

\* The callback of restartRoom's timer: whatever has become of the room in the
\* two seconds since, it starts a round with the players it finds.
RestartRoom(r) ==
    /\ Idle
    /\ restartTimers[r] > 0
    /\ restartTimers' = [restartTimers EXCEPT ![r] = @ - 1]
    /\ rooms' = [rooms EXCEPT ![r] = InitRound(@)]
    /\ Post(<<NotifyTask("Blocks", userIdsInRoom[r])>>)
    /\ UNCHANGED <<nextRoomId, playersInfo, userIdsInRoom, ticking, failed>>

----------------------------------------------------------------------------
(* The Manager by itself: tasks arrive with any arguments a client can     *)
(* cause, and the IO thread takes what was posted to it.                   *)

IOThreadTakes ==
    /\ failed = {}
    /\ serverTasks # <<>>
    /\ serverTasks' = <<>>
    /\ UNCHANGED <<managerVars, failed>>

Tick == ManageGames \/ \E r \in ticking : ManageRoom(r)

Next ==
    \/ \E cap \in Caps : ManageCreateRoom(cap)
    \/ \E u \in Users, r \in 0..MaxRoomNum : ManageJoinRoom(u, r)
    \/ \E u \in Users : ManageQuitRoom(u)
    \/ Tick
    \/ \E r \in RoomIds : RestartRoom(r)
    \/ IOThreadTakes

Spec == Init /\ [][Next]_vars

\* The clock of the Manager's event loop drives manageGames and the timers.  A
\* timer that is due runs when the callback in progress returns: neither kind
\* is passed over for ever because other callbacks keep running in between
\* (hence SF).  The IO thread keeps taking tasks from its own queue.  Nothing
\* obliges a client to do anything.
Fairness ==
    /\ SF_vars(Tick)
    /\ \A r \in RoomIds : SF_vars(RestartRoom(r))
    /\ WF_vars(IOThreadTakes)

FairSpec == Spec /\ Fairness

----------------------------------------------------------------------------
(* Properties.  Those that speak of players by their ids suppose that rooms *)
(* are no larger than the supply of tank ids; onCreateRoom does not check   *)
(* that, see the run ManagerOversizedRoom.                                  *)

CapsFitTankIds == Caps \subseteq 0..MaxTankId

PlayerInfo == [roomId : RoomIds, playerId : PlayerIds]

\* A room larger than that holds two players with the id 0, and the quit of one
\* of them trips the assertion of IdManager::returnTankId.
TankIdsReturned == "returnTankId" \notin failed

\* The types of Manager.h 42-54 and GameRoom.h 67-101; in particular the
\* uint8_t counters of a room never wrap, and rooms are numbered without gap.
TablesTypeOK ==
    /\ nextRoomId \in 1..(MaxRoomNum + 1)
    /\ rooms \in [1..(nextRoomId - 1) -> Room]
    /\ playersInfo \in [DOMAIN playersInfo -> PlayerInfo]
    /\ DOMAIN playersInfo \subseteq Users
    /\ userIdsInRoom \in [RoomIds -> SUBSET Users]
    /\ restartTimers \in [RoomIds -> Nat]
    /\ ticking \subseteq DOMAIN rooms

TypeOK ==
    /\ TablesTypeOK
    /\ serverTasks \in Seq(ServerTask)
    /\ failed \subseteq Assertions

\* playersInfo and userIdsInRoom, kept apart by manageJoinRoom and
\* manageQuitRoom, say the same: who is in which room, and each in one at most.
MembersMatch ==
    /\ \A u \in DOMAIN playersInfo : playersInfo[u].roomId \in DOMAIN rooms
    /\ \A r \in RoomIds :
          userIdsInRoom[r] = {u \in DOMAIN playersInfo : playersInfo[u].roomId = r}

PlayerIdsIn(r) == {playersInfo[u].playerId : u \in userIdsInRoom[r]}

\* Two members of a room never share a tank id, the ids in use are the ones the
\* IdManager has handed out, and the score table of the room has a row for
\* each member and none besides: operator[] at GameRoom.cc 89 and 168 never
\* makes up a row for a player who is not there.
PlayersMatch ==
    \A r \in DOMAIN rooms :
        /\ \A u, v \in userIdsInRoom[r] :
              playersInfo[u].playerId = playersInfo[v].playerId => u = v
        /\ rooms[r].usedTankId = PlayerIdsIn(r)
        /\ Rows(rooms[r].players) = PlayerIdsIn(r)

\* None of the assertions at GameRoom.cc 78, IdManager.cc 29 and Manager.cc 88
\* and 102 fails: the head count of a room is the number of its members.
NoAssertionFails == failed = {}

\* While a round is played, every tank is that of a member, and `survivors`
\* never counts more tanks than are left, whoever left or restarted before: a
\* round with one tank left does not wait for a tank that is gone.  (It may
\* count fewer, when two shells hit the same tank in one tick: module GameRound.)
RoundSound ==
    \A r \in DOMAIN rooms :
        Status(r) = "Playing" /\ Full(r) =>
            /\ rooms[r].tanks \subseteq Rows(rooms[r].players)
            /\ rooms[r].survivors <= Cardinality(rooms[r].tanks)

\* A round that is decided has a timer pending that will start the next one,
\* whatever joined, left or restarted in between.
RestartPending ==
    \A r \in DOMAIN rooms :
        rooms[r].hasWinner => restartTimers[r] > 0

\* What the assertions need: as many tank ids are in use as there are members,
\* and a room never holds more of them than it was made for.
HeadCount ==
    \A r \in DOMAIN rooms :
        /\ IsFiniteSet(userIdsInRoom[r])
        /\ rooms[r].playerNum = Cardinality(userIdsInRoom[r])
        /\ rooms[r].playerNum = Cardinality(rooms[r].usedTankId)
        /\ rooms[r].playerNum <= rooms[r].cap
        /\ rooms[r].cap \in Caps
        /\ ~rooms[r].restartNeeded

TimersOfRooms == \A r \in RoomIds \ DOMAIN rooms : restartTimers[r] = 0

\* The inductive invariant of the tables that the Manager's thread owns, whatever
\* else is done with the queue to the IO thread; and that of the Manager alone.
TablesInv ==
    /\ TablesTypeOK
    /\ MembersMatch
    /\ PlayersMatch
    /\ HeadCount
    /\ RoundSound
    /\ RestartPending
    /\ TimersOfRooms

IInv ==
    /\ TablesInv
    /\ serverTasks \in Seq(ServerTask)
    /\ NoAssertionFails

\* A round gives one point at most, to one member; points are otherwise only
\* ever dropped with the member who leaves.
OnePointPerRound ==
    [][\A r \in DOMAIN rooms :
          LET old == rooms[r].players
              new == rooms'[r].players
              won == {p \in PlayerIds : new[p] # NoRow /\ new[p] # ScoreOf(old, p)}
          IN  won # {} =>
                /\ \E p \in Rows(old) : won = {p} /\ new[p] = old[p] + 1
                /\ ~rooms[r].hasWinner /\ rooms'[r].hasWinner
                /\ userIdsInRoom' = userIdsInRoom]_vars

\* A room that has filled up starts to play, unless somebody leaves again.
FullRoomPlays ==
    \A r \in RoomIds :
        (r \in DOMAIN rooms /\ rooms[r].cap > 0 /\ Full(r))
            ~> (r \in DOMAIN rooms /\ (Status(r) = "Playing" \/ ~Full(r)))

\* A game that a member has left ends, and the room takes new members again.
ShortGameEnds ==
    \A r \in RoomIds :
        (r \in DOMAIN rooms /\ Status(r) = "Playing" /\ ~Full(r))
            ~> (r \in DOMAIN rooms /\ Status(r) = "Waiting")

\* A decided round is followed by another.
RoundRestarts ==
    \A r \in RoomIds :
        (r \in DOMAIN rooms /\ rooms[r].hasWinner)
            ~> (r \in DOMAIN rooms /\ ~rooms[r].hasWinner)

----------------------------------------------------------------------------
(* The Manager implements the abstract Lobby. *)

PointsOf(u) ==
    IF u \in DOMAIN playersInfo
    THEN ScoreOf(rooms[playersInfo[u].roomId].players, playersInfo[u].playerId)
    ELSE 0

Abstract == INSTANCE Lobby WITH
    capOf   <- [r \in DOMAIN rooms |-> rooms[r].cap],
    members <- userIdsInRoom,
    playing <- {r \in DOMAIN rooms : Status(r) = "Playing"},
    decided <- {r \in DOMAIN rooms : rooms[r].hasWinner},
    points  <- [u \in Users |-> PointsOf(u)]

\* Seen from outside, the tables of ids and scores, the asserts, ticks and
\* stale timers come to a plain lobby: nobody enters during a game or in
\* excess of the room's size, and the points a user leaves with are the rounds
\* that user has won there.
ImplementsLobby == Abstract!Spec
=============================================================================
