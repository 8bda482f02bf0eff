--------------------------- MODULE ManagerProofs ---------------------------
(***************************************************************************)
(* Proofs about Manager for every set of users, every set of room sizes    *)
(* that the tank ids suffice for, and every bound.                         *)
(***************************************************************************)
EXTENDS Manager, FiniteSetTheorems, SequenceTheorems, WellFoundedInduction,
        TLAPS

----------------------------------------------------------------------------
(* The operators of GameRoom. *)

\* A set of naturals that is not empty has a least element.
LEMMA LeastNat ==
    ASSUME NEW S, S \subseteq Nat, S # {}
    PROVE  \E i \in S : \A j \in S : i <= j
<1>1. \E i \in S : \A j \in S : ~(<<j, i>> \in OpToRel(<, Nat))
  BY NatLessThanWellFounded, WFMin, Zenon
<1>2. PICK i \in S : \A j \in S : ~(<<j, i>> \in OpToRel(<, Nat))
  BY <1>1
<1>3. \A j \in S : ~(j < i)
  BY <1>2 DEF OpToRel
<1>4. \A j \in S : i <= j
  BY <1>3, SMT
<1> QED
  BY <1>4

\* There are MaxTankId tank ids.
LEMMA TankIdsFinite ==
    IsFiniteSet(TankIds) /\ Cardinality(TankIds) = MaxTankId
BY FS_Interval, MaxTankIdAssumption DEF TankIds

\* getTankId answers an id that is not in use, as long as there is one.
LEMMA GetTankIdFresh ==
    ASSUME NEW used \in SUBSET TankIds, Cardinality(used) < MaxTankId
    PROVE  GetTankId(used) \in TankIds \ used
<1>1. used # TankIds
  BY TankIdsFinite, MaxTankIdAssumption
<1> DEFINE free == TankIds \ used
<1>2. free # {} /\ free \subseteq Nat
  <2>1. free # {}
    BY <1>1
  <2>2. free \subseteq Nat
    BY DEF TankIds
  <2> QED
    BY <2>1, <2>2
<1>3. \E i \in free : \A j \in free : i <= j
  BY <1>2, LeastNat
<1>4. GetTankId(used) = CHOOSE i \in free : \A j \in free : i <= j
  BY <1>2, Zenon DEF GetTankId
<1> HIDE DEF free
<1>5. GetTankId(used) \in free
  BY <1>3, <1>4
<1> QED
  BY <1>5 DEF free

\* The set of ids with a row in a score table is finite.
LEMMA RowsFinite ==
    ASSUME NEW players \in Scores
    PROVE  /\ Rows(players) \subseteq PlayerIds
           /\ IsFiniteSet(Rows(players))
           /\ Cardinality(Rows(players)) \in Nat
<1>1. IsFiniteSet(PlayerIds)
  BY FS_Interval, MaxTankIdAssumption DEF PlayerIds
<1>2. Rows(players) \in SUBSET PlayerIds
  BY DEF Rows
<1> QED
  BY <1>1, <1>2, FS_Subset, FS_CardinalityType

\* A new room is a room without players.
LEMMA NewRoomType ==
    ASSUME NEW cap \in 0..255
    PROVE  NewRoom(cap) \in Room
BY DEF NewRoom, Room, Scores, RoomStatus, NoRow

\* What a newcomer changes in a room that has a place and an id to give.
LEMMA NewPlayerEffect ==
    ASSUME NEW room \in Room, room.playerNum < 255,
           Cardinality(room.usedTankId) < MaxTankId
    PROVE  LET id == GetTankId(room.usedTankId)
               new == NewPlayer(room)
           IN  /\ id \in TankIds \ room.usedTankId
               /\ new \in Room
               /\ new.usedTankId = room.usedTankId \cup {id}
               /\ Rows(new.players) = Rows(room.players) \cup {id}
               /\ new.playerNum = room.playerNum + 1
               /\ new.cap = room.cap
               /\ new.status = IF room.status = "New" THEN "Waiting" ELSE room.status
               /\ new.hasWinner = room.hasWinner
               /\ new.restartNeeded = room.restartNeeded
<1> DEFINE id == GetTankId(room.usedTankId)
           new == NewPlayer(room)
<1>1. id \in TankIds \ room.usedTankId
  BY GetTankIdFresh DEF Room
<1>2. id \in PlayerIds /\ id # 0
  BY <1>1, MaxTankIdAssumption DEF TankIds, PlayerIds
<1> HIDE DEF id
<1>3. /\ new.usedTankId = room.usedTankId \cup {id}
      /\ new.players = SetRow(room.players, id, 0)
      /\ new.playerNum = room.playerNum + 1
      /\ new.cap = room.cap
      /\ new.status = IF room.status = "New" THEN "Waiting" ELSE room.status
      /\ new.hasWinner = room.hasWinner
      /\ new.restartNeeded = room.restartNeeded
      /\ new.tanks = room.tanks
      /\ new.survivors = room.survivors
  BY <1>2 DEF NewPlayer, Room, id
<1>4. new \in Room
  <2>1. room.usedTankId \cup ({id} \ {0}) \in SUBSET TankIds
    BY <1>1 DEF Room
  <2>2. SetRow(room.players, id, 0) \in Scores
    BY <1>2 DEF SetRow, Scores, Room
  <2>3. room.playerNum + 1 \in 0..255
    BY DEF Room
  <2>4. (IF room.status = "New" THEN "Waiting" ELSE room.status) \in RoomStatus
    BY DEF Room, RoomStatus
  <2> QED
    BY <2>1, <2>2, <2>3, <2>4 DEF NewPlayer, Room, id
<1>5. Rows(new.players) = Rows(room.players) \cup {id}
  BY <1>2, <1>3 DEF SetRow, Rows, NoRow, Room, Scores
<1> QED
  BY <1>1, <1>3, <1>4, <1>5 DEF id

\* What leaving changes in a room.
LEMMA PlayerQuitEffect ==
    ASSUME NEW room \in Room, NEW id \in TankIds, room.playerNum > 0
    PROVE  LET new == PlayerQuit(room, id)
           IN  /\ new \in Room
               /\ new.usedTankId = room.usedTankId \ {id}
               /\ Rows(new.players) = Rows(room.players) \ {id}
               /\ new.playerNum = room.playerNum - 1
               /\ new.cap = room.cap
               /\ new.status = room.status
               /\ new.hasWinner = room.hasWinner
               /\ new.restartNeeded = room.restartNeeded
<1> DEFINE new == PlayerQuit(room, id)
<1>1. id \in PlayerIds
  BY MaxTankIdAssumption DEF TankIds, PlayerIds
<1>2. SetRow(room.players, id, NoRow) \in Scores
  BY <1>1 DEF SetRow, Scores, Room
<1>3. room.playerNum - 1 \in 0..255
  BY DEF Room
<1>4. room.usedTankId \ {id} \in SUBSET TankIds
  BY DEF Room
<1>5. new \in Room
  BY <1>2, <1>3, <1>4 DEF PlayerQuit, Room
<1>6. /\ new.usedTankId = room.usedTankId \ {id}
      /\ new.players = SetRow(room.players, id, NoRow)
      /\ new.playerNum = room.playerNum - 1
      /\ new.cap = room.cap
      /\ new.status = room.status
      /\ new.hasWinner = room.hasWinner
      /\ new.restartNeeded = room.restartNeeded
  BY DEF PlayerQuit, Room
<1>7. Rows(new.players) = Rows(room.players) \ {id}
  BY <1>1, <1>6 DEF SetRow, Rows, NoRow, Room, Scores
<1> QED
  BY <1>5, <1>6, <1>7

\* A room in which init has run has a tank for each player.
LEMMA InitRoundEffect ==
    ASSUME NEW room \in Room
    PROVE  LET new == InitRound(room)
           IN  /\ new \in Room
               /\ new.tanks = Rows(room.players)
               /\ new.survivors = Cardinality(new.tanks)
               /\ ~new.hasWinner
               /\ new.players = room.players
               /\ new.usedTankId = room.usedTankId
               /\ new.playerNum = room.playerNum
               /\ new.cap = room.cap
               /\ new.status = room.status
               /\ new.restartNeeded = room.restartNeeded
<1>1. /\ Rows(room.players) \in SUBSET PlayerIds
      /\ Cardinality(Rows(room.players)) \in Int
  BY RowsFinite DEF Room
<1> QED
  BY <1>1 DEF InitRound, Room

\* setStatus changes the status of a room and nothing else.
LEMMA SetStatusEffect ==
    ASSUME NEW room \in Room, NEW status \in RoomStatus
    PROVE  LET new == SetStatus(room, status)
           IN  /\ new \in Room
               /\ new.status = status
               /\ new.players = room.players
               /\ new.tanks = room.tanks
               /\ new.survivors = room.survivors
               /\ new.hasWinner = room.hasWinner
               /\ new.usedTankId = room.usedTankId
               /\ new.playerNum = room.playerNum
               /\ new.cap = room.cap
               /\ new.restartNeeded = room.restartNeeded
BY DEF SetStatus, Room

\* What is left of a room after moveAll and needRestart: `after` is the room
\* between the two calls, `new` the room in the end.
TickLeaves(room, dead, hits, winner, after, new) ==
    /\ new \in Room
    /\ NeedRestart(after) <=> winner # NoWinner
    /\ new.hasWinner => room.hasWinner \/ winner # NoWinner
    /\ new.tanks = room.tanks \ dead
    /\ new.survivors = room.survivors - hits
    /\ Cardinality(dead) <= hits
    /\ Rows(new.players) = Rows(room.players)
    /\ new.usedTankId = room.usedTankId
    /\ new.playerNum = room.playerNum
    /\ new.cap = room.cap
    /\ ~new.restartNeeded

\* Only a tank of the room can win, so no row is added to its score table.
LEMMA MoveAllEffect ==
    ASSUME NEW room \in Room, ~room.restartNeeded,
           NEW dead \in SUBSET room.tanks, NEW hits \in 0..MaxHits,
           NEW winner \in room.tanks \cup {NoWinner},
           room.tanks \subseteq Rows(room.players),
           MoveAllMay(room, dead, hits, winner)
    PROVE  LET after == MoveAll(room, dead, hits, winner)
           IN  TickLeaves(room, dead, hits, winner, after, ClearRestart(after))
<1> DEFINE hurt == AfterHits(room, dead, hits)
           after == MoveAll(room, dead, hits, winner)
           new == ClearRestart(after)
<1>1. Cardinality(dead) <= hits
  BY DEF MoveAllMay, HitsPossible
<1>2. /\ hurt \in Room
      /\ hurt.tanks = room.tanks \ dead
      /\ hurt.survivors = room.survivors - hits
      /\ hurt.players = room.players
      /\ hurt.usedTankId = room.usedTankId
      /\ hurt.playerNum = room.playerNum
      /\ hurt.cap = room.cap
      /\ hurt.status = room.status
      /\ hurt.hasWinner = room.hasWinner
      /\ hurt.restartNeeded = room.restartNeeded
  <2>1. room.tanks \ dead \in SUBSET PlayerIds /\ room.survivors - hits \in Int
    BY MaxHitsAssumption DEF Room
  <2> QED
    BY <2>1 DEF AfterHits, Room
<1>3. CASE winner = NoWinner
  <2>1. after = hurt
    BY <1>3 DEF MoveAll
  <2>a. after \in Room
    BY <1>2, <2>1
  <2> HIDE DEF hurt, after
  <2>2. new \in Room
    BY <2>a DEF ClearRestart, Room
  <2>3. /\ new.tanks = hurt.tanks /\ new.survivors = hurt.survivors
        /\ new.players = hurt.players /\ new.usedTankId = hurt.usedTankId
        /\ new.playerNum = hurt.playerNum /\ new.cap = hurt.cap
        /\ new.status = hurt.status /\ new.hasWinner = hurt.hasWinner
        /\ ~new.restartNeeded
    BY <1>2, <2>1 DEF ClearRestart, Room
  <2> QED
    BY <1>1, <1>2, <1>3, <2>1, <2>2, <2>3 DEF NeedRestart, TickLeaves, after
<1>4. CASE winner # NoWinner
  <2> DEFINE row == ScoreOf(room.players, winner) + 1
             players == SetRow(room.players, winner, row)
  <2>1. winner \in PlayerIds /\ room.players[winner] # NoRow
    BY <1>4 DEF Rows
  <2>2. row \in Nat /\ row # NoRow
    BY <2>1 DEF ScoreOf, Room, Scores, NoRow
  <2> HIDE DEF row
  <2>3. players \in Scores /\ Rows(players) = Rows(room.players)
    BY <2>1, <2>2 DEF SetRow, Rows, Room, Scores
  <2>4. after = [hurt EXCEPT !.hasWinner = TRUE, !.restartNeeded = TRUE,
                             !.players = players]
    BY <1>2, <1>4 DEF MoveAll, row
  <2> HIDE DEF hurt, after, players
  <2>5. /\ after \in Room
        /\ after.tanks = hurt.tanks /\ after.survivors = hurt.survivors
        /\ after.players = players /\ after.usedTankId = hurt.usedTankId
        /\ after.playerNum = hurt.playerNum /\ after.cap = hurt.cap
        /\ after.status = hurt.status /\ after.restartNeeded
    BY <1>2, <2>3, <2>4 DEF Room
  <2>6. /\ new \in Room
        /\ new.tanks = after.tanks /\ new.survivors = after.survivors
        /\ new.players = after.players /\ new.usedTankId = after.usedTankId
        /\ new.playerNum = after.playerNum /\ new.cap = after.cap
        /\ new.status = after.status /\ ~new.restartNeeded
    BY <2>5 DEF ClearRestart, Room
  <2> QED
    BY <1>1, <1>2, <1>4, <2>3, <2>5, <2>6 DEF NeedRestart, TickLeaves, after
<1> QED
  BY <1>3, <1>4

----------------------------------------------------------------------------
(* Tasks for the IO thread keep their type. *)

\* What updateRoomsInfo sends is a list of room infos.
LEMMA RoomsInfoTaskType ==
    ASSUME NEW n \in 1..(MaxRoomNum + 1), NEW rs \in [1..(n - 1) -> Room]
    PROVE  RoomsInfoTask(rs) \in ServerTask
<1>1. ASSUME NEW r \in 1..(n - 1)
      PROVE  [id |-> r, cap |-> rs[r].cap, playerNum |-> rs[r].playerNum] \in RoomInfo
  <2>1. rs[r] \in Room /\ r \in RoomIds
    BY MaxRoomNumAssumption DEF RoomIds
  <2> QED
    BY <2>1 DEF Room, RoomInfo
<1>2. RoomInfos(rs) \subseteq RoomInfo
  BY <1>1 DEF RoomInfos
<1> QED
  BY <1>2 DEF RoomsInfoTask, ServerTask

\* Appending one or two tasks to a queue of tasks gives a queue of tasks.
LEMMA PostType ==
    ASSUME NEW queue \in Seq(ServerTask), NEW t \in ServerTask, NEW u \in ServerTask
    PROVE  queue \o <<t>> \in Seq(ServerTask) /\ queue \o <<t, u>> \in Seq(ServerTask)
<1>1. <<t>> \in Seq(ServerTask) /\ <<t, u>> \in Seq(ServerTask)
  OBVIOUS
<1> QED
  BY <1>1, ConcatProperties

\* A notice to the members of a room is a task for the IO thread.
LEMMA NotifyTaskType ==
    ASSUME NEW type \in Notices, NEW users \in SUBSET Users
    PROVE  NotifyTask(type, users) \in ServerTask
BY DEF NotifyTask, ServerTask

----------------------------------------------------------------------------
(* The inductive invariant. *)

\* The server starts without rooms, and so within the invariant.
LEMMA InitInv == Init => TablesInv
<1> SUFFICES ASSUME Init PROVE TablesInv
  OBVIOUS
<1>1. DOMAIN rooms = {} /\ DOMAIN playersInfo = {} /\ 1..(nextRoomId - 1) = {}
  BY DEF Init
<1>2. TablesTypeOK
  <2>1. nextRoomId \in 1..(MaxRoomNum + 1)
    BY MaxRoomNumAssumption DEF Init
  <2>2. rooms \in [1..(nextRoomId - 1) -> Room]
    BY <1>1 DEF Init
  <2>3. playersInfo \in [DOMAIN playersInfo -> PlayerInfo]
    BY <1>1 DEF Init
  <2> QED
    BY <1>1, <2>1, <2>2, <2>3 DEF TablesTypeOK, Init
<1>3. MembersMatch /\ PlayersMatch /\ HeadCount /\ RoundSound /\ RestartPending
  BY <1>1 DEF Init, MembersMatch, PlayersMatch, HeadCount, RoundSound, RestartPending
<1> QED
  BY <1>2, <1>3 DEF TablesInv, TimersOfRooms, Init

\* The rooms are numbered 1..nextRoomId-1, all of them room ids.
LEMMA RoomsType ==
    ASSUME TablesTypeOK
    PROVE  /\ rooms \in [1..(nextRoomId - 1) -> Room]
           /\ DOMAIN rooms = 1..(nextRoomId - 1)
           /\ DOMAIN rooms \subseteq RoomIds
<1>1. rooms \in [1..(nextRoomId - 1) -> Room] /\ nextRoomId \in 1..(MaxRoomNum + 1)
  BY DEF TablesTypeOK
<1>2. 1..(nextRoomId - 1) \subseteq RoomIds
  BY <1>1, MaxRoomNumAssumption DEF RoomIds
<1> QED
  BY <1>1, <1>2

\* A step that changes one room, but neither its members nor their ids, keeps
\* the invariant if it leaves behind a sound round and the timers it needs.
LEMMA RoomStep ==
    ASSUME TablesInv,
           NEW r \in DOMAIN rooms, NEW room \in Room,
           rooms' = [rooms EXCEPT ![r] = room],
           Rows(room.players) = Rows(rooms[r].players),
           room.usedTankId = rooms[r].usedTankId,
           room.playerNum = rooms[r].playerNum,
           room.cap = rooms[r].cap,
           ~room.restartNeeded,
           room.status = "Playing" /\ room.playerNum = room.cap =>
              /\ room.tanks \subseteq Rows(room.players)
              /\ room.survivors <= Cardinality(room.tanks),
           restartTimers' \in [RoomIds -> Nat],
           room.hasWinner => restartTimers'[r] > 0,
           \A s \in RoomIds \ {r} : restartTimers'[s] = restartTimers[s],
           ticking' \subseteq DOMAIN rooms,
           UNCHANGED <<nextRoomId, playersInfo, userIdsInRoom>>
    PROVE  TablesInv'
<1>1. /\ r \in RoomIds
      /\ DOMAIN rooms \subseteq RoomIds
      /\ rooms \in [1..(nextRoomId - 1) -> Room]
      /\ DOMAIN rooms = 1..(nextRoomId - 1)
  BY RoomsType DEF TablesInv
<1>2. /\ rooms' \in [1..(nextRoomId - 1) -> Room]
      /\ DOMAIN rooms' = DOMAIN rooms
      /\ rooms'[r] = room
      /\ \A s \in DOMAIN rooms \ {r} : rooms'[s] = rooms[s]
  BY <1>1
<1>3. TablesTypeOK'
  BY <1>1, <1>2 DEF TablesInv, TablesTypeOK
<1>4. MembersMatch'
  BY <1>2 DEF TablesInv, MembersMatch
<1>5. PlayersMatch'
  BY <1>2 DEF TablesInv, PlayersMatch, PlayerIdsIn
<1>6. HeadCount'
  BY <1>2 DEF TablesInv, HeadCount
<1>7. RoundSound'
  BY <1>2 DEF TablesInv, RoundSound, Status, Full
<1>8. RestartPending'
  BY <1>1, <1>2 DEF TablesInv, RestartPending
<1>9. TimersOfRooms'
  BY <1>2 DEF TablesInv, TimersOfRooms
<1> QED
  BY <1>3, <1>4, <1>5, <1>6, <1>7, <1>8, <1>9 DEF TablesInv

\* A step that only posts tasks or moves on within a tick keeps the invariant.
LEMMA IdleStep ==
    ASSUME TablesInv,
           UNCHANGED <<rooms, nextRoomId, playersInfo, userIdsInRoom,
                       restartTimers>>,
           ticking' \subseteq DOMAIN rooms
    PROVE  TablesInv'
<1>1. TablesTypeOK'
  BY DEF TablesInv, TablesTypeOK
<1>2. MembersMatch' /\ HeadCount'
  BY DEF TablesInv, MembersMatch, HeadCount
<1>3. PlayersMatch'
  BY DEF TablesInv, PlayersMatch, PlayerIdsIn
<1>4. RoundSound' /\ RestartPending' /\ TimersOfRooms'
  BY DEF TablesInv, RoundSound, Status, Full, RestartPending, TimersOfRooms
<1> QED
  BY <1>1, <1>2, <1>3, <1>4 DEF TablesInv

\* manageCreateRoom adds a room without members, under the next number.
LEMMA CreateRoomInv ==
    ASSUME CapsFitTankIds, TablesInv, NEW cap \in Caps, ManageCreateRoom(cap)
    PROVE  TablesInv'
<1> DEFINE r == nextRoomId
<1>1. /\ r \in RoomIds /\ nextRoomId' = r + 1
      /\ rooms' = [s \in DOMAIN rooms \cup {r} |->
                      IF s = r THEN NewRoom(cap) ELSE rooms[s]]
      /\ UNCHANGED <<playersInfo, userIdsInRoom, restartTimers, ticking>>
  BY DEF ManageCreateRoom
<1>2. /\ rooms \in [1..(r - 1) -> Room]
      /\ DOMAIN rooms = 1..(r - 1)
  BY RoomsType DEF TablesInv
<1>3. /\ r \notin DOMAIN rooms
      /\ (1..(r - 1)) \cup {r} = 1..r
      /\ r + 1 \in 1..(MaxRoomNum + 1)
      /\ r + 1 - 1 = r
  BY <1>1, <1>2, MaxRoomNumAssumption DEF RoomIds
<1>4. cap \in 0..255 /\ NewRoom(cap) \in Room
  BY CapsAssumption, NewRoomType
<1>5. /\ rooms' \in [1..(nextRoomId' - 1) -> Room]
      /\ DOMAIN rooms' = DOMAIN rooms \cup {r}
      /\ rooms'[r] = NewRoom(cap)
      /\ \A s \in DOMAIN rooms : rooms'[s] = rooms[s]
  BY <1>1, <1>2, <1>3, <1>4
<1>6. userIdsInRoom[r] = {}
  BY <1>1, <1>3 DEF TablesInv, MembersMatch
<1>7. TablesTypeOK'
  BY <1>1, <1>3, <1>5 DEF TablesInv, TablesTypeOK
<1>8. MembersMatch'
  BY <1>1, <1>5 DEF TablesInv, MembersMatch
<1>9. PlayersMatch'
  BY <1>1, <1>5, <1>6 DEF TablesInv, PlayersMatch, PlayerIdsIn, NewRoom, Rows
<1>10. HeadCount'
  <2>1. NewRoom(cap).playerNum <= NewRoom(cap).cap
    BY <1>4 DEF NewRoom
  <2> QED
    BY <1>1, <1>5, <1>6, <2>1, FS_EmptySet DEF TablesInv, HeadCount, NewRoom
<1>11. RoundSound' /\ RestartPending'
  BY <1>1, <1>5 DEF TablesInv, RoundSound, RestartPending, Status, Full, NewRoom
<1>12. TimersOfRooms'
  BY <1>1, <1>5 DEF TablesInv, TimersOfRooms
<1> QED
  BY <1>7, <1>8, <1>9, <1>10, <1>11, <1>12 DEF TablesInv

\* Whoever enters a room gets an id that is free, and is counted once: the two
\* tables of the Manager and the head count of the room stay in step.
LEMMA EnterRoomInv ==
    ASSUME CapsFitTankIds, TablesInv, NEW u \in Users, NEW r \in DOMAIN rooms,
           u \notin DOMAIN playersInfo, RoomOpen(r), EnterRoom(u, r)
    PROVE  TablesInv' /\ failed' = failed
<1> DEFINE id == GetTankId(rooms[r].usedTankId)
           room == NewPlayer(rooms[r])
           members == userIdsInRoom[r] \cup {u}
<1>1. /\ rooms \in [1..(nextRoomId - 1) -> Room]
      /\ DOMAIN rooms = 1..(nextRoomId - 1)
      /\ DOMAIN rooms \subseteq RoomIds
      /\ r \in RoomIds
      /\ rooms[r] \in Room
  BY RoomsType DEF TablesInv
<1>2. /\ rooms[r].playerNum \in Nat
      /\ rooms[r].cap \in 0..255
      /\ rooms[r].playerNum < rooms[r].cap
      /\ Cardinality(rooms[r].usedTankId) < MaxTankId
  <2>1. rooms[r].cap \in 0..MaxTankId /\ rooms[r].cap \in 0..255
    BY <1>1, CapsAssumption DEF TablesInv, HeadCount, CapsFitTankIds
  <2>2. rooms[r].playerNum \in 0..255
    BY <1>1 DEF Room
  <2> QED
    BY <2>1, <2>2, MaxTankIdAssumption DEF TablesInv, HeadCount, RoomOpen, Full
<1>3. /\ id \in TankIds \ rooms[r].usedTankId
      /\ room \in Room
      /\ room.usedTankId = rooms[r].usedTankId \cup {id}
      /\ Rows(room.players) = Rows(rooms[r].players) \cup {id}
      /\ room.playerNum = rooms[r].playerNum + 1
      /\ room.cap = rooms[r].cap
      /\ room.status # "Playing"
      /\ room.hasWinner = rooms[r].hasWinner
      /\ ~room.restartNeeded
  <2>1. rooms[r].playerNum < 255
    BY <1>2
  <2>2. rooms[r].status # "Playing" /\ ~rooms[r].restartNeeded
    BY DEF RoomOpen, Status, TablesInv, HeadCount
  <2> QED
    BY <1>1, <1>2, <2>1, <2>2, NewPlayerEffect
<1>4. /\ rooms' = [rooms EXCEPT ![r] = room]
      /\ playersInfo' = [v \in DOMAIN playersInfo \cup {u} |->
                            IF v = u THEN [roomId |-> r, playerId |-> id]
                                     ELSE playersInfo[v]]
      /\ userIdsInRoom' = [userIdsInRoom EXCEPT ![r] = members]
      /\ UNCHANGED <<nextRoomId, restartTimers, ticking>>
  BY DEF EnterRoom
<1> HIDE DEF id, room
<1>5. /\ rooms' \in [1..(nextRoomId - 1) -> Room]
      /\ DOMAIN rooms' = DOMAIN rooms
      /\ rooms'[r] = room
      /\ \A s \in DOMAIN rooms \ {r} : rooms'[s] = rooms[s]
  BY <1>1, <1>3, <1>4
<1>6. /\ userIdsInRoom' \in [RoomIds -> SUBSET Users]
      /\ userIdsInRoom'[r] = members
      /\ \A s \in RoomIds \ {r} : userIdsInRoom'[s] = userIdsInRoom[s]
      /\ \A s \in RoomIds : u \notin userIdsInRoom[s]
      /\ \A s \in RoomIds : userIdsInRoom[s] \subseteq DOMAIN playersInfo
  BY <1>1, <1>4 DEF TablesInv, TablesTypeOK, MembersMatch
<1>7. /\ DOMAIN playersInfo' = DOMAIN playersInfo \cup {u}
      /\ playersInfo'[u] = [roomId |-> r, playerId |-> id]
      /\ \A v \in DOMAIN playersInfo : playersInfo'[v] = playersInfo[v]
  BY <1>4
<1>8. /\ playersInfo'[u].roomId = r
      /\ playersInfo'[u].playerId = id
  BY <1>7
<1>9. /\ IsFiniteSet(members)
      /\ Cardinality(members) = room.playerNum
      /\ Cardinality(room.usedTankId) = room.playerNum
  <2>1. IsFiniteSet(rooms[r].usedTankId)
    BY <1>1, TankIdsFinite, FS_Subset DEF Room
  <2>2. /\ IsFiniteSet(userIdsInRoom[r])
        /\ rooms[r].playerNum = Cardinality(userIdsInRoom[r])
        /\ rooms[r].playerNum = Cardinality(rooms[r].usedTankId)
    BY DEF TablesInv, HeadCount
  <2>3. Cardinality(members) = Cardinality(userIdsInRoom[r]) + 1 /\ IsFiniteSet(members)
    BY <1>1, <1>6, <2>2, FS_AddElement
  <2>4. Cardinality(rooms[r].usedTankId \cup {id}) = Cardinality(rooms[r].usedTankId) + 1
    BY <1>3, <2>1, FS_AddElement
  <2> QED
    BY <1>3, <2>2, <2>3, <2>4
<1>10. failed' = failed
  <2>1. MayAddPlayer(rooms[r])
    BY <1>2 DEF MayAddPlayer, RoomOpen, Status
  <2>2. rooms'[r].playerNum = Cardinality(userIdsInRoom'[r])
    BY <1>5, <1>6, <1>9
  <2> QED
    BY <2>1, <2>2 DEF EnterRoom, Asserting, Check
<1>11. TablesTypeOK'
  <2>1. playersInfo' \in [DOMAIN playersInfo' -> PlayerInfo]
    <3>1. id \in PlayerIds
      BY <1>3, MaxTankIdAssumption DEF TankIds, PlayerIds
    <3> QED
      BY <1>1, <1>4, <3>1 DEF PlayerInfo, TablesInv, TablesTypeOK
  <2> QED
    BY <1>4, <1>5, <1>6, <1>7, <2>1 DEF TablesInv, TablesTypeOK
<1>12. MembersMatch'
  <2>1. ASSUME NEW s \in RoomIds
        PROVE  userIdsInRoom'[s] =
                  {v \in DOMAIN playersInfo' : playersInfo'[v].roomId = s}
    BY <1>6, <1>7, <1>8 DEF TablesInv, MembersMatch
  <2> QED
    BY <1>5, <1>7, <1>8, <2>1 DEF TablesInv, MembersMatch
<1>13. PlayersMatch'
  <2>1. ASSUME NEW s \in DOMAIN rooms \ {r}, NEW v \in userIdsInRoom'[s]
        PROVE  v \in userIdsInRoom[s] /\ playersInfo'[v] = playersInfo[v]
    BY <1>1, <1>6, <1>7
  <2>2. ASSUME NEW v \in members
        PROVE  playersInfo'[v].playerId =
                  IF v = u THEN id ELSE playersInfo[v].playerId
    BY <1>1, <1>6, <1>7, <1>8
  <2>3. ASSUME NEW s \in DOMAIN rooms \ {r}
        PROVE  PlayerIdsIn(s)' = PlayerIdsIn(s)
    BY <1>1, <1>6, <2>1 DEF PlayerIdsIn
  <2>4. PlayerIdsIn(r)' = PlayerIdsIn(r) \cup {id}
    <3>1. PlayerIdsIn(r)' = {playersInfo'[v].playerId : v \in members}
      BY <1>6 DEF PlayerIdsIn
    <3>2. u \notin userIdsInRoom[r]
      BY <1>1, <1>6
    <3> QED
      BY <2>2, <3>1, <3>2 DEF PlayerIdsIn
  <2>5. \A v \in userIdsInRoom[r] : playersInfo[v].playerId # id
    BY <1>3 DEF TablesInv, PlayersMatch, PlayerIdsIn
  <2>6. \A v, w \in members :
          playersInfo'[v].playerId = playersInfo'[w].playerId => v = w
    BY <1>6, <2>2, <2>5 DEF TablesInv, PlayersMatch
  <2>7. /\ rooms'[r].usedTankId = PlayerIdsIn(r)'
        /\ Rows(rooms'[r].players) = PlayerIdsIn(r)'
        /\ \A v, w \in userIdsInRoom'[r] :
              playersInfo'[v].playerId = playersInfo'[w].playerId => v = w
    BY <1>3, <1>5, <1>6, <2>4, <2>6 DEF TablesInv, PlayersMatch
  <2>8. ASSUME NEW s \in DOMAIN rooms \ {r}
        PROVE  /\ rooms'[s].usedTankId = PlayerIdsIn(s)'
               /\ Rows(rooms'[s].players) = PlayerIdsIn(s)'
               /\ \A v, w \in userIdsInRoom'[s] :
                     playersInfo'[v].playerId = playersInfo'[w].playerId => v = w
    BY <1>5, <2>1, <2>3 DEF TablesInv, PlayersMatch
  <2> QED
    BY <1>5, <2>7, <2>8 DEF PlayersMatch
<1>14. HeadCount'
  <2>1. room.playerNum <= room.cap
    BY <1>2, <1>3
  <2>2. /\ IsFiniteSet(userIdsInRoom'[r])
        /\ rooms'[r].playerNum = Cardinality(userIdsInRoom'[r])
        /\ rooms'[r].playerNum = Cardinality(rooms'[r].usedTankId)
        /\ rooms'[r].playerNum <= rooms'[r].cap
        /\ rooms'[r].cap \in Caps
        /\ ~rooms'[r].restartNeeded
    BY <1>3, <1>5, <1>6, <1>9, <2>1 DEF TablesInv, HeadCount
  <2>3. \A s \in DOMAIN rooms \ {r} :
          rooms'[s] = rooms[s] /\ userIdsInRoom'[s] = userIdsInRoom[s]
    BY <1>1, <1>5, <1>6
  <2> QED
    BY <1>5, <2>2, <2>3 DEF TablesInv, HeadCount
<1>15. RoundSound' /\ RestartPending' /\ TimersOfRooms'
  BY <1>1, <1>3, <1>4, <1>5
     DEF TablesInv, RoundSound, RestartPending, TimersOfRooms, Status, Full
<1> QED
  BY <1>10, <1>11, <1>12, <1>13, <1>14, <1>15 DEF TablesInv

\* Whoever leaves a room frees one id and is counted off once.
LEMMA LeaveRoomInv ==
    ASSUME CapsFitTankIds, TablesInv, NEW u \in DOMAIN playersInfo, NEW r, NEW id,
           r = playersInfo[u].roomId, id = playersInfo[u].playerId,
           LeaveRoom(u, r, id)
    PROVE  TablesInv' /\ failed' = failed
<1> DEFINE room == PlayerQuit(rooms[r], id)
           members == userIdsInRoom[r] \ {u}
<1>1. /\ rooms \in [1..(nextRoomId - 1) -> Room]
      /\ DOMAIN rooms = 1..(nextRoomId - 1)
      /\ DOMAIN rooms \subseteq RoomIds
      /\ r \in DOMAIN rooms /\ r \in RoomIds
      /\ rooms[r] \in Room
      /\ u \in userIdsInRoom[r]
      /\ u \in Users
  <2>1. r \in DOMAIN rooms
    BY DEF TablesInv, MembersMatch
  <2>2. r \in RoomIds /\ rooms[r] \in Room
    BY <2>1, RoomsType DEF TablesInv
  <2>3. u \in userIdsInRoom[r]
    BY <2>2 DEF TablesInv, MembersMatch
  <2> QED
    BY <2>1, <2>2, <2>3, RoomsType DEF TablesInv, TablesTypeOK
<1>2. /\ id \in rooms[r].usedTankId
      /\ id \in TankIds
  BY <1>1 DEF TablesInv, PlayersMatch, PlayerIdsIn, Room
<1>3. /\ IsFiniteSet(members)
      /\ rooms[r].playerNum \in Nat /\ rooms[r].playerNum > 0
      /\ Cardinality(members) = rooms[r].playerNum - 1
      /\ Cardinality(rooms[r].usedTankId \ {id}) = rooms[r].playerNum - 1
  <2>1. /\ IsFiniteSet(userIdsInRoom[r])
        /\ rooms[r].playerNum = Cardinality(userIdsInRoom[r])
        /\ rooms[r].playerNum = Cardinality(rooms[r].usedTankId)
    BY <1>1 DEF TablesInv, HeadCount
  <2>2. IsFiniteSet(rooms[r].usedTankId)
    BY <1>1, TankIdsFinite, FS_Subset DEF Room
  <2>3. /\ IsFiniteSet(members) /\ Cardinality(members) \in Nat
        /\ Cardinality(members) = Cardinality(userIdsInRoom[r]) - 1
    BY <1>1, <2>1, FS_RemoveElement, FS_CardinalityType
  <2>4. Cardinality(rooms[r].usedTankId \ {id}) = Cardinality(rooms[r].usedTankId) - 1
    BY <1>2, <2>2, FS_RemoveElement
  <2>5. Cardinality(userIdsInRoom[r]) \in Nat
    BY <2>1, FS_CardinalityType
  <2> QED
    BY <2>1, <2>3, <2>4, <2>5
<1>4. /\ room \in Room
      /\ room.usedTankId = rooms[r].usedTankId \ {id}
      /\ Rows(room.players) = Rows(rooms[r].players) \ {id}
      /\ room.playerNum = rooms[r].playerNum - 1
      /\ room.cap = rooms[r].cap
      /\ room.status = rooms[r].status
      /\ room.hasWinner = rooms[r].hasWinner
      /\ room.restartNeeded = rooms[r].restartNeeded
  BY <1>1, <1>2, <1>3, PlayerQuitEffect
<1>5. /\ rooms' = [rooms EXCEPT ![r] = room]
      /\ playersInfo' = [v \in DOMAIN playersInfo \ {u} |-> playersInfo[v]]
      /\ userIdsInRoom' = [userIdsInRoom EXCEPT ![r] = members]
      /\ UNCHANGED <<nextRoomId, restartTimers, ticking>>
  BY DEF LeaveRoom, ErasePlayer, Restrict
<1>6. /\ rooms[r].playerNum <= rooms[r].cap
      /\ rooms[r].cap \in Caps /\ rooms[r].cap \in Nat
      /\ ~rooms[r].restartNeeded
  <2>1. rooms[r].cap \in 0..255
    BY <1>1 DEF Room
  <2>2. /\ rooms[r].playerNum <= rooms[r].cap
        /\ rooms[r].cap \in Caps
        /\ ~rooms[r].restartNeeded
    BY <1>1 DEF TablesInv, HeadCount
  <2> QED
    BY <2>1, <2>2
<1> HIDE DEF room
<1>7. /\ rooms' \in [1..(nextRoomId - 1) -> Room]
      /\ DOMAIN rooms' = DOMAIN rooms
      /\ rooms'[r] = room
      /\ \A s \in DOMAIN rooms \ {r} : rooms'[s] = rooms[s]
  BY <1>1, <1>4, <1>5
<1>8. /\ userIdsInRoom' \in [RoomIds -> SUBSET Users]
      /\ userIdsInRoom'[r] = members
      /\ \A s \in RoomIds \ {r} : userIdsInRoom'[s] = userIdsInRoom[s]
  BY <1>1, <1>5 DEF TablesInv, TablesTypeOK
<1>9. /\ DOMAIN playersInfo' = DOMAIN playersInfo \ {u}
      /\ \A v \in DOMAIN playersInfo \ {u} : playersInfo'[v] = playersInfo[v]
  BY <1>5
<1>10. failed' = failed
  <2>1. MayReturnTankId(id)
    BY <1>2 DEF MayReturnTankId
  <2>2. rooms'[r].playerNum = Cardinality(userIdsInRoom'[r])
    BY <1>3, <1>4, <1>7, <1>8
  <2> QED
    BY <2>1, <2>2 DEF LeaveRoom, Asserting, Check
<1>11. TablesTypeOK'
  <2>1. playersInfo' \in [DOMAIN playersInfo' -> PlayerInfo]
    BY <1>5 DEF TablesInv, TablesTypeOK
  <2>2. DOMAIN playersInfo' \subseteq Users
    BY <1>9 DEF TablesInv, TablesTypeOK
  <2> QED
    BY <1>5, <1>7, <1>8, <2>1, <2>2 DEF TablesInv, TablesTypeOK
<1>12. MembersMatch'
  <2>1. ASSUME NEW s \in RoomIds
        PROVE  userIdsInRoom'[s] =
                  {v \in DOMAIN playersInfo' : playersInfo'[v].roomId = s}
    <3>1. CASE s = r
      BY <1>8, <1>9, <3>1 DEF TablesInv, MembersMatch
    <3>2. CASE s # r
      <4>1. u \notin userIdsInRoom[s]
        BY <3>2 DEF TablesInv, MembersMatch
      <4> QED
        BY <1>8, <1>9, <3>2, <4>1 DEF TablesInv, MembersMatch
    <3> QED
      BY <3>1, <3>2
  <2> QED
    BY <1>7, <1>9, <2>1 DEF TablesInv, MembersMatch
<1>13. PlayersMatch'
  <2>1. ASSUME NEW s \in DOMAIN rooms, NEW v \in userIdsInRoom'[s]
        PROVE  v \in userIdsInRoom[s] /\ v # u /\ playersInfo'[v] = playersInfo[v]
    <3>1. v \in userIdsInRoom[s]
      BY <1>1, <1>8
    <3>2. v # u
      BY <1>1, <1>8 DEF TablesInv, MembersMatch
    <3> QED
      BY <1>1, <1>9, <3>1, <3>2 DEF TablesInv, MembersMatch
  <2>2. ASSUME NEW s \in DOMAIN rooms \ {r}
        PROVE  PlayerIdsIn(s)' = PlayerIdsIn(s)
    BY <1>1, <1>8, <2>1 DEF PlayerIdsIn
  <2>3. PlayerIdsIn(r)' = PlayerIdsIn(r) \ {id}
    <3>1. PlayerIdsIn(r)' = {playersInfo[v].playerId : v \in members}
      BY <1>1, <1>8, <2>1 DEF PlayerIdsIn
    <3>2. \A v \in members : playersInfo[v].playerId # id
      BY <1>1 DEF TablesInv, PlayersMatch
    <3> QED
      BY <1>1, <3>1, <3>2 DEF PlayerIdsIn
  <2>4. /\ rooms'[r].usedTankId = PlayerIdsIn(r)'
        /\ Rows(rooms'[r].players) = PlayerIdsIn(r)'
    BY <1>1, <1>4, <1>7, <2>3 DEF TablesInv, PlayersMatch
  <2>5. ASSUME NEW s \in DOMAIN rooms \ {r}
        PROVE  /\ rooms'[s].usedTankId = PlayerIdsIn(s)'
               /\ Rows(rooms'[s].players) = PlayerIdsIn(s)'
    BY <1>7, <2>2 DEF TablesInv, PlayersMatch
  <2>6. \A s \in DOMAIN rooms : \A v, w \in userIdsInRoom'[s] :
          playersInfo'[v].playerId = playersInfo'[w].playerId => v = w
    BY <2>1 DEF TablesInv, PlayersMatch
  <2> QED
    BY <1>7, <2>4, <2>5, <2>6 DEF PlayersMatch
<1>14. HeadCount'
  <2>1. /\ IsFiniteSet(userIdsInRoom'[r])
        /\ rooms'[r].playerNum = Cardinality(userIdsInRoom'[r])
        /\ rooms'[r].playerNum = Cardinality(rooms'[r].usedTankId)
        /\ rooms'[r].playerNum <= rooms'[r].cap
        /\ rooms'[r].cap \in Caps
        /\ ~rooms'[r].restartNeeded
    <3>1. rooms[r].playerNum - 1 <= rooms[r].cap
      BY <1>3, <1>6
    <3> QED
      BY <1>3, <1>4, <1>6, <1>7, <1>8, <3>1
  <2>2. \A s \in DOMAIN rooms \ {r} :
          rooms'[s] = rooms[s] /\ userIdsInRoom'[s] = userIdsInRoom[s]
    BY <1>1, <1>7, <1>8
  <2> QED
    BY <1>7, <2>1, <2>2 DEF TablesInv, HeadCount
<1>15. RoundSound'
  <2>1. rooms'[r].playerNum # rooms'[r].cap
    BY <1>3, <1>4, <1>6, <1>7
  <2> QED
    BY <1>7, <2>1 DEF TablesInv, RoundSound, Status, Full
<1>16. RestartPending' /\ TimersOfRooms'
  BY <1>1, <1>4, <1>5, <1>7 DEF TablesInv, RestartPending, TimersOfRooms
<1> QED
  BY <1>10, <1>11, <1>12, <1>13, <1>14, <1>15, <1>16 DEF TablesInv

\* Facts about room r that every step of manageGames starts from.
LEMMA RoomFacts ==
    ASSUME TablesInv, NEW r \in DOMAIN rooms
    PROVE  /\ r \in RoomIds
           /\ rooms[r] \in Room
           /\ userIdsInRoom[r] \in SUBSET Users
           /\ restartTimers \in [RoomIds -> Nat]
           /\ ~rooms[r].restartNeeded
           /\ rooms[r].playerNum \in Nat /\ rooms[r].cap \in Nat
           /\ rooms[r].playerNum <= rooms[r].cap
<1>1. r \in RoomIds /\ rooms[r] \in Room
  BY RoomsType DEF TablesInv
<1>2. rooms[r].playerNum \in 0..255 /\ rooms[r].cap \in 0..255
  BY <1>1 DEF Room
<1>a. rooms[r].playerNum \in Nat /\ rooms[r].cap \in Nat
  BY <1>2
<1>3. ~rooms[r].restartNeeded /\ rooms[r].playerNum <= rooms[r].cap
  BY DEF TablesInv, HeadCount
<1>4. /\ userIdsInRoom[r] \in SUBSET Users
      /\ restartTimers \in [RoomIds -> Nat]
  BY <1>1 DEF TablesInv, TablesTypeOK
<1> QED
  BY <1>1, <1>a, <1>3, <1>4

\* A room after init is sound: a tank per row, and as many survivors.
LEMMA BeginGameInv ==
    ASSUME TablesInv, NEW r \in DOMAIN rooms, BeginGame(r),
           ticking' \subseteq DOMAIN rooms,
           UNCHANGED <<nextRoomId, playersInfo, userIdsInRoom>>
    PROVE  TablesInv'
<1> DEFINE started == SetStatus(rooms[r], "Playing")
           room == InitRound(started)
<1>1. /\ started \in Room
      /\ started.players = rooms[r].players
      /\ started.usedTankId = rooms[r].usedTankId
      /\ started.playerNum = rooms[r].playerNum
      /\ started.cap = rooms[r].cap
      /\ ~started.restartNeeded
  BY RoomFacts, SetStatusEffect DEF RoomStatus
<1> HIDE DEF started
<1>2. /\ room \in Room
      /\ room.tanks = Rows(started.players)
      /\ room.survivors = Cardinality(room.tanks)
      /\ ~room.hasWinner
      /\ room.players = started.players
      /\ room.usedTankId = started.usedTankId
      /\ room.playerNum = started.playerNum
      /\ room.cap = started.cap
      /\ room.restartNeeded = started.restartNeeded
  BY <1>1, InitRoundEffect
<1>3. /\ room.tanks \subseteq Rows(room.players)
      /\ room.survivors <= Cardinality(room.tanks)
      /\ Rows(room.players) = Rows(rooms[r].players)
  <2>1. Cardinality(room.tanks) \in Nat
    BY <1>1, <1>2, RowsFinite DEF Room
  <2> QED
    BY <1>1, <1>2, <2>1
<1>4. /\ rooms' = [rooms EXCEPT ![r] = room]
      /\ restartTimers' = restartTimers
  BY DEF BeginGame, started
<1> HIDE DEF room
<1> QED
  BY <1>1, <1>2, <1>3, <1>4, RoomFacts, RoomStep

\* The end of a game leaves the round, and the timer it may wait for, alone.
LEMMA EndGameInv ==
    ASSUME TablesInv, NEW r \in DOMAIN rooms, EndGame(r),
           ticking' \subseteq DOMAIN rooms,
           UNCHANGED <<nextRoomId, playersInfo, userIdsInRoom>>
    PROVE  TablesInv'
<1> DEFINE room == SetStatus(rooms[r], "Waiting")
<1>1. /\ room \in Room
      /\ room.status = "Waiting"
      /\ room.players = rooms[r].players
      /\ room.usedTankId = rooms[r].usedTankId
      /\ room.playerNum = rooms[r].playerNum
      /\ room.cap = rooms[r].cap
      /\ room.hasWinner = rooms[r].hasWinner
      /\ ~room.restartNeeded
  BY RoomFacts, SetStatusEffect DEF RoomStatus
<1>2. /\ rooms' = [rooms EXCEPT ![r] = room]
      /\ restartTimers' = restartTimers
  BY DEF EndGame
<1>3. room.hasWinner => restartTimers'[r] > 0
  BY <1>1, <1>2 DEF TablesInv, RestartPending
<1> HIDE DEF room
<1> QED
  BY <1>1, <1>2, <1>3, RoomFacts, RoomStep

\* A tick of a game takes at least one survivor for each tank it removes, and
\* starts a timer when it finds a winner.
LEMMA PlayGameInv ==
    ASSUME TablesInv, NEW r \in DOMAIN rooms, PlayGame(r),
           ticking' \subseteq DOMAIN rooms,
           UNCHANGED <<nextRoomId, playersInfo, userIdsInRoom>>
    PROVE  TablesInv'
<1>1. PICK dead \in SUBSET rooms[r].tanks, hits \in 0..MaxHits,
           winner \in rooms[r].tanks \cup {NoWinner} :
        LET after == MoveAll(rooms[r], dead, hits, winner)
        IN  /\ MoveAllMay(rooms[r], dead, hits, winner)
            /\ rooms' = [rooms EXCEPT ![r] = ClearRestart(after)]
            /\ IF NeedRestart(after)
               THEN restartTimers' = [restartTimers EXCEPT ![r] = @ + 1]
               ELSE UNCHANGED restartTimers
  BY DEF PlayGame
<1> DEFINE after == MoveAll(rooms[r], dead, hits, winner)
           room == ClearRestart(after)
<1>2. /\ rooms[r].tanks \subseteq Rows(rooms[r].players)
      /\ rooms[r].survivors <= Cardinality(rooms[r].tanks)
  <2>1. Status(r) = "Playing" /\ Full(r)
    BY RoomFacts DEF PlayGame, Full
  <2> QED
    BY <2>1 DEF TablesInv, RoundSound
<1>a. TickLeaves(rooms[r], dead, hits, winner, after, room)
  <2>1. rooms[r] \in Room /\ ~rooms[r].restartNeeded
    BY RoomFacts
  <2>2. MoveAllMay(rooms[r], dead, hits, winner)
    BY <1>1
  <2>3. /\ dead \in SUBSET rooms[r].tanks
        /\ hits \in 0..MaxHits
        /\ winner \in rooms[r].tanks \cup {NoWinner}
    BY <1>1
  <2>4. rooms[r].tanks \subseteq Rows(rooms[r].players)
    BY <1>2
  <2> QED
    BY <2>1, <2>2, <2>3, <2>4, MoveAllEffect
<1>3. /\ room \in Room
      /\ NeedRestart(after) <=> winner # NoWinner
      /\ room.hasWinner => rooms[r].hasWinner \/ winner # NoWinner
      /\ room.tanks = rooms[r].tanks \ dead
      /\ room.survivors = rooms[r].survivors - hits
      /\ Cardinality(dead) <= hits
      /\ Rows(room.players) = Rows(rooms[r].players)
      /\ room.usedTankId = rooms[r].usedTankId
      /\ room.playerNum = rooms[r].playerNum
      /\ room.cap = rooms[r].cap
      /\ ~room.restartNeeded
  BY <1>a DEF TickLeaves
<1>4. /\ rooms' = [rooms EXCEPT ![r] = room]
      /\ NeedRestart(after) => restartTimers' = [restartTimers EXCEPT ![r] = @ + 1]
      /\ ~NeedRestart(after) => restartTimers' = restartTimers
  BY <1>1
<1>5. /\ room.tanks \subseteq Rows(room.players)
      /\ room.survivors <= Cardinality(room.tanks)
  <2>1. IsFiniteSet(rooms[r].tanks)
    BY <1>2, RoomFacts, RowsFinite, FS_Subset DEF Room
  <2>2. /\ Cardinality(rooms[r].tanks \ dead)
              = Cardinality(rooms[r].tanks) - Cardinality(rooms[r].tanks \cap dead)
        /\ rooms[r].tanks \cap dead = dead
    BY <2>1, FS_Difference
  <2>3. /\ Cardinality(rooms[r].tanks) \in Nat
        /\ Cardinality(dead) \in Nat
        /\ rooms[r].survivors \in Int
        /\ hits \in Int
    BY <2>1, RoomFacts, FS_Subset, FS_CardinalityType, MaxHitsAssumption DEF Room
  <2>4. Cardinality(room.tanks) = Cardinality(rooms[r].tanks) - Cardinality(dead)
    BY <1>3, <2>2
  <2>5. room.survivors <= Cardinality(room.tanks)
    BY <1>2, <1>3, <2>3, <2>4
  <2> QED
    BY <1>2, <1>3, <2>5
<1>6. /\ restartTimers' \in [RoomIds -> Nat]
      /\ room.hasWinner => restartTimers'[r] > 0
      /\ \A s \in RoomIds \ {r} : restartTimers'[s] = restartTimers[s]
  <2>1. CASE NeedRestart(after)
    <3>1. restartTimers[r] + 1 \in Nat /\ restartTimers[r] + 1 > 0
      BY RoomFacts
    <3> QED
      BY <1>4, <2>1, <3>1, RoomFacts
  <2>2. CASE ~NeedRestart(after)
    BY <1>3, <1>4, <2>2, RoomFacts DEF TablesInv, RestartPending
  <2> QED
    BY <2>1, <2>2
<1> HIDE DEF room
<1> QED
  BY <1>3, <1>4, <1>5, <1>6, RoomStep

\* The timer that starts the next round also decides it anew, so it is no
\* longer owed one; a timer that comes late finds a room that is still sound.
LEMMA RestartRoomInv ==
    ASSUME TablesInv, NEW r \in RoomIds, RestartRoom(r)
    PROVE  TablesInv'
<1> DEFINE room == InitRound(rooms[r])
<1>1. r \in DOMAIN rooms
  BY DEF RestartRoom, TablesInv, TimersOfRooms, TablesTypeOK
<1>2. /\ room \in Room
      /\ room.tanks = Rows(rooms[r].players)
      /\ room.survivors = Cardinality(room.tanks)
      /\ ~room.hasWinner
      /\ room.players = rooms[r].players
      /\ room.usedTankId = rooms[r].usedTankId
      /\ room.playerNum = rooms[r].playerNum
      /\ room.cap = rooms[r].cap
      /\ ~room.restartNeeded
  BY <1>1, RoomFacts, InitRoundEffect
<1>3. /\ room.tanks \subseteq Rows(room.players)
      /\ room.survivors <= Cardinality(room.tanks)
  <2>1. Cardinality(room.tanks) \in Nat
    BY <1>1, <1>2, RoomFacts, RowsFinite DEF Room
  <2> QED
    BY <1>2, <2>1
<1>4. /\ rooms' = [rooms EXCEPT ![r] = room]
      /\ restartTimers' = [restartTimers EXCEPT ![r] = @ - 1]
      /\ restartTimers[r] > 0
      /\ UNCHANGED <<nextRoomId, playersInfo, userIdsInRoom, ticking>>
  BY DEF RestartRoom
<1>5. /\ restartTimers' \in [RoomIds -> Nat]
      /\ \A s \in RoomIds \ {r} : restartTimers'[s] = restartTimers[s]
  <2>1. restartTimers[r] - 1 \in Nat
    BY <1>1, <1>4, RoomFacts
  <2> QED
    BY <1>1, <1>4, <2>1, RoomFacts
<1>6. ticking' \subseteq DOMAIN rooms
  BY <1>4 DEF TablesInv, TablesTypeOK
<1> HIDE DEF room
<1> QED
  BY <1>1, <1>2, <1>3, <1>4, <1>5, <1>6, RoomStep

\* Every step of the Manager, on whatever behalf, keeps the invariant of the
\* tables and fails no assertion.
LEMMA CreateJoinInv ==
    ASSUME CapsFitTankIds, TablesInv,
           \/ \E cap \in Caps : ManageCreateRoom(cap)
           \/ \E u \in Users, r \in 0..MaxRoomNum : ManageJoinRoom(u, r)
    PROVE  TablesInv' /\ failed' = failed
<1>0. ticking \subseteq DOMAIN rooms
  BY DEF TablesInv, TablesTypeOK
<1>1. ASSUME NEW cap \in Caps, ManageCreateRoom(cap)
      PROVE  TablesInv' /\ failed' = failed
  BY <1>1, CreateRoomInv DEF ManageCreateRoom
<1>2. ASSUME NEW u \in Users, NEW r \in 0..MaxRoomNum, ManageJoinRoom(u, r)
      PROVE  TablesInv' /\ failed' = failed
  <2>1. ASSUME NEW code \in JoinCodes, RefuseJoin(u, code)
        PROVE  TablesInv' /\ failed' = failed
    BY <1>0, <2>1, IdleStep DEF RefuseJoin, managerVars
  <2>2. CASE /\ r \in DOMAIN rooms /\ u \notin DOMAIN playersInfo
             /\ RoomOpen(r) /\ EnterRoom(u, r)
    BY <2>2, EnterRoomInv
  <2> QED
    BY <1>2, <2>1, <2>2 DEF ManageJoinRoom, JoinCodes
<1> QED
  BY <1>1, <1>2

LEMMA QuitInv ==
    ASSUME CapsFitTankIds, TablesInv, NEW u \in Users, ManageQuitRoom(u)
    PROVE  TablesInv' /\ failed' = failed
<1>0. ticking \subseteq DOMAIN rooms
  BY DEF TablesInv, TablesTypeOK
<1>1. CASE u \in DOMAIN playersInfo /\ playersInfo[u].roomId \in DOMAIN rooms
  BY <1>1, LeaveRoomInv DEF ManageQuitRoom
<1>2. CASE ~(u \in DOMAIN playersInfo /\ playersInfo[u].roomId \in DOMAIN rooms)
  BY <1>0, <1>2, IdleStep DEF ManageQuitRoom, vars, managerVars
<1> QED
  BY <1>1, <1>2

LEMMA TimersInv ==
    ASSUME CapsFitTankIds, TablesInv,
           Tick \/ \E r \in RoomIds : RestartRoom(r)
    PROVE  TablesInv' /\ failed' = failed
<1>0. ticking \subseteq DOMAIN rooms
  BY DEF TablesInv, TablesTypeOK
<1>1. ASSUME ManageGames PROVE TablesInv' /\ failed' = failed
  BY <1>0, <1>1, IdleStep DEF ManageGames
<1>2. ASSUME NEW r \in ticking, ManageRoom(r) PROVE TablesInv' /\ failed' = failed
  <2>1. /\ r \in DOMAIN rooms
        /\ ticking' \subseteq DOMAIN rooms
        /\ UNCHANGED <<nextRoomId, playersInfo, userIdsInRoom, failed>>
    BY <1>0, <1>2 DEF ManageRoom
  <2>2. CASE PassOver(r)
    BY <1>0, <2>1, <2>2, IdleStep DEF PassOver
  <2> QED
    BY <1>2, <2>1, <2>2, BeginGameInv, EndGameInv, PlayGameInv DEF ManageRoom
<1>3. ASSUME NEW r \in RoomIds, RestartRoom(r) PROVE TablesInv' /\ failed' = failed
  BY <1>3, RestartRoomInv DEF RestartRoom
<1> QED
  BY <1>1, <1>2, <1>3 DEF Tick

\* Nothing else touches the tables.
LEMMA OtherwiseInv ==
    ASSUME TablesInv, UNCHANGED managerVars
    PROVE  TablesInv'
<1>1. ticking' \subseteq DOMAIN rooms
  BY DEF TablesInv, TablesTypeOK, managerVars
<1> QED
  BY <1>1, IdleStep DEF managerVars

LEMMA NextInv ==
    ASSUME CapsFitTankIds, TablesInv, [Next]_vars
    PROVE  TablesInv' /\ failed' = failed
<1>1. CASE IOThreadTakes \/ UNCHANGED vars
  BY <1>1, OtherwiseInv DEF IOThreadTakes, vars
<1> QED
  BY <1>1, CreateJoinInv, QuitInv, TimersInv DEF Next, Tick

----------------------------------------------------------------------------
(* The tasks that the Manager posts. *)

\* Points that a user leaves with are a number, whatever the room looks like.
LEMMA SaveTaskType ==
    ASSUME TablesInv, NEW u \in DOMAIN playersInfo
    PROVE  LET r == playersInfo[u].roomId
               id == playersInfo[u].playerId
           IN  SaveTask(u, ScoreOf(rooms[r].players, id)) \in ServerTask
<1> DEFINE r == playersInfo[u].roomId
           id == playersInfo[u].playerId
<1>1. r \in DOMAIN rooms /\ u \in Users /\ id \in PlayerIds
  BY DEF TablesInv, MembersMatch, TablesTypeOK, PlayerInfo
<1>2. rooms[r].players \in Scores
  BY <1>1, RoomFacts DEF Room
<1> HIDE DEF r, id
<1>3. ScoreOf(rooms[r].players, id) \in Nat
  BY <1>1, <1>2 DEF ScoreOf, Scores, NoRow
<1>4. SaveTask(u, ScoreOf(rooms[r].players, id)) \in ServerTask
  BY <1>1, <1>3 DEF SaveTask, ServerTask
<1> QED
  BY <1>4 DEF r, id

\* Whatever a step adds to the queue is one or two tasks for the IO thread.
LEMMA TablesPosted ==
    ASSUME TablesInv, TablesInv',
           \/ \E cap \in Caps : ManageCreateRoom(cap)
           \/ \E u \in Users, r \in 0..MaxRoomNum : ManageJoinRoom(u, r)
           \/ \E u \in Users : ManageQuitRoom(u)
    PROVE  \/ UNCHANGED serverTasks
           \/ \E t \in ServerTask : serverTasks' = serverTasks \o <<t>>
           \/ \E t, v \in ServerTask : serverTasks' = serverTasks \o <<t, v>>
<1>1. RoomsInfoTask(rooms') \in ServerTask
  BY RoomsInfoTaskType DEF TablesInv, TablesTypeOK
<1>2. ASSUME NEW cap \in Caps, ManageCreateRoom(cap)
      PROVE  serverTasks' = serverTasks \o <<RoomsInfoTask(rooms')>>
  BY <1>2 DEF ManageCreateRoom, Post
<1>3. ASSUME NEW u \in Users, NEW code \in JoinCodes
      PROVE  JoinRespTask(u, code) \in ServerTask
  BY DEF JoinRespTask, ServerTask
<1>4. ASSUME NEW u \in Users, NEW r \in 0..MaxRoomNum, ManageJoinRoom(u, r)
      PROVE  \E code \in JoinCodes :
                \/ serverTasks' = serverTasks \o <<JoinRespTask(u, code)>>
                \/ serverTasks' = serverTasks \o <<JoinRespTask(u, code),
                                                   RoomsInfoTask(rooms')>>
  BY <1>4 DEF ManageJoinRoom, RefuseJoin, EnterRoom, Post, JoinCodes
<1>5. ASSUME NEW u \in Users, ManageQuitRoom(u)
      PROVE  \/ UNCHANGED serverTasks
             \/ \E t \in ServerTask :
                   serverTasks' = serverTasks \o <<t, RoomsInfoTask(rooms')>>
  <2>1. CASE u \in DOMAIN playersInfo /\ playersInfo[u].roomId \in DOMAIN rooms
    BY <1>5, <2>1, SaveTaskType DEF ManageQuitRoom, LeaveRoom, Post
  <2>2. CASE ~(u \in DOMAIN playersInfo /\ playersInfo[u].roomId \in DOMAIN rooms)
    BY <1>5, <2>2 DEF ManageQuitRoom, vars
  <2> QED
    BY <2>1, <2>2
<1>6. CASE \E cap \in Caps : ManageCreateRoom(cap)
  BY <1>1, <1>2, <1>6
<1>7. CASE \E u \in Users, r \in 0..MaxRoomNum : ManageJoinRoom(u, r)
  <2>1. PICK u \in Users, r \in 0..MaxRoomNum : ManageJoinRoom(u, r)
    BY <1>7
  <2>2. PICK code \in JoinCodes :
           \/ serverTasks' = serverTasks \o <<JoinRespTask(u, code)>>
           \/ serverTasks' = serverTasks \o <<JoinRespTask(u, code),
                                              RoomsInfoTask(rooms')>>
    BY <1>4, <2>1
  <2>3. JoinRespTask(u, code) \in ServerTask
    BY <1>3
  <2> QED
    BY <1>1, <2>2, <2>3
<1>8. CASE \E u \in Users : ManageQuitRoom(u)
  BY <1>1, <1>5, <1>8
<1> QED
  BY <1>6, <1>7, <1>8

\* What members of a room are told about their game.
GameNotice == [type : Notices, users : SUBSET DOMAIN playersInfo]

\* The timers tell members of a room about their game, one thing or two.
LEMMA NoticesPosted ==
    ASSUME TablesInv, Tick \/ \E r \in RoomIds : RestartRoom(r)
    PROVE  \/ UNCHANGED serverTasks
           \/ \E t \in GameNotice :
                 serverTasks' = serverTasks \o <<t>>
           \/ \E t, v \in GameNotice :
                 serverTasks' = serverTasks \o <<t, v>>
<1>1. ASSUME NEW type \in Notices, NEW r \in RoomIds
      PROVE  NotifyTask(type, userIdsInRoom[r]) \in GameNotice
  <2>1. userIdsInRoom[r] \subseteq DOMAIN playersInfo
    BY DEF TablesInv, MembersMatch
  <2> QED
    BY <2>1 DEF NotifyTask, GameNotice
<1>2. ASSUME NEW r \in RoomIds
      PROVE  /\ NotifyTask("GameOn", userIdsInRoom[r]) \in GameNotice
             /\ NotifyTask("GameOff", userIdsInRoom[r]) \in GameNotice
             /\ NotifyTask("Blocks", userIdsInRoom[r]) \in GameNotice
             /\ NotifyTask("Objects", userIdsInRoom[r]) \in GameNotice
             /\ NotifyTask("PlayersScore", userIdsInRoom[r]) \in GameNotice
  BY <1>1 DEF Notices
<1>3. CASE ManageGames
  BY <1>3 DEF ManageGames
<1>4. ASSUME NEW r \in ticking, ManageRoom(r)
      PROVE  \/ UNCHANGED serverTasks
             \/ \E t \in GameNotice :
                   serverTasks' = serverTasks \o <<t>>
             \/ \E t, v \in GameNotice :
                   serverTasks' = serverTasks \o <<t, v>>
  <2>1. r \in RoomIds
    BY RoomFacts DEF TablesInv, TablesTypeOK
  <2>2. CASE BeginGame(r)
    BY <1>2, <2>1, <2>2 DEF BeginGame, Post
  <2>3. CASE EndGame(r)
    BY <1>2, <2>1, <2>3 DEF EndGame, Post
  <2>4. CASE PlayGame(r)
    <3>1. \/ Post(<<NotifyTask("Objects", userIdsInRoom[r]),
                    NotifyTask("PlayersScore", userIdsInRoom[r])>>)
          \/ Post(<<NotifyTask("Objects", userIdsInRoom[r])>>)
      BY <2>4 DEF PlayGame
    <3> QED
      BY <1>2, <2>1, <3>1 DEF Post
  <2>5. CASE PassOver(r)
    BY <2>5 DEF PassOver
  <2> QED
    BY <1>4, <2>2, <2>3, <2>4, <2>5 DEF ManageRoom
<1>5. ASSUME NEW r \in RoomIds, RestartRoom(r)
      PROVE  \E t \in GameNotice :
                serverTasks' = serverTasks \o <<t>>
  BY <1>2, <1>5 DEF RestartRoom, Post
<1> QED
  BY <1>3, <1>4, <1>5 DEF Tick

\* Every step of the Manager, and of the IO thread, keeps the invariant.
LEMMA NextIInv ==
    ASSUME CapsFitTankIds, IInv, [Next]_vars
    PROVE  IInv'
<1>1. TablesInv' /\ NoAssertionFails'
  BY NextInv DEF IInv, NoAssertionFails
<1>2. serverTasks' \in Seq(ServerTask)
  <2>1. GameNotice \subseteq ServerTask
    BY DEF GameNotice, ServerTask, IInv, TablesInv, TablesTypeOK
  <2>2. CASE UNCHANGED serverTasks
    BY <2>2 DEF IInv
  <2>3. CASE \/ \E t \in ServerTask : serverTasks' = serverTasks \o <<t>>
             \/ \E t, v \in ServerTask : serverTasks' = serverTasks \o <<t, v>>
    BY <2>3, PostType DEF IInv
  <2>4. CASE IOThreadTakes
    BY <2>4 DEF IOThreadTakes
  <2>5. CASE \/ \E cap \in Caps : ManageCreateRoom(cap)
             \/ \E u \in Users, r \in 0..MaxRoomNum : ManageJoinRoom(u, r)
             \/ \E u \in Users : ManageQuitRoom(u)
    BY <1>1, <2>2, <2>3, <2>5, TablesPosted DEF IInv
  <2>6. CASE Tick \/ \E r \in RoomIds : RestartRoom(r)
    BY <2>1, <2>2, <2>3, <2>6, NoticesPosted DEF IInv
  <2>7. CASE UNCHANGED vars
    BY <2>2, <2>7 DEF vars
  <2> QED
    BY <2>4, <2>5, <2>6, <2>7 DEF Next
<1> QED
  BY <1>1, <1>2 DEF IInv

\* As long as rooms are no larger than the supply of tank ids, every reachable
\* state satisfies the inductive invariant.
THEOREM Invariance ==
    ASSUME CapsFitTankIds
    PROVE  Spec => []IInv
<1>1. Init => IInv
  BY InitInv DEF Init, IInv, NoAssertionFails
<1>2. IInv /\ [Next]_vars => IInv'
  BY NextIInv
<1> QED
  BY <1>1, <1>2, PTL DEF Spec

\* Type correctness; the uint8_t counters of a room never wrap around.
THEOREM TypeCorrect ==
    ASSUME CapsFitTankIds
    PROVE  Spec => []TypeOK
<1>1. IInv => TypeOK
  BY DEF IInv, TablesInv, TypeOK, NoAssertionFails
<1> QED
  BY <1>1, Invariance, PTL

\* The Manager thread never runs into an assertion.
THEOREM NoAbort ==
    ASSUME CapsFitTankIds
    PROVE  Spec => []NoAssertionFails
<1>1. IInv => NoAssertionFails
  BY DEF IInv, TablesInv
<1> QED
  BY <1>1, Invariance, PTL

\* The two tables of the Manager agree on who is in which room.
THEOREM MembersAgree ==
    ASSUME CapsFitTankIds
    PROVE  Spec => []MembersMatch
<1>1. IInv => MembersMatch
  BY DEF IInv, TablesInv
<1> QED
  BY <1>1, Invariance, PTL

\* The members of a room, its tank ids and the rows of its score table agree.
THEOREM PlayersAgree ==
    ASSUME CapsFitTankIds
    PROVE  Spec => []PlayersMatch
<1>1. IInv => PlayersMatch
  BY DEF IInv, TablesInv
<1> QED
  BY <1>1, Invariance, PTL

\* No point is given while a second tank is in the game.
THEOREM RoundsSound ==
    ASSUME CapsFitTankIds
    PROVE  Spec => []RoundSound
<1>1. IInv => RoundSound
  BY DEF IInv, TablesInv
<1> QED
  BY <1>1, Invariance, PTL

\* A round that is decided has a timer pending.
THEOREM RestartsPending ==
    ASSUME CapsFitTankIds
    PROVE  Spec => []RestartPending
<1>1. IInv => RestartPending
  BY DEF IInv, TablesInv
<1> QED
  BY <1>1, Invariance, PTL

----------------------------------------------------------------------------
(* One point per round, for every room and every step. *)

\* What OnePointPerRound says of room r.
PointFair(r) ==
    LET old == rooms[r].players
        new == rooms'[r].players
        won == {p \in PlayerIds : new[p] # NoRow /\ new[p] # ScoreOf(old, p)}
    IN  won # {} =>
          /\ \E p \in Rows(old) : won = {p} /\ new[p] = old[p] + 1
          /\ ~rooms[r].hasWinner /\ rooms'[r].hasWinner
          /\ userIdsInRoom' = userIdsInRoom

\* A step that leaves the scores of a room alone, drops a row or adds a row of
\* zero points gives no point.
LEMMA NoPointGiven ==
    ASSUME NEW r, NEW id \in PlayerIds,
           rooms[r].players \in Scores,
           \/ rooms'[r].players = rooms[r].players
           \/ rooms'[r].players = SetRow(rooms[r].players, id, NoRow)
           \/ /\ rooms'[r].players = SetRow(rooms[r].players, id, 0)
              /\ rooms[r].players[id] = NoRow
    PROVE  PointFair(r)
<1>1. \A p \in PlayerIds : \/ rooms'[r].players[p] = NoRow
                           \/ rooms'[r].players[p] = ScoreOf(rooms[r].players, p)
  BY DEF SetRow, ScoreOf, Scores
<1> QED
  BY <1>1 DEF PointFair

\* A tick adds one point to the row of the winner, or leaves the scores alone.
LEMMA MoveAllScores ==
    ASSUME NEW room \in Room, NEW dead, NEW hits, NEW winner
    PROVE  LET new == ClearRestart(MoveAll(room, dead, hits, winner))
           IN  /\ winner = NoWinner => new.players = room.players
               /\ winner # NoWinner =>
                    /\ new.hasWinner
                    /\ new.players = SetRow(room.players, winner,
                                            ScoreOf(room.players, winner) + 1)
<1>1. CASE winner = NoWinner
  BY <1>1 DEF MoveAll, AfterHits, ClearRestart, Room
<1>2. CASE winner # NoWinner
  BY <1>2 DEF MoveAll, AfterHits, ClearRestart, Room
<1> QED
  BY <1>1, <1>2

\* In a tick, only a round without a winner gives a point.
LEMMA PlayGamePoint ==
    ASSUME TablesInv, NEW r \in DOMAIN rooms, PlayGame(r), UNCHANGED userIdsInRoom
    PROVE  PointFair(r)
<1>1. PICK dead \in SUBSET rooms[r].tanks, hits \in 0..MaxHits,
           winner \in rooms[r].tanks \cup {NoWinner} :
        /\ MoveAllMay(rooms[r], dead, hits, winner)
        /\ rooms' = [rooms EXCEPT ![r] =
                        ClearRestart(MoveAll(rooms[r], dead, hits, winner))]
  BY DEF PlayGame
<1>2. rooms[r] \in Room /\ rooms[r].players \in Scores
  BY RoomFacts DEF Room
<1> DEFINE room == ClearRestart(MoveAll(rooms[r], dead, hits, winner))
<1>3. rooms'[r] = room
  BY <1>1
<1>4. CASE winner = NoWinner
  <2>1. rooms'[r].players = rooms[r].players
    BY <1>2, <1>3, <1>4, MoveAllScores
  <2>2. 0 \in PlayerIds
    BY MaxTankIdAssumption DEF PlayerIds
  <2> QED
    BY <1>2, <2>1, <2>2, NoPointGiven
<1>5. CASE winner # NoWinner
  <2>1. /\ room.hasWinner
        /\ room.players = SetRow(rooms[r].players, winner,
                                 ScoreOf(rooms[r].players, winner) + 1)
    BY <1>2, <1>5, MoveAllScores
  <2>2. ~rooms[r].hasWinner
    BY <1>1, <1>5 DEF MoveAllMay, MayWin
  <2>3. winner \in Rows(rooms[r].players)
    <3>1. Status(r) = "Playing" /\ Full(r)
      BY RoomFacts DEF PlayGame, Full
    <3> QED
      BY <1>1, <1>5, <3>1 DEF TablesInv, RoundSound
  <2>4. winner \in PlayerIds /\ rooms[r].players[winner] \in Nat
    BY <1>2, <2>3 DEF Rows, Scores
  <2> HIDE DEF room
  <2>5. /\ room.players[winner] = rooms[r].players[winner] + 1
        /\ \A p \in PlayerIds \ {winner} :
              room.players[p] = rooms[r].players[p]
    BY <1>2, <2>1, <2>3, <2>4 DEF SetRow, ScoreOf, Scores, Rows
  <2>6. {p \in PlayerIds : room.players[p] # NoRow
                           /\ room.players[p] # ScoreOf(rooms[r].players, p)}
          = {winner}
    BY <2>4, <2>5 DEF ScoreOf, NoRow
  <2> QED
    BY <1>3, <2>1, <2>2, <2>3, <2>5, <2>6 DEF PointFair
<1> QED
  BY <1>4, <1>5

\* Whoever enters a room gets a row that was not there before.
LEMMA EnterRoomPoint ==
    ASSUME CapsFitTankIds, TablesInv, NEW u \in Users, NEW r \in DOMAIN rooms,
           RoomOpen(r), EnterRoom(u, r)
    PROVE  PointFair(r)
<1> DEFINE id == GetTankId(rooms[r].usedTankId)
<1>1. rooms[r] \in Room /\ rooms[r].players \in Scores
  BY RoomFacts DEF Room
<1>2. Cardinality(rooms[r].usedTankId) < MaxTankId
  <2>1. rooms[r].cap \in 0..MaxTankId
    BY DEF TablesInv, HeadCount, CapsFitTankIds
  <2>2. rooms[r].playerNum < rooms[r].cap
    BY RoomFacts DEF RoomOpen, Full
  <2> QED
    BY <2>1, <2>2, RoomFacts, MaxTankIdAssumption DEF TablesInv, HeadCount
<1>3. id \in TankIds \ rooms[r].usedTankId
  BY <1>1, <1>2, GetTankIdFresh DEF Room
<1>4. id \in PlayerIds /\ rooms[r].players[id] = NoRow
  BY <1>3, MaxTankIdAssumption DEF TablesInv, PlayersMatch, Rows, TankIds, PlayerIds
<1>5. rooms'[r].players = SetRow(rooms[r].players, id, 0)
  BY <1>1 DEF EnterRoom, NewPlayer, Room
<1> HIDE DEF id
<1> QED
  BY <1>1, <1>4, <1>5, NoPointGiven

\* No other step gives a point.
LEMMA NextPoint ==
    ASSUME CapsFitTankIds, TablesInv, Next, NEW r \in DOMAIN rooms
    PROVE  PointFair(r)
<1>1. /\ r \in RoomIds
      /\ rooms[r] \in Room
      /\ rooms[r].players \in Scores
      /\ DOMAIN rooms = 1..(nextRoomId - 1)
  BY RoomFacts, RoomsType DEF Room, TablesInv
<1>2. 0 \in PlayerIds
  BY MaxTankIdAssumption DEF PlayerIds
<1>3. ASSUME rooms'[r].players = rooms[r].players PROVE PointFair(r)
  BY <1>1, <1>2, <1>3, NoPointGiven
<1>4. ASSUME NEW cap \in Caps, ManageCreateRoom(cap) PROVE PointFair(r)
  <2>1. r # nextRoomId /\ nextRoomId \in Nat
    BY <1>1 DEF TablesInv, TablesTypeOK
  <2> QED
    BY <1>3, <1>4, <2>1 DEF ManageCreateRoom
<1>5. ASSUME NEW u \in Users, NEW s \in 0..MaxRoomNum, ManageJoinRoom(u, s)
      PROVE  PointFair(r)
  <2>1. CASE UNCHANGED rooms
    BY <1>3, <2>1
  <2>2. CASE s \in DOMAIN rooms /\ RoomOpen(s) /\ EnterRoom(u, s) /\ s = r
    BY <2>2, EnterRoomPoint
  <2>3. CASE s \in DOMAIN rooms /\ RoomOpen(s) /\ EnterRoom(u, s) /\ s # r
    BY <1>3, <2>3 DEF EnterRoom
  <2> QED
    BY <1>5, <2>1, <2>2, <2>3 DEF ManageJoinRoom, RefuseJoin, managerVars
<1>6. ASSUME NEW u \in Users, ManageQuitRoom(u) PROVE PointFair(r)
  <2>1. CASE UNCHANGED rooms
    BY <1>3, <2>1
  <2>2. CASE u \in DOMAIN playersInfo
             /\ LeaveRoom(u, playersInfo[u].roomId, playersInfo[u].playerId)
    <3> DEFINE id == playersInfo[u].playerId
    <3>1. CASE r = playersInfo[u].roomId
      <4>1. rooms'[r].players = SetRow(rooms[r].players, id, NoRow)
        BY <1>1, <2>2, <3>1 DEF LeaveRoom, PlayerQuit, Room
      <4>2. id \in PlayerIds
        BY <2>2 DEF TablesInv, TablesTypeOK, PlayerInfo
      <4> QED
        BY <1>1, <4>1, <4>2, NoPointGiven
    <3>2. CASE r # playersInfo[u].roomId
      BY <1>3, <2>2, <3>2 DEF LeaveRoom
    <3> QED
      BY <3>1, <3>2
  <2> QED
    BY <1>6, <2>1, <2>2 DEF ManageQuitRoom, vars, managerVars
<1>7. ASSUME ManageGames PROVE PointFair(r)
  BY <1>3, <1>7 DEF ManageGames
<1>8. ASSUME NEW s \in ticking, ManageRoom(s) PROVE PointFair(r)
  <2>1. s \in DOMAIN rooms /\ rooms[s] \in Room
    BY RoomFacts DEF TablesInv, TablesTypeOK
  <2>2. CASE s # r
    BY <1>3, <1>8, <2>2
       DEF ManageRoom, BeginGame, EndGame, PlayGame, PassOver
  <2>3. CASE s = r /\ BeginGame(r)
    BY <1>1, <1>3, <2>3 DEF BeginGame, InitRound, SetStatus, Room
  <2>4. CASE s = r /\ EndGame(r)
    BY <1>1, <1>3, <2>4 DEF EndGame, SetStatus, Room
  <2>5. CASE s = r /\ PlayGame(r)
    BY <1>8, <2>5, PlayGamePoint DEF ManageRoom
  <2>6. CASE s = r /\ PassOver(r)
    BY <1>3, <2>6 DEF PassOver
  <2> QED
    BY <1>8, <2>2, <2>3, <2>4, <2>5, <2>6 DEF ManageRoom
<1>9. ASSUME NEW s \in RoomIds, RestartRoom(s) PROVE PointFair(r)
  <2>1. CASE s = r
    BY <1>1, <1>3, <1>9, <2>1 DEF RestartRoom, InitRound, Room
  <2>2. CASE s # r
    BY <1>3, <1>9, <2>2 DEF RestartRoom
  <2> QED
    BY <2>1, <2>2
<1>10. ASSUME IOThreadTakes PROVE PointFair(r)
  BY <1>3, <1>10 DEF IOThreadTakes, managerVars
<1> QED
  BY <1>4, <1>5, <1>6, <1>7, <1>8, <1>9, <1>10 DEF Next, Tick

\* A round gives one point at most, to one member, and then it has a winner.
THEOREM OnePoint ==
    ASSUME CapsFitTankIds
    PROVE  Spec => OnePointPerRound
<1> DEFINE Fair == \A r \in DOMAIN rooms : PointFair(r)
<1>1. IInv /\ [Next]_vars => [Fair]_vars
  BY NextPoint DEF IInv
<1>2. OnePointPerRound <=> [][Fair]_vars
  BY PTL DEF OnePointPerRound, PointFair
<1> QED
  BY <1>1, <1>2, Invariance, PTL DEF Spec
=============================================================================
