---------------------------- MODULE LobbyProofs ----------------------------
(***************************************************************************)
(* The Manager implements the Lobby, for every set of users, every set of  *)
(* room sizes that the tank ids suffice for, and every bound: each action  *)
(* of the Manager is one of the Lobby's, or changes nothing it can see.    *)
(***************************************************************************)
EXTENDS ManagerProofs

----------------------------------------------------------------------------
(* The Lobby's variables, as Manager!Abstract gives them. *)

CapOf == [r \in DOMAIN rooms |-> rooms[r].cap]
PlayingRooms == {r \in DOMAIN rooms : Status(r) = "Playing"}
DecidedRooms == {r \in DOMAIN rooms : rooms[r].hasWinner}
Points == [u \in Users |-> PointsOf(u)]

\* The Lobby counts as the Manager does.
LEMMA SameCardinality == \A S : Abstract!Cardinality(S) = Cardinality(S)
BY DEF Abstract!Cardinality, Cardinality

\* What a step that changes one room does to the sets of rooms the Lobby knows.
LEMMA OneRoomChanges ==
    ASSUME TablesInv, NEW r \in DOMAIN rooms, NEW room \in Room,
           rooms' = [rooms EXCEPT ![r] = room], room.cap = rooms[r].cap
    PROVE  /\ CapOf' = CapOf
           /\ PlayingRooms' = IF room.status = "Playing" THEN PlayingRooms \cup {r}
                                                         ELSE PlayingRooms \ {r}
           /\ DecidedRooms' = IF room.hasWinner THEN DecidedRooms \cup {r}
                                                ELSE DecidedRooms \ {r}
<1>1. /\ DOMAIN rooms' = DOMAIN rooms
      /\ rooms'[r] = room
      /\ \A s \in DOMAIN rooms \ {r} : rooms'[s] = rooms[s]
  BY RoomsType DEF TablesInv
<1>2. CapOf' = CapOf
  BY <1>1 DEF CapOf
<1>3. PlayingRooms' = IF room.status = "Playing" THEN PlayingRooms \cup {r}
                                                 ELSE PlayingRooms \ {r}
  BY <1>1 DEF PlayingRooms, Status
<1>4. DecidedRooms' = IF room.hasWinner THEN DecidedRooms \cup {r}
                                        ELSE DecidedRooms \ {r}
  BY <1>1 DEF DecidedRooms
<1> QED
  BY <1>2, <1>3, <1>4

\* The points of a user who stays in a room are those of the user's row.
LEMMA PointsStay ==
    ASSUME TablesInv,
           NEW u \in DOMAIN playersInfo, u \in DOMAIN playersInfo',
           playersInfo'[u] = playersInfo[u],
           rooms'[playersInfo[u].roomId].players[playersInfo[u].playerId]
             = rooms[playersInfo[u].roomId].players[playersInfo[u].playerId]
    PROVE  PointsOf(u)' = PointsOf(u)
BY DEF PointsOf, ScoreOf

\* A step that moves nobody and leaves every score table alone leaves the
\* points alone.
LEMMA ScoresStay ==
    ASSUME TablesInv, UNCHANGED playersInfo,
           \A r \in DOMAIN rooms : rooms'[r].players = rooms[r].players
    PROVE  Points' = Points
<1>1. ASSUME NEW u \in Users PROVE PointsOf(u)' = PointsOf(u)
  <2>1. CASE u \in DOMAIN playersInfo
    <3>1. playersInfo[u].roomId \in DOMAIN rooms
      BY <2>1 DEF TablesInv, MembersMatch
    <3> QED
      BY <2>1, <3>1, PointsStay
  <2>2. CASE u \notin DOMAIN playersInfo
    BY <2>2 DEF PointsOf
  <2> QED
    BY <2>1, <2>2
<1> QED
  BY <1>1 DEF Points

\* A member of a room is registered with it, and has a row in its table.
LEMMA MemberFacts ==
    ASSUME TablesInv, NEW r \in DOMAIN rooms, NEW u \in userIdsInRoom[r]
    PROVE  /\ u \in DOMAIN playersInfo /\ u \in Users
           /\ playersInfo[u].roomId = r
           /\ playersInfo[u].playerId \in Rows(rooms[r].players)
           /\ playersInfo[u].playerId \in PlayerIds
<1>1. r \in RoomIds
  BY RoomsType DEF TablesInv
<1>2. u \in DOMAIN playersInfo /\ playersInfo[u].roomId = r
  BY <1>1 DEF TablesInv, MembersMatch
<1>3. u \in Users /\ playersInfo[u].playerId \in PlayerIds
  BY <1>2 DEF TablesInv, TablesTypeOK, PlayerInfo
<1>4. playersInfo[u].playerId \in PlayerIdsIn(r)
  BY DEF PlayerIdsIn
<1> QED
  BY <1>2, <1>3, <1>4 DEF TablesInv, PlayersMatch

----------------------------------------------------------------------------
(* One step per action. *)

\* The server starts as an empty lobby.
LEMMA InitIsLobby == Init => Abstract!Init
<1> SUFFICES ASSUME Init PROVE Abstract!Init
  OBVIOUS
<1>1. DOMAIN rooms = {} /\ DOMAIN playersInfo = {}
  BY DEF Init
<1>2. \A u \in Users : PointsOf(u) = 0
  BY <1>1 DEF PointsOf
<1> QED
  BY <1>1, <1>2 DEF Init, Abstract!Init

\* manageCreateRoom opens a room.
LEMMA CreateRoomOpens ==
    ASSUME CapsFitTankIds, TablesInv, NEW cap \in Caps, ManageCreateRoom(cap)
    PROVE  Abstract!Open(nextRoomId, cap)
<1> DEFINE r == nextRoomId
<1>1. /\ r \in RoomIds
      /\ rooms' = [s \in DOMAIN rooms \cup {r} |->
                      IF s = r THEN NewRoom(cap) ELSE rooms[s]]
      /\ UNCHANGED <<playersInfo, userIdsInRoom>>
  BY DEF ManageCreateRoom
<1>2. r \notin DOMAIN rooms
  <2>1. DOMAIN rooms = 1..(r - 1) /\ r \in Nat
    BY RoomsType DEF TablesInv, TablesTypeOK
  <2> QED
    BY <2>1
<1>3. /\ DOMAIN rooms' = DOMAIN rooms \cup {r}
      /\ rooms'[r] = NewRoom(cap)
      /\ \A s \in DOMAIN rooms : rooms'[s] = rooms[s]
  BY <1>1, <1>2
<1>4. /\ NewRoom(cap).cap = cap /\ NewRoom(cap).status # "Playing"
      /\ ~NewRoom(cap).hasWinner
  BY DEF NewRoom
<1> HIDE DEF r
<1>5. CapOf' = [s \in DOMAIN rooms \cup {r} |->
                   IF s = r THEN cap ELSE rooms[s].cap]
  BY <1>2, <1>3, <1>4 DEF CapOf
<1>6. PlayingRooms' = PlayingRooms /\ DecidedRooms' = DecidedRooms
  BY <1>2, <1>3, <1>4 DEF PlayingRooms, DecidedRooms, Status
<1>7. Points' = Points
  BY <1>1, <1>3, ScoresStay
<1>8. DOMAIN CapOf = DOMAIN rooms /\ \A s \in DOMAIN rooms : CapOf[s] = rooms[s].cap
  BY DEF CapOf
<1>9. CapOf' = [s \in DOMAIN CapOf \cup {r} |-> IF s = r THEN cap ELSE CapOf[s]]
  BY <1>5, <1>8
<1> QED
  BY <1>1, <1>2, <1>6, <1>7, <1>8, <1>9
     DEF Abstract!Open, CapOf, PlayingRooms, DecidedRooms, Points, r

\* manageJoinRoom lets a user into a room that is open, with no points.
LEMMA EnterRoomEnters ==
    ASSUME CapsFitTankIds, TablesInv, NEW u \in Users, NEW r \in DOMAIN rooms,
           u \notin DOMAIN playersInfo, RoomOpen(r), EnterRoom(u, r)
    PROVE  Abstract!Enter(u, r)
<1> DEFINE id == GetTankId(rooms[r].usedTankId)
           room == NewPlayer(rooms[r])
<1>1. /\ r \in RoomIds /\ rooms[r] \in Room
      /\ rooms[r].playerNum \in Nat /\ rooms[r].cap \in Nat
      /\ rooms[r].playerNum < rooms[r].cap
      /\ rooms[r].cap \in 0..MaxTankId /\ rooms[r].cap \in 0..255
  <2>1. rooms[r].playerNum < rooms[r].cap
    BY RoomFacts DEF RoomOpen, Full
  <2> QED
    BY <2>1, RoomFacts, CapsAssumption DEF TablesInv, HeadCount, CapsFitTankIds
<1>2. Cardinality(userIdsInRoom[r]) = rooms[r].playerNum
      /\ Cardinality(rooms[r].usedTankId) = rooms[r].playerNum
  BY DEF TablesInv, HeadCount
<1>3. /\ id \in TankIds \ rooms[r].usedTankId
      /\ room \in Room
      /\ room.cap = rooms[r].cap
      /\ room.status # "Playing"
      /\ room.hasWinner = rooms[r].hasWinner
  <2>1. rooms[r].playerNum < 255 /\ Cardinality(rooms[r].usedTankId) < MaxTankId
    BY <1>1, <1>2, MaxTankIdAssumption
  <2>2. rooms[r].status # "Playing"
    BY DEF RoomOpen, Status
  <2> QED
    BY <1>1, <2>1, <2>2, NewPlayerEffect
<1>4. id \in PlayerIds /\ room.players = SetRow(rooms[r].players, id, 0)
  <2>1. id \in PlayerIds
    BY <1>3, MaxTankIdAssumption DEF TankIds, PlayerIds
  <2>2. DOMAIN rooms[r] = {"cap", "status", "playerNum", "players", "usedTankId",
                           "tanks", "survivors", "hasWinner", "restartNeeded"}
    <3> HIDE DEF id, room
    <3> QED
      BY <1>1 DEF Room
  <2>3. room.players = SetRow(rooms[r].players, id, 0)
    BY <2>2 DEF NewPlayer
  <2> QED
    BY <2>1, <2>3
<1>5. /\ rooms' = [rooms EXCEPT ![r] = room]
      /\ playersInfo' = [v \in DOMAIN playersInfo \cup {u} |->
                            IF v = u THEN [roomId |-> r, playerId |-> id]
                                     ELSE playersInfo[v]]
      /\ userIdsInRoom' = [userIdsInRoom EXCEPT ![r] = @ \cup {u}]
  BY DEF EnterRoom
<1> HIDE DEF id, room
<1>6. /\ rooms'[r] = room
      /\ \A s \in DOMAIN rooms \ {r} : rooms'[s] = rooms[s]
      /\ DOMAIN playersInfo' = DOMAIN playersInfo \cup {u}
      /\ playersInfo'[u] = [roomId |-> r, playerId |-> id]
      /\ \A v \in DOMAIN playersInfo : playersInfo'[v] = playersInfo[v]
  BY <1>1, <1>5
<1>7. CapOf' = CapOf /\ PlayingRooms' = PlayingRooms /\ DecidedRooms' = DecidedRooms
  <2>1. r \notin PlayingRooms /\ (r \in DecidedRooms <=> rooms[r].hasWinner)
    BY DEF PlayingRooms, DecidedRooms, RoomOpen
  <2>2. /\ CapOf' = CapOf
        /\ PlayingRooms' = PlayingRooms \ {r}
        /\ DecidedRooms' = IF room.hasWinner THEN DecidedRooms \cup {r}
                                             ELSE DecidedRooms \ {r}
    BY <1>3, <1>5, OneRoomChanges
  <2> QED
    BY <1>3, <2>1, <2>2
<1>8. Points' = Points
  <2>1. PointsOf(u)' = 0 /\ PointsOf(u) = 0
    <3>1. room.players[id] = 0
      BY <1>1, <1>4 DEF SetRow, Room, Scores
    <3> QED
      BY <1>6, <3>1 DEF PointsOf, ScoreOf, NoRow
  <2>2. ASSUME NEW v \in Users \ {u} PROVE PointsOf(v)' = PointsOf(v)
    <3>1. CASE v \notin DOMAIN playersInfo
      BY <1>6, <3>1 DEF PointsOf
    <3>2. CASE v \in DOMAIN playersInfo
      <4> DEFINE s == playersInfo[v].roomId
                 p == playersInfo[v].playerId
      <4>1. s \in DOMAIN rooms /\ v \in userIdsInRoom[s]
        BY <3>2, RoomsType DEF TablesInv, MembersMatch
      <4>2. CASE s # r
        BY <1>6, <3>2, <4>1, <4>2, PointsStay
      <4>3. CASE s = r
        <5>1. p \in Rows(rooms[r].players) /\ p \in PlayerIds
          BY <4>1, <4>3, MemberFacts
        <5>2. p # id
          BY <1>3, <5>1 DEF TablesInv, PlayersMatch
        <5>3. rooms'[r].players[p] = rooms[r].players[p]
          BY <1>1, <1>4, <1>6, <5>1, <5>2 DEF SetRow, Room, Scores
        <5> QED
          BY <1>6, <3>2, <4>3, <5>3, PointsStay
      <4> QED
        BY <4>2, <4>3
    <3> QED
      BY <3>1, <3>2
  <2> QED
    BY <2>1, <2>2 DEF Points
<1>9. /\ r \in DOMAIN CapOf \ PlayingRooms
      /\ Cardinality(userIdsInRoom[r]) < CapOf[r]
  BY <1>1, <1>2 DEF CapOf, PlayingRooms, RoomOpen
<1>10. \A s \in RoomIds : u \notin userIdsInRoom[s]
  BY DEF TablesInv, MembersMatch
<1> QED
  BY <1>5, <1>7, <1>8, <1>9, <1>10, SameCardinality
     DEF Abstract!Enter, CapOf, PlayingRooms, DecidedRooms, Points

\* manageQuitRoom lets a user out, who then has no points.
LEMMA LeaveRoomLeaves ==
    ASSUME TablesInv, NEW u \in DOMAIN playersInfo, NEW r, NEW id,
           r = playersInfo[u].roomId, id = playersInfo[u].playerId,
           LeaveRoom(u, r, id)
    PROVE  r \in RoomIds /\ u \in Users /\ Abstract!Leave(u, r)
<1> DEFINE room == PlayerQuit(rooms[r], id)
<1>1. /\ r \in DOMAIN rooms /\ r \in RoomIds /\ rooms[r] \in Room
      /\ u \in userIdsInRoom[r] /\ u \in Users
  <2>1. r \in DOMAIN rooms
    BY DEF TablesInv, MembersMatch
  <2>2. r \in RoomIds /\ rooms[r] \in Room
    BY <2>1, RoomFacts
  <2> QED
    BY <2>1, <2>2 DEF TablesInv, MembersMatch, TablesTypeOK
<1>2. /\ id \in rooms[r].usedTankId /\ id \in TankIds
      /\ rooms[r].playerNum \in Nat /\ rooms[r].playerNum > 0
  <2>1. IsFiniteSet(userIdsInRoom[r]) /\ userIdsInRoom[r] # {}
    BY <1>1 DEF TablesInv, HeadCount
  <2>2. rooms[r].playerNum \in Nat /\ rooms[r].playerNum > 0
    BY <1>1, <2>1, RoomFacts, FS_EmptySet DEF TablesInv, HeadCount
  <2> QED
    BY <1>1, <2>2 DEF TablesInv, PlayersMatch, PlayerIdsIn, Room
<1>3. /\ room \in Room
      /\ room.cap = rooms[r].cap
      /\ room.status = rooms[r].status
      /\ room.hasWinner = rooms[r].hasWinner
      /\ room.players = SetRow(rooms[r].players, id, NoRow)
  <2>1. room.players = SetRow(rooms[r].players, id, NoRow)
    BY <1>1 DEF PlayerQuit, Room
  <2> QED
    BY <1>1, <1>2, <2>1, PlayerQuitEffect
<1>4. /\ rooms' = [rooms EXCEPT ![r] = room]
      /\ playersInfo' = [v \in DOMAIN playersInfo \ {u} |-> playersInfo[v]]
      /\ userIdsInRoom' = [userIdsInRoom EXCEPT ![r] = @ \ {u}]
  BY DEF LeaveRoom, ErasePlayer, Restrict
<1> HIDE DEF room
<1>5. /\ rooms'[r] = room
      /\ \A s \in DOMAIN rooms \ {r} : rooms'[s] = rooms[s]
      /\ DOMAIN playersInfo' = DOMAIN playersInfo \ {u}
      /\ \A v \in DOMAIN playersInfo \ {u} : playersInfo'[v] = playersInfo[v]
  BY <1>1, <1>4
<1>6. CapOf' = CapOf /\ PlayingRooms' = PlayingRooms /\ DecidedRooms' = DecidedRooms
  <2>1. /\ r \in PlayingRooms <=> rooms[r].status = "Playing"
        /\ r \in DecidedRooms <=> rooms[r].hasWinner
    BY <1>1 DEF PlayingRooms, DecidedRooms, Status
  <2>2. /\ CapOf' = CapOf
        /\ PlayingRooms' = IF room.status = "Playing" THEN PlayingRooms \cup {r}
                                                      ELSE PlayingRooms \ {r}
        /\ DecidedRooms' = IF room.hasWinner THEN DecidedRooms \cup {r}
                                             ELSE DecidedRooms \ {r}
    BY <1>1, <1>3, <1>4, OneRoomChanges
  <2> QED
    BY <1>3, <2>1, <2>2
<1>7. Points' = [Points EXCEPT ![u] = 0]
  <2>1. PointsOf(u)' = 0
    BY <1>5 DEF PointsOf
  <2>2. ASSUME NEW v \in Users \ {u} PROVE PointsOf(v)' = PointsOf(v)
    <3>1. CASE v \notin DOMAIN playersInfo
      BY <1>5, <3>1 DEF PointsOf
    <3>2. CASE v \in DOMAIN playersInfo
      <4> DEFINE s == playersInfo[v].roomId
                 p == playersInfo[v].playerId
      <4>1. s \in DOMAIN rooms /\ v \in userIdsInRoom[s]
        BY <3>2, RoomsType DEF TablesInv, MembersMatch
      <4>2. CASE s # r
        BY <1>5, <3>2, <4>1, <4>2, PointsStay
      <4>3. CASE s = r
        <5>1. p # id /\ p \in PlayerIds
          BY <1>1, <4>1, <4>3, MemberFacts DEF TablesInv, PlayersMatch
        <5>2. rooms'[r].players[p] = rooms[r].players[p]
          BY <1>1, <1>3, <1>5, <5>1 DEF SetRow, Room, Scores
        <5> QED
          BY <1>5, <3>2, <4>3, <5>2, PointsStay
      <4> QED
        BY <4>2, <4>3
    <3> QED
      BY <3>1, <3>2
  <2> QED
    BY <2>1, <2>2 DEF Points
<1> QED
  BY <1>1, <1>4, <1>6, <1>7
     DEF Abstract!Leave, CapOf, PlayingRooms, DecidedRooms, Points

\* A room is full for the Manager if it has its cap for the Lobby.
LEMMA FullIsCap ==
    ASSUME TablesInv, NEW r \in DOMAIN rooms
    PROVE  /\ DOMAIN CapOf = DOMAIN rooms
           /\ CapOf[r] = rooms[r].cap
           /\ Full(r) <=> Cardinality(userIdsInRoom[r]) = CapOf[r]
BY DEF CapOf, Full, TablesInv, HeadCount

\* manageGames starts a game in a full room that waits.
LEMMA BeginGameStarts ==
    ASSUME TablesInv, NEW r \in DOMAIN rooms, BeginGame(r),
           UNCHANGED <<playersInfo, userIdsInRoom>>
    PROVE  Abstract!StartGame(r)
<1> DEFINE room == InitRound(SetStatus(rooms[r], "Playing"))
<1>1. rooms[r] \in Room /\ "Playing" \in RoomStatus
  BY RoomFacts DEF RoomStatus
<1>2. /\ room \in Room /\ room.cap = rooms[r].cap /\ room.status = "Playing"
      /\ ~room.hasWinner /\ room.players = rooms[r].players
  BY <1>1, SetStatusEffect, InitRoundEffect
<1> HIDE DEF room
<1>3. rooms' = [rooms EXCEPT ![r] = room]
  BY DEF BeginGame, room
<1>4. /\ CapOf' = CapOf
      /\ PlayingRooms' = PlayingRooms \cup {r}
      /\ DecidedRooms' = DecidedRooms \ {r}
  BY <1>2, <1>3, OneRoomChanges
<1>5. Points' = Points
  <2>1. \A s \in DOMAIN rooms : rooms'[s].players = rooms[s].players
    BY <1>2, <1>3
  <2> QED
    BY <2>1, ScoresStay
<1>6. /\ r \in DOMAIN CapOf /\ Cardinality(userIdsInRoom[r]) = CapOf[r]
      /\ r \notin PlayingRooms
  BY FullIsCap DEF BeginGame, PlayingRooms
<1> QED
  BY <1>4, <1>5, <1>6, SameCardinality
     DEF Abstract!StartGame, Abstract!HasCap, CapOf, PlayingRooms, DecidedRooms, Points

\* manageGames stops a game that a member has left.
LEMMA EndGameStops ==
    ASSUME TablesInv, NEW r \in DOMAIN rooms, EndGame(r),
           UNCHANGED <<playersInfo, userIdsInRoom>>
    PROVE  Abstract!StopGame(r)
<1> DEFINE room == SetStatus(rooms[r], "Waiting")
<1>1. rooms[r] \in Room /\ "Waiting" \in RoomStatus
  BY RoomFacts DEF RoomStatus
<1>2. /\ room \in Room /\ room.cap = rooms[r].cap /\ room.status = "Waiting"
      /\ room.hasWinner = rooms[r].hasWinner /\ room.players = rooms[r].players
  BY <1>1, SetStatusEffect
<1> HIDE DEF room
<1>3. rooms' = [rooms EXCEPT ![r] = room]
  BY DEF EndGame, room
<1>4. /\ CapOf' = CapOf
      /\ PlayingRooms' = PlayingRooms \ {r}
      /\ DecidedRooms' = DecidedRooms
  <2>1. /\ CapOf' = CapOf
        /\ PlayingRooms' = PlayingRooms \ {r}
        /\ DecidedRooms' = IF room.hasWinner THEN DecidedRooms \cup {r}
                                             ELSE DecidedRooms \ {r}
    BY <1>2, <1>3, OneRoomChanges
  <2>2. r \in DecidedRooms <=> rooms[r].hasWinner
    BY DEF DecidedRooms
  <2> QED
    BY <1>2, <2>1, <2>2
<1>5. Points' = Points
  <2>1. \A s \in DOMAIN rooms : rooms'[s].players = rooms[s].players
    BY <1>2, <1>3
  <2> QED
    BY <2>1, ScoresStay
<1>6. ~Full(r) /\ r \in PlayingRooms
  BY RoomFacts DEF EndGame, Full, PlayingRooms
<1> QED
  BY <1>4, <1>5, <1>6, FullIsCap, SameCardinality
     DEF Abstract!StopGame, Abstract!HasCap, CapOf, PlayingRooms, DecidedRooms, Points

\* A tick of a game wins the round for the member whose tank is left, or shows
\* the Lobby nothing.
LEMMA PlayGameWins ==
    ASSUME TablesInv, NEW r \in DOMAIN rooms, PlayGame(r),
           UNCHANGED <<playersInfo, userIdsInRoom>>
    PROVE  \/ \E u \in Users : Abstract!WinRound(u, r)
           \/ UNCHANGED Abstract!lobbyVars
<1>1. PICK dead \in SUBSET rooms[r].tanks, hits \in 0..MaxHits,
           winner \in rooms[r].tanks \cup {NoWinner} :
        /\ MoveAllMay(rooms[r], dead, hits, winner)
        /\ rooms' = [rooms EXCEPT ![r] =
                        ClearRestart(MoveAll(rooms[r], dead, hits, winner))]
  BY DEF PlayGame
<1> DEFINE after == MoveAll(rooms[r], dead, hits, winner)
           room == ClearRestart(after)
<1>2. /\ rooms[r] \in Room /\ ~rooms[r].restartNeeded
      /\ Status(r) = "Playing" /\ Full(r)
  BY RoomFacts DEF PlayGame, Full
<1>3. rooms[r].tanks \subseteq Rows(rooms[r].players)
  BY <1>2 DEF TablesInv, RoundSound
<1>4. /\ room \in Room
      /\ room.cap = rooms[r].cap
      /\ room.hasWinner => rooms[r].hasWinner \/ winner # NoWinner
  <2>1. TickLeaves(rooms[r], dead, hits, winner, after, room)
    BY <1>1, <1>2, <1>3, MoveAllEffect
  <2> HIDE DEF after, room
  <2> QED
    BY <2>1 DEF TickLeaves
<1>5. /\ room.status = "Playing"
      /\ rooms[r].hasWinner => room.hasWinner
      /\ winner = NoWinner => room.players = rooms[r].players
      /\ winner # NoWinner =>
           /\ room.hasWinner
           /\ room.players = SetRow(rooms[r].players, winner,
                                    ScoreOf(rooms[r].players, winner) + 1)
  <2>1. room.status = "Playing" /\ (rooms[r].hasWinner => room.hasWinner)
    <3>1. CASE winner = NoWinner
      BY <1>2, <3>1 DEF MoveAll, AfterHits, ClearRestart, Room, Status
    <3>2. CASE winner # NoWinner
      BY <1>2, <3>2 DEF MoveAll, AfterHits, ClearRestart, Room, Status
    <3> QED
      BY <3>1, <3>2
  <2> QED
    BY <1>2, <2>1, MoveAllScores
<1>6. rooms' = [rooms EXCEPT ![r] = room]
  BY <1>1
<1> HIDE DEF after, room
<1>7. /\ CapOf' = CapOf
      /\ PlayingRooms' = PlayingRooms
      /\ DecidedRooms' = IF winner = NoWinner THEN DecidedRooms
                                              ELSE DecidedRooms \cup {r}
  <2>1. /\ CapOf' = CapOf
        /\ PlayingRooms' = PlayingRooms \cup {r}
        /\ DecidedRooms' = IF room.hasWinner THEN DecidedRooms \cup {r}
                                             ELSE DecidedRooms \ {r}
    BY <1>4, <1>5, <1>6, OneRoomChanges
  <2>2. r \in PlayingRooms /\ (r \in DecidedRooms <=> rooms[r].hasWinner)
    BY <1>2 DEF DecidedRooms, PlayingRooms
  <2> QED
    BY <1>4, <1>5, <2>1, <2>2
<1>8. CASE winner = NoWinner
  <2>1. \A s \in DOMAIN rooms : rooms'[s].players = rooms[s].players
    BY <1>5, <1>6, <1>8
  <2>2. Points' = Points
    BY <2>1, ScoresStay
  <2> QED
    BY <1>7, <1>8, <2>2
       DEF Abstract!lobbyVars, CapOf, PlayingRooms, DecidedRooms, Points
<1>9. CASE winner # NoWinner
  <2>1. winner \in PlayerIdsIn(r) /\ winner \in Rows(rooms[r].players)
    BY <1>3, <1>9 DEF TablesInv, PlayersMatch
  <2>2. PICK u \in userIdsInRoom[r] : playersInfo[u].playerId = winner
    BY <2>1 DEF PlayerIdsIn
  <2>3. u \in DOMAIN playersInfo /\ u \in Users /\ playersInfo[u].roomId = r
    BY MemberFacts
  <2>4. /\ winner \in PlayerIds
        /\ rooms[r].players[winner] \in Nat /\ rooms[r].players[winner] # NoRow
    BY <1>2, <2>1 DEF Rows, Room, Scores
  <2>5. /\ room.players[winner] = rooms[r].players[winner] + 1
        /\ \A p \in PlayerIds \ {winner} : room.players[p] = rooms[r].players[p]
    BY <1>2, <1>5, <1>9, <2>4 DEF SetRow, ScoreOf, Room, Scores
  <2>6. rooms'[r] = room /\ \A s \in DOMAIN rooms \ {r} : rooms'[s] = rooms[s]
    BY <1>6
  <2>7. PointsOf(u)' = PointsOf(u) + 1
    BY <2>2, <2>3, <2>4, <2>5, <2>6 DEF PointsOf, ScoreOf, NoRow
  <2>8. ASSUME NEW v \in Users \ {u} PROVE PointsOf(v)' = PointsOf(v)
    <3>1. CASE v \notin DOMAIN playersInfo
      BY <3>1 DEF PointsOf
    <3>2. CASE v \in DOMAIN playersInfo
      <4> DEFINE s == playersInfo[v].roomId
                 p == playersInfo[v].playerId
      <4>1. s \in DOMAIN rooms /\ v \in userIdsInRoom[s]
        BY <3>2, RoomsType DEF TablesInv, MembersMatch
      <4>2. CASE s # r
        BY <2>6, <3>2, <4>1, <4>2, PointsStay
      <4>3. CASE s = r
        <5>1. p \in PlayerIds /\ p # winner
          BY <2>2, <4>1, <4>3, MemberFacts DEF TablesInv, PlayersMatch
        <5> QED
          BY <2>5, <2>6, <3>2, <4>3, <5>1, PointsStay
      <4> QED
        BY <4>2, <4>3
    <3> QED
      BY <3>1, <3>2
  <2>9. Points' = [Points EXCEPT ![u] = @ + 1]
    BY <2>3, <2>7, <2>8 DEF Points
  <2>10. r \in PlayingRooms \ DecidedRooms
    BY <1>1, <1>2, <1>9 DEF PlayingRooms, DecidedRooms, MoveAllMay, MayWin
  <2>11. r \in DOMAIN CapOf /\ Cardinality(userIdsInRoom[r]) = CapOf[r]
    BY <1>2, FullIsCap
  <2>12. Abstract!WinRound(u, r)
    BY <1>7, <1>9, <2>9, <2>10, <2>11, SameCardinality
       DEF Abstract!WinRound, Abstract!HasCap, CapOf, PlayingRooms, DecidedRooms,
           Points
  <2> QED
    BY <2>3, <2>12
<1> QED
  BY <1>8, <1>9

\* The timer of restartRoom starts the round after one that was decided; a
\* timer that finds a round undecided shows the Lobby nothing.
LEMMA RestartRoomNext ==
    ASSUME TablesInv, NEW r \in RoomIds, RestartRoom(r)
    PROVE  Abstract!NextRound(r) \/ UNCHANGED Abstract!lobbyVars
<1> DEFINE room == InitRound(rooms[r])
<1>1. r \in DOMAIN rooms
  BY DEF TablesInv, TimersOfRooms, RestartRoom
<1>2. rooms[r] \in Room
  BY <1>1, RoomFacts
<1>3. /\ room \in Room /\ room.cap = rooms[r].cap /\ ~room.hasWinner
      /\ room.status = rooms[r].status /\ room.players = rooms[r].players
  BY <1>2, InitRoundEffect
<1> HIDE DEF room
<1>4. rooms' = [rooms EXCEPT ![r] = room] /\ UNCHANGED <<playersInfo, userIdsInRoom>>
  BY DEF RestartRoom, room
<1>5. /\ CapOf' = CapOf
      /\ PlayingRooms' = PlayingRooms
      /\ DecidedRooms' = DecidedRooms \ {r}
  <2>1. /\ CapOf' = CapOf
        /\ PlayingRooms' = IF room.status = "Playing" THEN PlayingRooms \cup {r}
                                                      ELSE PlayingRooms \ {r}
        /\ DecidedRooms' = DecidedRooms \ {r}
    BY <1>1, <1>3, <1>4, OneRoomChanges
  <2>2. r \in PlayingRooms <=> rooms[r].status = "Playing"
    BY <1>1 DEF PlayingRooms, Status
  <2> QED
    BY <1>3, <2>1, <2>2
<1>6. Points' = Points
  <2>1. \A s \in DOMAIN rooms : rooms'[s].players = rooms[s].players
    BY <1>1, <1>3, <1>4
  <2> QED
    BY <1>4, <2>1, ScoresStay
<1>7. CASE r \in DecidedRooms
  BY <1>4, <1>5, <1>6, <1>7
     DEF Abstract!NextRound, CapOf, PlayingRooms, DecidedRooms, Points
<1>8. CASE r \notin DecidedRooms
  <2>1. DecidedRooms' = DecidedRooms
    BY <1>5, <1>8
  <2> QED
    BY <1>4, <1>5, <1>6, <2>1
       DEF Abstract!lobbyVars, CapOf, PlayingRooms, DecidedRooms, Points
<1> QED
  BY <1>7, <1>8

\* What changes neither rooms nor members shows the Lobby nothing.
LEMMA HiddenStep ==
    ASSUME UNCHANGED <<rooms, playersInfo, userIdsInRoom>>
    PROVE  UNCHANGED Abstract!lobbyVars
BY DEF Abstract!lobbyVars, PointsOf, Status

\* Every step of the Manager is a step of the Lobby, or hidden from it.
LEMMA NextIsLobby ==
    ASSUME CapsFitTankIds, TablesInv, [Next]_vars
    PROVE  [Abstract!Next]_(Abstract!lobbyVars)
<1>1. ASSUME NEW cap \in Caps, ManageCreateRoom(cap) PROVE Abstract!Next
  <2>1. nextRoomId \in RoomIds
    BY <1>1 DEF ManageCreateRoom
  <2> QED
    BY <1>1, <2>1, CreateRoomOpens DEF Abstract!Next
<1>2. ASSUME NEW u \in Users, NEW r \in 0..MaxRoomNum, ManageJoinRoom(u, r)
      PROVE  Abstract!Next \/ UNCHANGED Abstract!lobbyVars
  <2>1. CASE \E code \in JoinCodes : RefuseJoin(u, code)
    BY <2>1, HiddenStep DEF RefuseJoin, managerVars
  <2>2. CASE /\ r \in DOMAIN rooms /\ u \notin DOMAIN playersInfo
             /\ RoomOpen(r) /\ EnterRoom(u, r)
    <3>1. r \in RoomIds
      BY <2>2, RoomFacts
    <3> QED
      BY <2>2, <3>1, EnterRoomEnters DEF Abstract!Next
  <2> QED
    BY <1>2, <2>1, <2>2 DEF ManageJoinRoom, JoinCodes
<1>3. ASSUME NEW u \in Users, ManageQuitRoom(u)
      PROVE  Abstract!Next \/ UNCHANGED Abstract!lobbyVars
  <2>1. CASE /\ u \in DOMAIN playersInfo
             /\ LeaveRoom(u, playersInfo[u].roomId, playersInfo[u].playerId)
    BY <2>1, LeaveRoomLeaves DEF Abstract!Next
  <2>2. CASE UNCHANGED vars
    BY <2>2, HiddenStep DEF vars, managerVars
  <2> QED
    BY <1>3, <2>1, <2>2 DEF ManageQuitRoom
<1>4. ASSUME ManageGames PROVE UNCHANGED Abstract!lobbyVars
  BY <1>4, HiddenStep DEF ManageGames
<1>5. ASSUME NEW r \in ticking, ManageRoom(r)
      PROVE  Abstract!Next \/ UNCHANGED Abstract!lobbyVars
  <2>1. r \in DOMAIN rooms /\ r \in RoomIds /\ UNCHANGED <<playersInfo, userIdsInRoom>>
    BY <1>5, RoomFacts DEF ManageRoom, TablesInv, TablesTypeOK
  <2>2. CASE BeginGame(r)
    BY <2>1, <2>2, BeginGameStarts DEF Abstract!Next
  <2>3. CASE EndGame(r)
    BY <2>1, <2>3, EndGameStops DEF Abstract!Next
  <2>4. CASE PlayGame(r)
    BY <2>1, <2>4, PlayGameWins DEF Abstract!Next
  <2>5. CASE PassOver(r)
    BY <2>1, <2>5, HiddenStep DEF PassOver
  <2> QED
    BY <1>5, <2>2, <2>3, <2>4, <2>5 DEF ManageRoom
<1>6. ASSUME NEW r \in RoomIds, RestartRoom(r)
      PROVE  Abstract!Next \/ UNCHANGED Abstract!lobbyVars
  BY <1>6, RestartRoomNext DEF Abstract!Next
<1>7. ASSUME IOThreadTakes \/ UNCHANGED vars PROVE UNCHANGED Abstract!lobbyVars
  BY <1>7, HiddenStep DEF IOThreadTakes, vars, managerVars
<1> QED
  BY <1>1, <1>2, <1>3, <1>4, <1>5, <1>6, <1>7 DEF Next, Tick

\* The Manager implements the Lobby: nobody enters during a game or in excess
\* of the room's size, nobody is in two rooms, and the points a user has are
\* the rounds the user has won in the room the user is in.
THEOREM LobbyImplemented ==
    ASSUME CapsFitTankIds
    PROVE  Spec => ImplementsLobby
<1>1. Init => Abstract!Init
  BY InitIsLobby
<1>2. IInv /\ [Next]_vars => [Abstract!Next]_(Abstract!lobbyVars)
  BY NextIsLobby DEF IInv
<1> QED
  BY <1>1, <1>2, Invariance, PTL DEF Spec, ImplementsLobby, Abstract!Spec
=============================================================================
