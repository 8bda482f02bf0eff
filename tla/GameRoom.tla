------------------------------ MODULE GameRoom ------------------------------
(***************************************************************************)
(* One game room: class GameRoom (src/server/GameRoom.cc) together with    *)
(* the tank ids its IdManager hands out (src/game/util/IdManager.cc), as   *)
(* operators on a record.  A room belongs to the Manager thread alone, so  *)
(* it has no variable and no action of its own: module Manager calls these *)
(* operators where Manager.cc calls the methods.                           *)
(*                                                                         *)
(* Of a round in progress only what its result depends on is kept: the     *)
(* tanks still among `objects`, the counter `survivors` and the two        *)
(* flags.  Positions, shells and collisions are abstracted into the set of *)
(* tanks hit during a tick and the number of hits.                         *)
(***************************************************************************)
EXTENDS Integers, FiniteSets

CONSTANTS
    MaxTankId,   \* MAX_TANK_ID of src/game/util/IdManager.h
    MaxHits      \* bound: hits during one call of moveAll

ASSUME MaxTankIdAssumption == MaxTankId \in Nat \ {0}
ASSUME MaxHitsAssumption == MaxHits \in Nat

TankIds == 1..MaxTankId
PlayerIds == 0..MaxTankId       \* getTankId answers 0 when no id is left

RoomStatus == {"New", "Waiting", "Playing"}

\* The map players: uint8_t player id -> uint32_t points, NoRow for a key that
\* is not in the map.
NoRow == -1
Scores == [PlayerIds -> Nat \cup {NoRow}]
Rows(players) == {id \in PlayerIds : players[id] # NoRow}

\* RoomInfo (without id and name) and the members the game logic keeps.
\* The counters of RoomInfo are uint8_t: that they stay in 0..255 is part of
\* the type, so that no increment or decrement of theirs ever wraps around.
Room == [cap : 0..255, status : RoomStatus, playerNum : 0..255,
         players : Scores, usedTankId : SUBSET TankIds,
         tanks : SUBSET PlayerIds, survivors : Int,
         hasWinner : BOOLEAN, restartNeeded : BOOLEAN]

NewRoom(cap) ==
    [cap |-> cap, status |-> "New", playerNum |-> 0,
     players |-> [id \in PlayerIds |-> NoRow], usedTankId |-> {},
     tanks |-> {}, survivors |-> 0,
     hasWinner |-> FALSE, restartNeeded |-> FALSE]

\* operator[] of the map takes a key that is missing for the value 0.
ScoreOf(players, id) == IF players[id] = NoRow THEN 0 ELSE players[id]

SetRow(players, id, row) == [players EXCEPT ![id] = row]

\* IdManager::getTankId: the least tank id that is not in use, 0 if none.
GetTankId(used) ==
    LET free == TankIds \ used
    IN  IF free = {} THEN 0 ELSE CHOOSE i \in free : \A j \in free : i <= j

\* The assertion of newPlayer, and of IdManager::returnTankId.
MayAddPlayer(room) == room.status # "Playing" /\ room.playerNum < room.cap
MayReturnTankId(id) == id \in TankIds

\* Mutated form of NewPlayer: a room never leaves the status New.
NewPlayerStaysNew(room) ==
    LET id == GetTankId(room.usedTankId)
    IN  [room EXCEPT !.usedTankId = @ \cup ({id} \ {0}),
                     !.players = SetRow(@, id, 0), !.playerNum = @ + 1]

NewPlayer(room) ==
    LET id == GetTankId(room.usedTankId)
    IN  [room EXCEPT !.usedTankId = @ \cup ({id} \ {0}),
                     !.players = SetRow(@, id, 0),
                     !.playerNum = @ + 1,
                     !.status = IF @ = "New" THEN "Waiting" ELSE @]

\* Mutated form of PlayerQuit: returnTankId is not called.
PlayerQuitKeepsId(room, id) ==
    [room EXCEPT !.players = SetRow(@, id, NoRow), !.playerNum = @ - 1]

PlayerQuit(room, id) ==
    [room EXCEPT !.players = SetRow(@, id, NoRow),
                 !.usedTankId = @ \ {id},
                 !.playerNum = @ - 1]

SetStatus(room, status) == [room EXCEPT !.status = status]

\* Mutated form of InitRound: hasWinner is not reset.
InitRoundKeepsWinner(room) ==
    [room EXCEPT !.tanks = Rows(room.players),
                 !.survivors = Cardinality(Rows(room.players))]

\* init: one tank for each player.  It leaves restartNeeded alone.
InitRound(room) ==
    [room EXCEPT !.tanks = Rows(room.players),
                 !.survivors = Cardinality(Rows(room.players)),
                 !.hasWinner = FALSE]

(***************************************************************************)
(* moveAll visits tanks and shells in the order of an unordered_map.       *)
(* `dead` are the tanks that shells hit during this call: a tank stays     *)
(* among the objects until the end of the call, so two shells may hit it,  *)
(* and every hit takes one off `survivors`.  The id 0 means "no collision",*)
(* so a tank with that id is never hit.                                    *)
(***************************************************************************)
HitsPossible(room, dead, hits) ==
    /\ dead \subseteq room.tanks \ {0}
    /\ Cardinality(dead) <= hits
    /\ dead = {} => hits = 0

\* Mutated form of MayWin: it does not ask whether the round has a winner.
MayWinAgain(room, dead, hits, w) ==
    /\ w \in room.tanks \ dead
    /\ room.survivors >= 1
    /\ room.survivors - hits <= 1

\* Tank w is visited at a moment when survivors is 1 and no shell has hit w yet.
MayWin(room, dead, hits, w) ==
    /\ ~room.hasWinner
    /\ w \in room.tanks
    /\ room.survivors >= 1
    /\ room.survivors - hits <= 1
    /\ w \in dead => /\ room.survivors - hits < 1
                     /\ dead = {w} => room.survivors = 1

\* With one survivor and no hit, the first tank visited wins.
MayEndUndecided(room, hits) ==
    ~(~room.hasWinner /\ room.survivors = 1 /\ hits = 0 /\ room.tanks # {})

NoWinner == -1

MoveAllMay(room, dead, hits, winner) ==
    /\ HitsPossible(room, dead, hits)
    /\ IF winner = NoWinner THEN MayEndUndecided(room, hits)
                            ELSE MayWin(room, dead, hits, winner)

\* Mutated form of AfterHits: one survivor less per call, however many hits.
AfterHitsCountedOnce(room, dead, hits) ==
    [room EXCEPT !.tanks = @ \ dead, !.survivors = IF hits = 0 THEN @ ELSE @ - 1]

AfterHits(room, dead, hits) ==
    [room EXCEPT !.tanks = @ \ dead, !.survivors = @ - hits]

MoveAll(room, dead, hits, winner) ==
    LET after == AfterHits(room, dead, hits)
    IN  IF winner = NoWinner
        THEN after
        ELSE [after EXCEPT
                !.hasWinner = TRUE, !.restartNeeded = TRUE,
                !.players = SetRow(@, winner, ScoreOf(@, winner) + 1)]

\* Mutated form of NeedRestart: the flag is cleared before it is read.
NeedRestartReadsLate(room) ==
    LET cleared == [room EXCEPT !.restartNeeded = FALSE]
    IN  cleared.restartNeeded

\* needRestart reads the flag and clears it.
NeedRestart(room) == room.restartNeeded
ClearRestart(room) == [room EXCEPT !.restartNeeded = FALSE]
=============================================================================
