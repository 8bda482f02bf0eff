--------------------------- MODULE GameRoundProofs ---------------------------
(***************************************************************************)
(* Proofs about GameRound for every number of tank ids that a uint8_t can  *)
(* hold, every magazine, every number of bounces and every bound: any      *)
(* number of shells hit any number of tanks in a call of moveAll, in any   *)
(* order of its visits.                                                    *)
(***************************************************************************)
EXTENDS GameRound, FiniteSetTheorems, TLAPS

----------------------------------------------------------------------------
(* The inductive invariant. *)

Tick == [start : Room, hits : Nat, winner : TankIds \cup {NoWinner},
         again : Nat, lost : [TankIds -> Nat]]

TickType == tick \in Tick

TanksArePlayers ==
    room.tanks \subseteq Rows(room.players) /\ Rows(room.players) \subseteq TankIds

ShellsAreOlder == \A s \in DOMAIN shells : s < nextShell

NothingLeftOver == ~moving => unvisited = {} /\ deleted = {}

\* A shell is removed only in its own visit, so that no shell is removed, or
\* given back, twice.
ShellsVisitedOnce == unvisited \cap deleted \cap DOMAIN shells = {}

\* What `survivors` counts.
SurvivorsCounted ==
    tick.again = 0 => room.survivors = Cardinality(room.tanks \ deleted)

\* The tanks hit since the call of moveAll began.
Dead == deleted \cap tick.start.tanks

\* What a winner that was found in this call says about its start.
WonSoFar ==
    tick.winner # NoWinner =>
        /\ ~tick.start.hasWinner
        /\ tick.winner \in tick.start.tanks
        /\ tick.start.survivors >= 1
        /\ tick.start.survivors - tick.hits <= 1
        /\ tick.winner \in Dead => tick.start.survivors - tick.hits < 1
        /\ Dead \subseteq {tick.winner} => tick.start.survivors = 1

\* No tank can have been visited if there is no winner although there must be.
UndecidedSoFar ==
    (tick.winner = NoWinner /\ ~MayEndUndecided(tick.start, tick.hits))
        => tick.start.tanks \subseteq unvisited

\* In the middle of a call: the single step MoveAll of GameRoom has been done,
\* for the hits so far, except that the tanks hit are still there.
CallSoFar ==
    moving => /\ room = MoveAll(tick.start, {}, tick.hits, tick.winner)
              /\ HitsPossible(tick.start, Dead, tick.hits)
              /\ WonSoFar
              /\ UndecidedSoFar

IInv ==
    /\ TypeOK
    /\ TickType
    /\ TanksArePlayers
    /\ ShellsAreOlder
    /\ NothingLeftOver
    /\ ShellsVisitedOnce
    /\ MagazineHolds
    /\ SurvivorsCounted
    /\ CallSoFar

----------------------------------------------------------------------------
(* Sets of tanks and of shells. *)

\* Ids of tanks and of shells are different, and there are finitely many.
LEMMA Ids ==
    /\ TankIds \subseteq Nat /\ TankIds \subseteq PlayerIds /\ 0 \notin TankIds
    /\ NoWinner \notin PlayerIds
    /\ ShellIds \subseteq Nat /\ TankIds \cap ShellIds = {}
    /\ \A T \in SUBSET TankIds : IsFiniteSet(T) /\ Cardinality(T) \in Nat
    /\ \A S \in SUBSET ShellIds : IsFiniteSet(S) /\ Cardinality(S) \in Nat
<1>1. /\ TankIds \subseteq Nat /\ TankIds \subseteq PlayerIds /\ 0 \notin TankIds
      /\ NoWinner \notin PlayerIds
      /\ ShellIds \subseteq Nat /\ TankIds \cap ShellIds = {}
  BY MaxTankIdAssumption, RoundBoundsAssumption
     DEF TankIds, PlayerIds, ShellIds, FirstShell, NoWinner
<1>2. IsFiniteSet(TankIds) /\ IsFiniteSet(ShellIds)
  BY FS_Interval, MaxTankIdAssumption, RoundBoundsAssumption
     DEF TankIds, ShellIds, FirstShell
<1>3. \A T \in SUBSET TankIds : IsFiniteSet(T) /\ Cardinality(T) \in Nat
  BY <1>2, FS_Subset, FS_CardinalityType
<1>4. \A S \in SUBSET ShellIds : IsFiniteSet(S) /\ Cardinality(S) \in Nat
  BY <1>2, FS_Subset, FS_CardinalityType
<1> QED
  BY <1>1, <1>3, <1>4

\* A set of tanks has at most as many members as there are numbers for them.
LEMMA MembersCounted ==
    ASSUME NEW members \in SUBSET TankIds
    PROVE  Cardinality(members) \in 0..255
<1>1. Cardinality(members) \in Nat
  BY Ids
<1>2. Cardinality(members) <= MaxTankId
  <2>1. IsFiniteSet(TankIds) /\ Cardinality(TankIds) = MaxTankId
    BY FS_Interval, MaxTankIdAssumption DEF TankIds
  <2> QED
    BY <2>1, FS_Subset
<1> QED
  BY <1>1, <1>2, TankIdWidthAssumption, MaxTankIdAssumption

\* One member more, one less, one altogether.
LEMMA CardinalityFacts ==
    ASSUME NEW S, IsFiniteSet(S), Cardinality(S) \in Nat, NEW x
    PROVE  /\ x \notin S => Cardinality(S \cup {x}) = Cardinality(S) + 1
           /\ x \in S => Cardinality(S \ {x}) = Cardinality(S) - 1
           /\ x \in S => Cardinality(S) >= 1
           /\ x \in S /\ Cardinality(S) = 1 => S = {x}
           /\ Cardinality(S \cup {x}) <= Cardinality(S) + 1
<1>1. x \notin S => Cardinality(S \cup {x}) = Cardinality(S) + 1
  BY FS_AddElement
<1>2. x \in S => Cardinality(S \ {x}) = Cardinality(S) - 1
  BY FS_RemoveElement
<1>3. IsFiniteSet(S \ {x}) /\ Cardinality(S \ {x}) \in Nat
  BY FS_RemoveElement, FS_CardinalityType
<1>4. x \in S => Cardinality(S) >= 1
  BY <1>2, <1>3
<1>5. x \in S /\ Cardinality(S) = 1 => S = {x}
  <2>1. Cardinality(S \ {x}) = 0 => S \ {x} = {}
    BY <1>3, FS_EmptySet
  <2> QED
    BY <1>2, <2>1
<1>6. Cardinality(S \cup {x}) <= Cardinality(S) + 1
  <2>1. CASE x \in S
    <3>1. S \cup {x} = S
      BY <2>1
    <3> QED
      BY <3>1
  <2>2. CASE x \notin S
    BY <1>1, <2>2
  <2> QED
    BY <2>1, <2>2
<1> QED
  BY <1>1, <1>2, <1>4, <1>5, <1>6

\* The shells a tank has in the air are finitely many shells.
LEMMA FlyingFinite ==
    ASSUME TypeOK, NEW t
    PROVE  IsFiniteSet(Flying(t)) /\ Cardinality(Flying(t)) \in Nat
<1>1. Flying(t) \in SUBSET ShellIds
  BY DEF Flying, TypeOK
<1> QED
  BY <1>1, Ids

----------------------------------------------------------------------------
(* The operators of GameRoom. *)

\* A room whose round begins: one tank for each of the players.
LEMMA InitRoundEffect ==
    ASSUME NEW r \in Room, Rows(r.players) \subseteq TankIds
    PROVE  LET new == InitRound(r)
           IN  /\ new \in Room
               /\ new.players = r.players
               /\ new.tanks = Rows(r.players)
               /\ new.survivors = Cardinality(Rows(r.players))
<1>1. Rows(r.players) \in SUBSET PlayerIds /\ Cardinality(Rows(r.players)) \in Int
  <2>1. Rows(r.players) \in SUBSET PlayerIds
    BY DEF Rows
  <2>2. \A T \in SUBSET TankIds : Cardinality(T) \in Nat
    BY Ids
  <2> QED
    BY <2>1, <2>2
<1> QED
  BY <1>1 DEF InitRound, Room

\* A full room is a room, and its players are its members.
LEMMA FullRoomType ==
    ASSUME NEW members \in SUBSET TankIds
    PROVE  FullRoom(members) \in Room /\ Rows(FullRoom(members).players) = members
<1> DEFINE players == [id \in PlayerIds |-> IF id \in members THEN 0 ELSE NoRow]
<1>1. players \in Scores /\ Rows(players) = members
  <2>1. members \subseteq PlayerIds
    BY Ids
  <2> QED
    BY <2>1 DEF Scores, Rows, NoRow
<1> DEFINE n == Cardinality(members)
           base == NewRoom(n)
<1>2. n \in 0..255
  BY MembersCounted
<1>3. base \in Room
  BY <1>2 DEF NewRoom, Room, RoomStatus, Scores, NoRow
<1>4. FullRoom(members) = [base EXCEPT !.status = "Playing", !.playerNum = n,
                                       !.usedTankId = members, !.players = players]
  BY DEF FullRoom
<1> HIDE DEF players, n, base
<1>5. FullRoom(members) =
         [cap |-> base.cap, status |-> "Playing", playerNum |-> n,
          players |-> players, usedTankId |-> members, tanks |-> base.tanks,
          survivors |-> base.survivors, hasWinner |-> base.hasWinner,
          restartNeeded |-> base.restartNeeded]
  BY <1>3, <1>4 DEF Room
<1>6. /\ base.cap \in 0..255 /\ base.tanks \subseteq PlayerIds
      /\ base.survivors \in Int /\ base.hasWinner \in BOOLEAN
      /\ base.restartNeeded \in BOOLEAN
  BY <1>3 DEF Room
<1>7. FullRoom(members) \in Room
  BY <1>1, <1>2, <1>5, <1>6 DEF Room, RoomStatus
<1>8. FullRoom(members).players = players
  BY <1>5
<1> QED
  BY <1>1, <1>7, <1>8

\* A call of moveAll, for a set of tanks hit, a number of hits and a winner.
LEMMA MoveAllEffect ==
    ASSUME NEW r \in Room, NEW dead, NEW hits \in Nat,
           NEW w \in TankIds \cup {NoWinner}
    PROVE  LET new == MoveAll(r, dead, hits, w)
           IN  /\ new.survivors = r.survivors - hits
               /\ new.hasWinner <=> r.hasWinner \/ w # NoWinner
               /\ new.players = IF w = NoWinner THEN r.players
                                ELSE SetRow(r.players, w, ScoreOf(r.players, w) + 1)
<1>1. /\ AfterHits(r, dead, hits) \in Room
      /\ AfterHits(r, dead, hits).tanks = r.tanks \ dead
      /\ AfterHits(r, dead, hits).survivors = r.survivors - hits
      /\ AfterHits(r, dead, hits).hasWinner = r.hasWinner
      /\ AfterHits(r, dead, hits).players = r.players
  <2>1. r.tanks \ dead \in SUBSET PlayerIds /\ r.survivors - hits \in Int
    BY DEF Room
  <2> QED
    BY <2>1 DEF AfterHits, Room
<1>2. CASE w = NoWinner
  BY <1>1, <1>2 DEF MoveAll, Room
<1>3. CASE w # NoWinner
  <2>1. w \in PlayerIds
    BY <1>3, Ids
  <2>2. SetRow(r.players, w, ScoreOf(r.players, w) + 1) \in Scores
    BY <2>1 DEF SetRow, ScoreOf, Room, Scores, NoRow
  <2> QED
    BY <1>1, <1>3, <2>2 DEF MoveAll, Room
<1> QED
  BY <1>2, <1>3

\* The tanks that are left after the call.
LEMMA MoveAllTanks ==
    ASSUME NEW r \in Room, NEW dead, NEW hits \in Nat,
           NEW w \in TankIds \cup {NoWinner}
    PROVE  MoveAll(r, dead, hits, w).tanks = r.tanks \ dead
<1>1. /\ AfterHits(r, dead, hits).tanks = r.tanks \ dead
      /\ AfterHits(r, dead, hits) \in Room
  <2>1. r.tanks \ dead \in SUBSET PlayerIds /\ r.survivors - hits \in Int
    BY DEF Room
  <2> QED
    BY <2>1 DEF AfterHits, Room
<1> QED
  BY <1>1 DEF MoveAll, Room

----------------------------------------------------------------------------
(* The steps. *)

\* A room whose first round begins, before anything moves.
LEMMA InitInv == Init => IInv
<1> SUFFICES ASSUME Init PROVE IInv
  OBVIOUS
<1>1. PICK members \in SUBSET TankIds \ {{}} : room = InitRound(FullRoom(members))
  BY DEF Init
<1>2. /\ room \in Room /\ Rows(room.players) = members /\ room.tanks = members
      /\ room.survivors = Cardinality(members)
  <2>1. PICK r \in Room : r = FullRoom(members) /\ Rows(r.players) = members
    BY FullRoomType
  <2> QED
    BY <1>1, <2>1, InitRoundEffect
<1>3. /\ DOMAIN shells = {} /\ shells \in [DOMAIN shells -> Shell]
      /\ unvisited = {} /\ deleted = {} /\ moving = FALSE /\ timers = 0
  BY DEF Init
<1>4. bullets = FullMagazines /\ bullets \in [TankIds -> 0..Magazine]
  BY MagazineAssumption DEF Init, FullMagazines
<1>5. /\ tick = [start |-> room, hits |-> 0, winner |-> NoWinner, again |-> 0,
                 lost |-> NoneLost]
      /\ NoneLost \in [TankIds -> Nat]
  BY DEF Init, NoneLost
<1>6. nextShell \in FirstShell..(FirstShell + MaxShells)
  BY RoundBoundsAssumption, MaxTankIdAssumption DEF Init, FirstShell
<1>7. TypeOK
  BY <1>2, <1>3, <1>4, <1>6 DEF TypeOK
<1>8. TickType
  BY <1>2, <1>5 DEF TickType, Tick
<1>9. TanksArePlayers /\ ShellsAreOlder /\ NothingLeftOver /\ ShellsVisitedOnce
  BY <1>2, <1>3 DEF TanksArePlayers, ShellsAreOlder, NothingLeftOver, ShellsVisitedOnce
<1>10. MagazineHolds
  <2> SUFFICES ASSUME NEW t \in room.tanks
               PROVE  bullets[t] + Cardinality(Flying(t)) + tick.lost[t] = Magazine
    BY DEF MagazineHolds
  <2>1. Flying(t) = {} /\ Cardinality({}) = 0
    BY <1>3, FS_EmptySet DEF Flying
  <2>2. bullets[t] = Magazine /\ tick.lost[t] = 0
    BY <1>2, <1>4, <1>5 DEF FullMagazines, NoneLost
  <2> QED
    BY <2>1, <2>2, MagazineAssumption
<1>11. SurvivorsCounted
  <2>1. room.tanks \ deleted = members
    BY <1>2, <1>3
  <2> QED
    BY <1>2, <2>1 DEF SurvivorsCounted
<1>12. CallSoFar
  BY <1>3 DEF CallSoFar
<1> QED
  BY <1>7, <1>8, <1>9, <1>10, <1>11, <1>12 DEF IInv

\* A shell that is fired is a new one, out of the magazine of its tank.
LEMMA FireInv ==
    ASSUME IInv, NEW t \in TankIds, Fire(t)
    PROVE  IInv'
<1>1. /\ TypeOK /\ TickType /\ TanksArePlayers /\ ShellsAreOlder /\ NothingLeftOver
      /\ MagazineHolds /\ SurvivorsCounted
  BY DEF IInv
<1>2. /\ moving = FALSE /\ unvisited = {} /\ deleted = {}
      /\ UNCHANGED <<room, moving, unvisited, deleted, timers, tick>>
  BY <1>1 DEF Fire, TypeOK, NothingLeftOver
<1>3. nextShell \notin DOMAIN shells /\ nextShell \in ShellIds /\ nextShell \in Nat
  BY <1>1, Ids DEF Fire, ShellsAreOlder
<1> DEFINE shell == [tank |-> t, ttl |-> InitialTTL]
<1>4. shell \in Shell /\ shell.tank = t
  BY MagazineAssumption DEF Shell
<1>5. shells' = [s \in DOMAIN shells \cup {nextShell} |->
                    IF s = nextShell THEN shell ELSE shells[s]]
  BY DEF Fire
<1> HIDE DEF shell
<1>6. /\ DOMAIN shells' = DOMAIN shells \cup {nextShell}
      /\ shells'[nextShell] = shell
      /\ \A s \in DOMAIN shells : shells'[s] = shells[s]
      /\ shells' \in [DOMAIN shells' -> Shell]
  BY <1>1, <1>3, <1>4, <1>5 DEF TypeOK
<1>7. /\ bullets' \in [TankIds -> 0..Magazine]
      /\ bullets'[t] = bullets[t] - 1
      /\ \A u \in TankIds : u # t => bullets'[u] = bullets[u]
  BY <1>1, MagazineAssumption DEF Fire, ShellTaken, TypeOK
<1>8. nextShell' = nextShell + 1
      /\ nextShell' \in FirstShell..(FirstShell + MaxShells)
  BY RoundBoundsAssumption, MaxTankIdAssumption DEF Fire, ShellIds, FirstShell
<1>9. TypeOK'
  BY <1>1, <1>2, <1>3, <1>6, <1>7, <1>8 DEF TypeOK
<1>10. ShellsAreOlder'
  <2>1. \A s \in DOMAIN shells : s \in Nat
    BY <1>1, Ids DEF TypeOK
  <2> QED
    BY <1>1, <1>3, <1>6, <1>8, <2>1 DEF ShellsAreOlder
<1>11. MagazineHolds'
  <2> SUFFICES ASSUME NEW u \in room.tanks
               PROVE  bullets'[u] + Cardinality(Flying(u)') + tick.lost[u] = Magazine
    BY <1>2 DEF MagazineHolds
  <2>1. /\ bullets[u] + Cardinality(Flying(u)) + tick.lost[u] = Magazine
        /\ u \in TankIds /\ tick.lost[u] \in Nat /\ bullets[u] \in Nat
    BY <1>1 DEF MagazineHolds, TanksArePlayers, TickType, Tick, TypeOK
  <2>2. IsFiniteSet(Flying(u)) /\ Cardinality(Flying(u)) \in Nat
    BY <1>1, FlyingFinite
  <2>3. CASE u = t
    <3>1. Flying(u)' = Flying(u) \cup {nextShell} /\ nextShell \notin Flying(u)
      BY <1>2, <1>3, <1>4, <1>6, <2>3 DEF Flying
    <3>2. Cardinality(Flying(u)') = Cardinality(Flying(u)) + 1
      BY <2>2, <3>1, CardinalityFacts
    <3> QED
      BY <1>7, <2>1, <2>2, <2>3, <3>2
  <2>4. CASE u # t
    <3>1. Flying(u)' = Flying(u)
      BY <1>2, <1>3, <1>4, <1>6, <2>4 DEF Flying
    <3> QED
      BY <1>7, <2>1, <2>4, <3>1
  <2> QED
    BY <2>3, <2>4
<1> QED
  BY <1>1, <1>2, <1>9, <1>10, <1>11
     DEF IInv, TickType, TanksArePlayers, NothingLeftOver, ShellsVisitedOnce,
         SurvivorsCounted, CallSoFar

\* A call of moveAll begins: it has changed nothing yet.
LEMMA MoveAllBeginsInv ==
    ASSUME IInv, MoveAllBegins
    PROVE  IInv'
<1>1. /\ TypeOK /\ TickType /\ TanksArePlayers /\ ShellsAreOlder /\ NothingLeftOver
      /\ MagazineHolds /\ SurvivorsCounted
  BY DEF IInv
<1>2. /\ moving' = TRUE /\ deleted' = {} /\ deleted = {}
      /\ unvisited' = room.tanks \cup DOMAIN shells
      /\ UNCHANGED <<room, shells, bullets, nextShell, timers>>
  BY <1>1 DEF MoveAllBegins, roundVars, NothingLeftOver
<1>3. /\ tick' \in Tick /\ tick'.start = room /\ tick'.hits = 0
      /\ tick'.winner = NoWinner /\ tick'.again = tick.again /\ tick'.lost = tick.lost
  BY <1>1 DEF MoveAllBegins, TickType, Tick, TypeOK
<1>4. TypeOK'
  BY <1>1, <1>2 DEF TypeOK
<1>5. room' = MoveAll(room, {}, 0, NoWinner)
  <2>1. room.tanks \ {} = room.tanks /\ room.survivors - 0 = room.survivors
    BY <1>1 DEF TypeOK, Room
  <2>2. MoveAll(room, {}, 0, NoWinner) = AfterHits(room, {}, 0)
    BY DEF MoveAll
  <2>3. [room EXCEPT !.tanks = room.tanks, !.survivors = room.survivors] = room
    BY <1>1 DEF TypeOK, Room
  <2> QED
    BY <1>2, <2>1, <2>2, <2>3 DEF AfterHits
<1>6. HitsPossible(room, {}, 0)
  BY FS_EmptySet DEF HitsPossible
<1>7. Dead' = {}
  BY <1>2 DEF Dead
<1>8. CallSoFar'
  BY <1>2, <1>3, <1>5, <1>6, <1>7 DEF CallSoFar, WonSoFar, UndecidedSoFar
<1>9. MagazineHolds'
  BY <1>1, <1>2, <1>3 DEF MagazineHolds, Flying
<1> QED
  BY <1>1, <1>2, <1>3, <1>4, <1>8, <1>9
     DEF IInv, TickType, TanksArePlayers, ShellsAreOlder, NothingLeftOver,
         ShellsVisitedOnce, SurvivorsCounted

\* What every visit of a shell leaves alone.
LEMMA VisitFacts ==
    ASSUME IInv, NEW object, Visit(object)
    PROVE  /\ TypeOK /\ TickType /\ TanksArePlayers /\ ShellsAreOlder
           /\ ShellsVisitedOnce /\ MagazineHolds /\ SurvivorsCounted
           /\ moving = TRUE /\ moving' = TRUE
           /\ object \in unvisited /\ unvisited' = unvisited \ {object}
           /\ UNCHANGED <<nextShell, timers>>
           /\ room = MoveAll(tick.start, {}, tick.hits, tick.winner)
           /\ HitsPossible(tick.start, Dead, tick.hits) /\ WonSoFar /\ UndecidedSoFar
           /\ room.tanks = tick.start.tanks
           /\ room.survivors = tick.start.survivors - tick.hits
           /\ room.hasWinner <=> tick.start.hasWinner \/ tick.winner # NoWinner
           /\ tick.start \in Room /\ tick.hits \in Nat
           /\ tick.winner \in TankIds \cup {NoWinner}
<1>1. /\ TypeOK /\ TickType /\ TanksArePlayers /\ ShellsAreOlder /\ ShellsVisitedOnce
      /\ MagazineHolds /\ SurvivorsCounted /\ CallSoFar
  BY DEF IInv
<1>2. /\ moving = TRUE /\ moving' = TRUE
      /\ object \in unvisited /\ unvisited' = unvisited \ {object}
      /\ UNCHANGED <<nextShell, timers>>
  BY <1>1 DEF Visit, TypeOK
<1>3. /\ room = MoveAll(tick.start, {}, tick.hits, tick.winner)
      /\ HitsPossible(tick.start, Dead, tick.hits) /\ WonSoFar /\ UndecidedSoFar
  BY <1>1, <1>2 DEF CallSoFar
<1>4. /\ tick.start \in Room /\ tick.hits \in Nat
      /\ tick.winner \in TankIds \cup {NoWinner}
  BY <1>1 DEF TickType, Tick
<1>5. /\ room.tanks = tick.start.tanks \ {}
      /\ room.survivors = tick.start.survivors - tick.hits
      /\ room.hasWinner <=> tick.start.hasWinner \/ tick.winner # NoWinner
  <2>1. PICK r \in Room, h \in Nat, w \in TankIds \cup {NoWinner} :
           r = tick.start /\ h = tick.hits /\ w = tick.winner
    BY <1>4
  <2>2. MoveAll(r, {}, h, w).tanks = r.tanks \ {}
    BY MoveAllTanks
  <2>3. /\ MoveAll(r, {}, h, w).survivors = r.survivors - h
        /\ MoveAll(r, {}, h, w).hasWinner <=> r.hasWinner \/ w # NoWinner
    BY MoveAllEffect
  <2> QED
    BY <1>3, <2>1, <2>2, <2>3
<1>6. room.tanks = tick.start.tanks
  BY <1>5
<1> QED
  BY <1>1, <1>2, <1>3, <1>4, <1>5, <1>6

\* A shell in flight meets nothing.
LEMMA FlyOnInv ==
    ASSUME IInv, NEW s \in DOMAIN shells, FlyOn(s)
    PROVE  IInv'
<1>0. /\ Visit(s) /\ UNCHANGED <<room, shells, bullets, deleted, tick>>
  BY DEF FlyOn
<1>1. s \notin TankIds
  BY <1>0, VisitFacts, Ids DEF TypeOK
<1>2. TypeOK'
  BY <1>0, VisitFacts DEF TypeOK
<1>3. ShellsVisitedOnce'
  BY <1>0, VisitFacts DEF ShellsVisitedOnce
<1>4. UndecidedSoFar'
  BY <1>0, <1>1, VisitFacts DEF UndecidedSoFar, TanksArePlayers
<1>5. CallSoFar'
  BY <1>0, <1>4, VisitFacts DEF CallSoFar, WonSoFar, Dead
<1> QED
  BY <1>0, <1>2, <1>3, <1>5, VisitFacts
     DEF IInv, TickType, TanksArePlayers, ShellsAreOlder, NothingLeftOver,
         MagazineHolds, Flying, SurvivorsCounted

\* A shell that bounces is still in the air, or back in the magazine of its tank.
LEMMA BounceInv ==
    ASSUME IInv, NEW s \in DOMAIN shells, Bounce(s)
    PROVE  IInv'
<1>0. Visit(s) /\ UNCHANGED <<room, tick>>
  BY DEF Bounce
<1>1. /\ TypeOK /\ s \in unvisited /\ s \notin deleted
      /\ s \in ShellIds /\ s \notin TankIds
  BY <1>0, VisitFacts, Ids DEF TypeOK, ShellsVisitedOnce
<1>2. shells' = [shells EXCEPT ![s].ttl = @ - 1]
  BY DEF Bounce
<1>3. /\ DOMAIN shells' = DOMAIN shells
      /\ \A r \in DOMAIN shells : shells'[r].tank = shells[r].tank
      /\ shells' \in [DOMAIN shells' -> Shell]
  <2>1. shells \in [DOMAIN shells -> Shell]
    BY <1>1 DEF TypeOK
  <2> QED
    BY <1>2, <2>1 DEF Shell
<1>4. shells[s].tank \in TankIds
  BY <1>1 DEF TypeOK, Shell
<1>5. \/ /\ deleted' = deleted \cup {s}
         /\ bullets' = IF shells[s].tank \in room.tanks
                       THEN ShellReturned(shells[s].tank) ELSE bullets
      \/ UNCHANGED <<deleted, bullets>>
  BY DEF Bounce, SpentBy
<1>6. PICK x \in TankIds : x = shells[s].tank
  BY <1>4
<1>7. ASSUME NEW t \in room.tanks
      PROVE  /\ t \in TankIds /\ bullets[t] \in Nat /\ tick.lost[t] \in Nat
             /\ bullets[t] + Cardinality(Flying(t)) + tick.lost[t] = Magazine
             /\ IsFiniteSet(Flying(t)) /\ Cardinality(Flying(t)) \in Nat
  <2>1. t \in TankIds
    BY <1>0, VisitFacts DEF TanksArePlayers
  <2>2. bullets[t] + Cardinality(Flying(t)) + tick.lost[t] = Magazine
    BY <1>0, VisitFacts DEF MagazineHolds
  <2>3. bullets[t] \in Nat /\ tick.lost[t] \in Nat
    <3>1. bullets[t] \in 0..Magazine
      BY <1>1, <2>1 DEF TypeOK
    <3>2. TickType
      BY <1>0, VisitFacts
    <3>3. tick.lost[t] \in Nat
      BY <2>1, <3>2 DEF TickType, Tick
    <3> QED
      BY <3>1, <3>3, MagazineAssumption
  <2> QED
    BY <1>1, <2>1, <2>2, <2>3, FlyingFinite
<1>8. /\ bullets' \in [TankIds -> 0..Magazine]
      /\ MagazineHolds'
  <2>1. CASE UNCHANGED <<deleted, bullets>>
    <3>1. \A t : Flying(t)' = Flying(t)
      BY <1>3, <2>1 DEF Flying
    <3> QED
      BY <1>0, <1>1, <2>1, <3>1, VisitFacts DEF TypeOK, MagazineHolds
  <2>2. CASE /\ deleted' = deleted \cup {s}
             /\ bullets' = IF x \in room.tanks THEN ShellReturned(x) ELSE bullets
    <3>1. /\ s \in Flying(x) /\ Flying(x)' = Flying(x) \ {s}
          /\ \A t \in TankIds : t # x => Flying(t)' = Flying(t)
      BY <1>1, <1>3, <1>6, <2>2 DEF Flying
    <3>2. CASE x \in room.tanks
      <4>1. /\ Cardinality(Flying(x)') = Cardinality(Flying(x)) - 1
            /\ Cardinality(Flying(x)) >= 1
        BY <1>7, <3>1, <3>2, CardinalityFacts
      <4>2. bullets[x] + 1 \in 0..Magazine
        BY <1>7, <3>2, <4>1, MagazineAssumption
      <4>3. /\ bullets' \in [TankIds -> 0..Magazine]
            /\ bullets'[x] = bullets[x] + 1
            /\ \A t \in TankIds : t # x => bullets'[t] = bullets[t]
        BY <1>1, <2>2, <3>2, <4>2 DEF ShellReturned, TypeOK
      <4>4. ASSUME NEW t \in room.tanks
            PROVE  bullets'[t] + Cardinality(Flying(t)') + tick.lost[t] = Magazine
        <5>1. CASE t = x
          BY <1>7, <4>1, <4>3, <5>1
        <5>2. CASE t # x
          BY <1>7, <3>1, <4>3, <5>2
        <5> QED
          BY <5>1, <5>2
      <4> QED
        BY <1>0, <4>3, <4>4 DEF MagazineHolds
    <3>3. CASE x \notin room.tanks
      <4>1. bullets' = bullets
        BY <2>2, <3>3
      <4>2. ASSUME NEW t \in room.tanks
            PROVE  bullets'[t] + Cardinality(Flying(t)') + tick.lost[t] = Magazine
        BY <1>7, <3>1, <3>3, <4>1
      <4> QED
        BY <1>0, <1>1, <4>1, <4>2 DEF MagazineHolds, TypeOK
    <3> QED
      BY <3>2, <3>3
  <2> QED
    BY <1>5, <1>6, <2>1, <2>2
<1>9. TypeOK'
  BY <1>0, <1>1, <1>3, <1>5, <1>8, VisitFacts DEF TypeOK
<1>10. ShellsVisitedOnce'
  BY <1>0, <1>3, <1>5, VisitFacts DEF ShellsVisitedOnce
<1>11. Dead' = Dead /\ room'.tanks \ deleted' = room.tanks \ deleted
  <2>1. room.tanks \subseteq TankIds /\ tick.start.tanks \subseteq TankIds
    BY <1>0, VisitFacts DEF TanksArePlayers
  <2> QED
    BY <1>0, <1>1, <1>5, <2>1 DEF Dead
<1>12. SurvivorsCounted'
  BY <1>0, <1>11, VisitFacts DEF SurvivorsCounted
<1>13. UndecidedSoFar'
  BY <1>0, <1>1, VisitFacts DEF UndecidedSoFar, TanksArePlayers
<1>14. CallSoFar'
  BY <1>0, <1>11, <1>13, VisitFacts DEF CallSoFar, WonSoFar
<1> QED
  BY <1>0, <1>3, <1>8, <1>9, <1>10, <1>12, <1>14, VisitFacts
     DEF IInv, TickType, TanksArePlayers, ShellsAreOlder, NothingLeftOver

\* One more hit.
LEMMA OneMoreHit ==
    ASSUME NEW r \in Room, NEW hits \in Nat, NEW w \in TankIds \cup {NoWinner}
    PROVE  MoveAll(r, {}, hits + 1, w)
              = [MoveAll(r, {}, hits, w) EXCEPT !.survivors = @ - 1]
<1>1. PICK n \in Int : n = r.survivors - hits
  BY DEF Room
<1>2. r.survivors - (hits + 1) = n - 1
  BY <1>1 DEF Room
<1>3. /\ AfterHits(r, {}, hits) = [r EXCEPT !.tanks = @ \ {}, !.survivors = n]
      /\ AfterHits(r, {}, hits + 1) = [r EXCEPT !.tanks = @ \ {}, !.survivors = n - 1]
  BY <1>1, <1>2 DEF AfterHits
<1>4. r.tanks \ {} = r.tanks
  OBVIOUS
<1>5. /\ AfterHits(r, {}, hits) = [r EXCEPT !.survivors = n]
      /\ AfterHits(r, {}, hits + 1) = [r EXCEPT !.survivors = n - 1]
  BY <1>3, <1>4 DEF Room
<1> DEFINE before == AfterHits(r, {}, hits)
           after == AfterHits(r, {}, hits + 1)
<1>6. /\ before \in Room /\ after = [before EXCEPT !.survivors = @ - 1]
      /\ after.players = before.players
  BY <1>1, <1>5 DEF Room
<1>7. CASE w = NoWinner
  BY <1>6, <1>7 DEF MoveAll
<1>8. CASE w # NoWinner
  <2>1. PICK players : players = SetRow(before.players, w, ScoreOf(before.players, w) + 1)
    OBVIOUS
  <2>2. /\ MoveAll(r, {}, hits, w) = [before EXCEPT !.hasWinner = TRUE,
                                        !.restartNeeded = TRUE, !.players = players]
        /\ MoveAll(r, {}, hits + 1, w) = [after EXCEPT !.hasWinner = TRUE,
                                        !.restartNeeded = TRUE, !.players = players]
    BY <1>6, <1>8, <2>1 DEF MoveAll
  <2> HIDE DEF before, after
  <2> QED
    BY <1>6, <2>2 DEF Room
<1> QED
  BY <1>7, <1>8

\* A hit costs the shell and counts the tank, a second time if it was hit before.
LEMMA HitTankInv ==
    ASSUME IInv, NEW s \in DOMAIN shells, NEW t \in TankIds, HitTank(s, t)
    PROVE  IInv'
<1>0. /\ Visit(s) /\ t \in room.tanks
      /\ deleted' = deleted \cup {t, s}
      /\ room' = [room EXCEPT !.survivors = room.survivors - 1]
      /\ UNCHANGED <<shells, bullets>>
  BY DEF HitTank, MayMeet, OneLess
<1>1. /\ TypeOK /\ TickType /\ s \in unvisited /\ s \notin deleted
      /\ s \in ShellIds /\ s \notin TankIds /\ t \notin DOMAIN shells
      /\ unvisited' = unvisited \ {s} /\ UNCHANGED <<nextShell, timers, moving>>
  BY <1>0, VisitFacts, Ids DEF TypeOK, ShellsVisitedOnce
<1>2. /\ room' \in Room /\ room'.tanks = room.tanks /\ room'.players = room.players
      /\ room'.survivors = room.survivors - 1
  BY <1>0, <1>1 DEF TypeOK, Room
<1>3. PICK x \in TankIds : x = shells[s].tank
  BY <1>1 DEF TypeOK, Shell
<1>4. PICK lost \in [TankIds -> Nat], again \in Nat :
          /\ lost = [tick.lost EXCEPT ![x] = @ + 1]
          /\ again = IF t \in deleted THEN tick.again + 1 ELSE tick.again
  <2>1. tick.again \in Nat /\ tick.lost \in [TankIds -> Nat]
    BY <1>1 DEF TickType, Tick
  <2>2. [tick.lost EXCEPT ![x] = @ + 1] \in [TankIds -> Nat]
    BY <2>1
  <2>3. (IF t \in deleted THEN tick.again + 1 ELSE tick.again) \in Nat
    BY <2>1
  <2> QED
    BY <2>2, <2>3
<1>a. tick' = [tick EXCEPT !.hits = @ + 1, !.again = again, !.lost = lost]
  <2>1. tick' = [tick EXCEPT !.hits = @ + 1,
                             !.again = IF t \in deleted THEN @ + 1 ELSE @,
                             !.lost[x] = @ + 1]
    BY <1>3 DEF HitTank
  <2> QED
    BY <1>4, <2>1
<1>5. /\ tick' \in Tick /\ tick'.start = tick.start /\ tick'.hits = tick.hits + 1
      /\ tick'.winner = tick.winner
      /\ tick'.again = IF t \in deleted THEN tick.again + 1 ELSE tick.again
      /\ tick'.lost = [tick.lost EXCEPT ![x] = @ + 1]
  <2>1. /\ tick' \in Tick /\ tick'.start = tick.start /\ tick'.hits = tick.hits + 1
        /\ tick'.winner = tick.winner /\ tick'.again = again /\ tick'.lost = lost
    <3>1. PICK hits \in Nat : hits = tick.hits + 1
      BY <1>1 DEF TickType, Tick
    <3>2. tick' = [tick EXCEPT !.hits = hits, !.again = again, !.lost = lost]
      BY <1>a, <3>1
    <3> QED
      BY <1>1, <3>1, <3>2 DEF TickType, Tick
  <2> QED
    BY <1>4, <2>1
<1>6. TypeOK'
  BY <1>0, <1>1, <1>2 DEF TypeOK
<1>7. TanksArePlayers' /\ ShellsAreOlder'
  BY <1>0, <1>1, <1>2, VisitFacts DEF TanksArePlayers, ShellsAreOlder
<1>8. ShellsVisitedOnce'
  BY <1>0, <1>1, VisitFacts DEF ShellsVisitedOnce
<1>9. MagazineHolds'
  <2> SUFFICES ASSUME NEW u \in room.tanks
               PROVE  bullets[u] + Cardinality(Flying(u)') + tick'.lost[u] = Magazine
    BY <1>0, <1>2 DEF MagazineHolds
  <2>1. /\ bullets[u] + Cardinality(Flying(u)) + tick.lost[u] = Magazine
        /\ u \in TankIds
    BY <1>0, VisitFacts DEF MagazineHolds, TanksArePlayers
  <2>2. tick.lost \in [TankIds -> Nat] /\ tick.lost[u] \in Nat
    BY <1>1, <2>1 DEF TickType, Tick
  <2>3. bullets[u] \in Nat
    BY <1>1, <2>1, MagazineAssumption DEF TypeOK
  <2>4. IsFiniteSet(Flying(u)) /\ Cardinality(Flying(u)) \in Nat
    BY <1>1, FlyingFinite
  <2>5. CASE u = x
    <3>1. s \in Flying(u) /\ Flying(u)' = Flying(u) \ {s}
      BY <1>0, <1>1, <1>3, <2>5 DEF Flying
    <3>2. Cardinality(Flying(u)') = Cardinality(Flying(u)) - 1
      BY <2>4, <3>1, CardinalityFacts
    <3>3. tick'.lost[u] = tick.lost[u] + 1
      BY <1>5, <2>1, <2>2, <2>5
    <3> QED
      BY <2>1, <2>2, <2>3, <2>4, <3>2, <3>3
  <2>6. CASE u # x
    <3>1. Flying(u)' = Flying(u)
      BY <1>0, <1>1, <1>3, <2>6 DEF Flying
    <3>2. tick'.lost[u] = tick.lost[u]
      BY <1>5, <2>1, <2>2, <2>6
    <3> QED
      BY <2>1, <3>1, <3>2
  <2> QED
    BY <2>5, <2>6
<1>10. room.tanks \subseteq TankIds /\ s \notin room.tanks
  BY <1>0, <1>1, VisitFacts DEF TanksArePlayers
<1>11. SurvivorsCounted'
  <2> SUFFICES ASSUME tick'.again = 0
               PROVE  room'.survivors = Cardinality(room'.tanks \ deleted')
    BY DEF SurvivorsCounted
  <2>1. t \notin deleted /\ tick.again = 0
    BY <1>1, <1>5 DEF TickType, Tick
  <2> DEFINE left == room.tanks \ deleted
  <2>2. room.survivors = Cardinality(left)
    BY <1>0, <2>1, VisitFacts DEF SurvivorsCounted
  <2>3. left \in SUBSET TankIds /\ t \in left
    BY <1>0, <1>10, <2>1
  <2>4. room'.tanks \ deleted' = left \ {t}
    BY <1>0, <1>2, <1>10
  <2> HIDE DEF left
  <2>5. IsFiniteSet(left) /\ Cardinality(left) \in Nat
    BY <2>3, Ids
  <2>6. Cardinality(left \ {t}) = Cardinality(left) - 1
    BY <2>3, <2>5, CardinalityFacts
  <2> QED
    BY <1>2, <2>2, <2>4, <2>6
<1>12. PICK r \in Room, h \in Nat, w \in TankIds \cup {NoWinner} :
          r = tick.start /\ h = tick.hits /\ w = tick.winner
  BY <1>0, VisitFacts
<1>13. room' = MoveAll(r, {}, h + 1, w)
  <2>1. room = MoveAll(r, {}, h, w)
    BY <1>0, <1>12, VisitFacts
  <2>2. MoveAll(r, {}, h + 1, w) = [MoveAll(r, {}, h, w) EXCEPT !.survivors = @ - 1]
    BY OneMoreHit
  <2> QED
    BY <1>0, <2>1, <2>2
<1>14. PICK D : D = Dead
  OBVIOUS
<1>15. /\ D \in SUBSET TankIds /\ t \in r.tanks /\ Dead' = D \cup {t}
       /\ r.tanks = room.tanks
  BY <1>0, <1>5, <1>10, <1>12, <1>14, VisitFacts DEF Dead
<1>16. HitsPossible(r, D, h)
  BY <1>0, <1>12, <1>14, VisitFacts
<1>17. HitsPossible(r, D \cup {t}, h + 1)
  <2>1. Cardinality(D) <= h /\ D \subseteq r.tanks \ {0}
    BY <1>16 DEF HitsPossible
  <2>2. IsFiniteSet(D) /\ Cardinality(D) \in Nat /\ t # 0
    BY <1>15, Ids
  <2>3. Cardinality(D \cup {t}) <= Cardinality(D) + 1
    BY <2>2, CardinalityFacts
  <2>4. IsFiniteSet(D \cup {t}) /\ Cardinality(D \cup {t}) \in Nat
    <3>1. D \cup {t} \in SUBSET TankIds
      BY <1>15
    <3> QED
      BY <3>1, Ids
  <2>5. Cardinality(D \cup {t}) <= h + 1
    BY <2>1, <2>2, <2>3, <2>4
  <2>6. D \cup {t} \subseteq r.tanks \ {0}
    BY <1>15, <2>1, <2>2
  <2> QED
    BY <2>5, <2>6 DEF HitsPossible
<1>18. WonSoFar'
  <2> SUFFICES ASSUME w # NoWinner
               PROVE  /\ ~r.hasWinner
                      /\ w \in r.tanks
                      /\ r.survivors >= 1
                      /\ r.survivors - (h + 1) <= 1
                      /\ w \in D \cup {t} => r.survivors - (h + 1) < 1
                      /\ D \cup {t} \subseteq {w} => r.survivors = 1
    BY <1>5, <1>12, <1>15 DEF WonSoFar
  <2>1. /\ ~r.hasWinner
        /\ w \in r.tanks
        /\ r.survivors >= 1
        /\ r.survivors - h <= 1
        /\ D \subseteq {w} => r.survivors = 1
    BY <1>0, <1>12, <1>14, VisitFacts DEF WonSoFar
  <2>2. r.survivors \in Int
    BY DEF Room
  <2> QED
    BY <2>1, <2>2
<1>19. UndecidedSoFar'
  <2>1. MayEndUndecided(r, h + 1)
    BY DEF MayEndUndecided
  <2> QED
    BY <1>5, <1>12, <2>1 DEF UndecidedSoFar
<1>20. CallSoFar'
  BY <1>0, <1>5, <1>12, <1>13, <1>15, <1>17, <1>18, <1>19 DEF CallSoFar
<1>21. NothingLeftOver'
  BY <1>0, VisitFacts DEF NothingLeftOver
<1> QED
  BY <1>5, <1>6, <1>7, <1>8, <1>9, <1>11, <1>20, <1>21 DEF IInv, TickType

\* The first tank that is visited as the only survivor wins, once a round.
LEMMA VisitTankInv ==
    ASSUME IInv, NEW t \in room.tanks, VisitTank(t)
    PROVE  IInv'
<1>0. Visit(t) /\ UNCHANGED <<shells, bullets, deleted>>
  BY DEF VisitTank
<1>1. /\ TypeOK /\ TickType /\ t \in TankIds /\ t \in PlayerIds
      /\ room.players[t] \in Nat /\ room.players \in Scores
  <2>1. TypeOK /\ TickType /\ t \in Rows(room.players) /\ t \in TankIds
    BY <1>0, VisitFacts DEF TanksArePlayers
  <2>2. room.players \in Scores
    BY <2>1 DEF TypeOK, Room
  <2> QED
    BY <2>1, <2>2, Ids DEF Rows, Scores
<1>2. PICK r \in Room, h \in Nat, w \in TankIds \cup {NoWinner} :
         r = tick.start /\ h = tick.hits /\ w = tick.winner
  BY <1>0, VisitFacts
<1>3. PICK D : D = Dead
  OBVIOUS
<1>4. /\ HitsPossible(r, D, h) /\ r.tanks = room.tanks
      /\ room = MoveAll(r, {}, h, w) /\ room.survivors = r.survivors - h
      /\ room.hasWinner <=> r.hasWinner \/ w # NoWinner
      /\ r.survivors \in Int
  <2>1. r.survivors \in Int
    BY DEF Room
  <2> QED
    BY <1>0, <1>2, <1>3, <2>1, VisitFacts
<1>5. CASE ~Wins(t)
  <2>1. UNCHANGED <<room, tick>>
    BY <1>5 DEF VisitTank
  <2>2. UndecidedSoFar'
    <3> SUFFICES ASSUME w = NoWinner, ~MayEndUndecided(r, h)
                 PROVE  r.tanks \subseteq unvisited \ {t}
      BY <1>0, <1>2, <2>1, VisitFacts DEF UndecidedSoFar
    <3>1. ~r.hasWinner /\ r.survivors = 1 /\ h = 0
      BY DEF MayEndUndecided
    <3>2. D = {}
      <4>1. /\ D \subseteq TankIds /\ Cardinality(D) <= 0
        BY <1>0, <1>2, <1>3, <1>4, <3>1, VisitFacts
           DEF HitsPossible, TanksArePlayers, Dead
      <4>2. IsFiniteSet(D) /\ Cardinality(D) \in Nat
        BY <4>1, Ids
      <4> QED
        BY <4>1, <4>2, FS_EmptySet
    <3>3. Wins(t)
      BY <1>2, <1>3, <1>4, <3>1, <3>2 DEF Wins, Dead
    <3> QED
      BY <1>5, <3>3
  <2>3. CallSoFar'
    BY <1>0, <2>1, <2>2, VisitFacts DEF CallSoFar, WonSoFar, Dead
  <2> QED
    BY <1>0, <2>1, <2>3, VisitFacts
       DEF IInv, TypeOK, TickType, TanksArePlayers, ShellsAreOlder, NothingLeftOver,
           ShellsVisitedOnce, MagazineHolds, Flying, SurvivorsCounted
<1>6. CASE Wins(t)
  <2>1. /\ room' = [room EXCEPT !.hasWinner = TRUE, !.restartNeeded = TRUE,
                                !.players[t] = @ + 1]
        /\ tick' = [tick EXCEPT !.winner = t]
        /\ room.survivors = 1 /\ ~room.hasWinner /\ t \notin deleted
    BY <1>6 DEF VisitTank, Wins
  <2>2. PICK players \in Scores :
           /\ players = SetRow(room.players, t, ScoreOf(room.players, t) + 1)
           /\ players = [room.players EXCEPT ![t] = @ + 1]
           /\ Rows(players) = Rows(room.players)
    <3>1. ScoreOf(room.players, t) = room.players[t]
      BY <1>1 DEF ScoreOf, NoRow
    <3>2. [room.players EXCEPT ![t] = @ + 1] \in Scores
      BY <1>1 DEF Scores
    <3>3. Rows([room.players EXCEPT ![t] = @ + 1]) = Rows(room.players)
      BY <1>1 DEF Rows, Scores, NoRow
    <3> QED
      BY <3>1, <3>2, <3>3 DEF SetRow
  <2>3. room' = [room EXCEPT !.hasWinner = TRUE, !.restartNeeded = TRUE,
                             !.players = players]
    BY <2>1, <2>2
  <2>4. /\ room' \in Room /\ room'.tanks = room.tanks
        /\ room'.survivors = room.survivors /\ room'.players = players
    BY <1>1, <2>3 DEF TypeOK, Room
  <2>5. /\ tick' \in Tick /\ tick'.start = r /\ tick'.hits = h /\ tick'.winner = t
        /\ tick'.again = tick.again /\ tick'.lost = tick.lost
    BY <1>1, <1>2, <2>1 DEF TickType, Tick
  <2>6. w = NoWinner /\ ~r.hasWinner /\ r.survivors - h = 1
    BY <1>4, <2>1
  <2>7. room' = MoveAll(r, {}, h, t)
    <3>1. room = AfterHits(r, {}, h) /\ t # NoWinner
      BY <1>1, <1>4, <2>6, Ids DEF MoveAll
    <3> QED
      BY <2>2, <2>3, <3>1 DEF MoveAll
  <2>8. Dead' = D
    BY <1>0, <1>2, <1>3, <2>5 DEF Dead
  <2>9. WonSoFar'
    <3> SUFFICES /\ ~r.hasWinner /\ t \in r.tanks /\ r.survivors >= 1
                 /\ r.survivors - h <= 1 /\ t \notin D
                 /\ D \subseteq {t} => r.survivors = 1
      BY <2>5, <2>8 DEF WonSoFar
    <3>1. t \notin D
      BY <1>3, <2>1 DEF Dead
    <3>2. D \subseteq {t} => h = 0
      BY <1>4, <3>1 DEF HitsPossible
    <3> QED
      BY <1>4, <2>6, <3>1, <3>2
  <2>10. UndecidedSoFar'
    <3>1. tick'.winner # NoWinner
      BY <1>1, <2>5, Ids
    <3> QED
      BY <3>1 DEF UndecidedSoFar
  <2>11. CallSoFar'
    BY <1>4, <2>5, <2>7, <2>8, <2>9, <2>10 DEF CallSoFar
  <2>12. TypeOK'
    BY <1>0, <1>1, <2>4, VisitFacts DEF TypeOK
  <2>13. TanksArePlayers' /\ SurvivorsCounted'
    BY <1>0, <2>2, <2>4, <2>5, VisitFacts DEF TanksArePlayers, SurvivorsCounted
  <2>14. MagazineHolds'
    BY <1>0, <2>4, <2>5, VisitFacts DEF MagazineHolds, Flying
  <2>15. ShellsAreOlder' /\ ShellsVisitedOnce' /\ NothingLeftOver'
    BY <1>0, VisitFacts DEF ShellsAreOlder, ShellsVisitedOnce, NothingLeftOver
  <2> QED
    BY <2>5, <2>11, <2>12, <2>13, <2>14, <2>15 DEF IInv, TickType
<1> QED
  BY <1>5, <1>6

\* What moveAll has deleted is gone when it ends, and nothing else.
LEMMA MoveAllEndsInv ==
    ASSUME IInv, MoveAllEnds
    PROVE  IInv'
<1>1. /\ TypeOK /\ TickType /\ TanksArePlayers /\ ShellsAreOlder /\ MagazineHolds
      /\ SurvivorsCounted
  BY DEF IInv
<1>2. /\ moving' = FALSE /\ unvisited' = {} /\ deleted' = {}
      /\ UNCHANGED <<bullets, nextShell, tick>>
  BY DEF MoveAllEnds
<1>3. PICK tanks \in SUBSET PlayerIds : tanks = room.tanks \ deleted
  BY <1>1 DEF TypeOK, Room
<1>4. room' = [room EXCEPT !.tanks = tanks, !.restartNeeded = FALSE]
  <2>1. room' = ClearRestart([room EXCEPT !.tanks = tanks])
    BY <1>3 DEF MoveAllEnds
  <2> QED
    BY <1>1, <2>1 DEF ClearRestart, TypeOK, Room
<1>5. /\ room' \in Room /\ room'.tanks = tanks /\ room'.players = room.players
      /\ room'.survivors = room.survivors
  BY <1>1, <1>4 DEF TypeOK, Room
<1>6. /\ DOMAIN shells' = DOMAIN shells \ deleted
      /\ \A s \in DOMAIN shells' : shells'[s] = shells[s]
      /\ shells' \in [DOMAIN shells' -> Shell]
  <2>1. shells' = [s \in DOMAIN shells \ deleted |-> shells[s]]
    <3>1. shells' = [s \in DOMAIN shells \cap (DOMAIN shells \ deleted) |-> shells[s]]
      BY DEF MoveAllEnds, Restrict
    <3>2. DOMAIN shells \cap (DOMAIN shells \ deleted) = DOMAIN shells \ deleted
      OBVIOUS
    <3> QED
      BY <3>1, <3>2
  <2> QED
    BY <1>1, <2>1 DEF TypeOK
<1>7. timers' \in Nat
  BY <1>1 DEF MoveAllEnds, TypeOK
<1>8. TypeOK'
  BY <1>1, <1>2, <1>5, <1>6, <1>7 DEF TypeOK
<1>9. MagazineHolds'
  <2>1. \A t : Flying(t)' = Flying(t)
    BY <1>2, <1>6 DEF Flying
  <2> QED
    BY <1>1, <1>2, <1>3, <1>5, <2>1 DEF MagazineHolds
<1>10. SurvivorsCounted'
  <2>1. tanks \ {} = tanks
    OBVIOUS
  <2> QED
    BY <1>1, <1>2, <1>3, <1>5, <2>1 DEF SurvivorsCounted
<1>11. TanksArePlayers'
  BY <1>1, <1>3, <1>5 DEF TanksArePlayers
<1>12. ShellsAreOlder'
  BY <1>1, <1>2, <1>6 DEF ShellsAreOlder
<1> QED
  BY <1>1, <1>2, <1>8, <1>9, <1>10, <1>11, <1>12
     DEF IInv, TickType, NothingLeftOver, ShellsVisitedOnce, CallSoFar

\* A new round: new tanks with full magazines, and no shells.
LEMMA RestartRoomInv ==
    ASSUME IInv, RestartRoom
    PROVE  IInv'
<1>1. TypeOK /\ TickType /\ TanksArePlayers /\ NothingLeftOver
  BY DEF IInv
<1>2. /\ moving' = FALSE /\ unvisited' = {} /\ deleted' = {} /\ nextShell' = FirstShell
      /\ UNCHANGED <<moving, unvisited, deleted>> /\ timers' \in Nat
  BY <1>1 DEF RestartRoom, NothingLeftOver, TypeOK
<1>3. /\ room' \in Room /\ room'.players = room.players
      /\ room'.tanks = Rows(room.players)
      /\ room'.survivors = Cardinality(Rows(room.players))
  BY <1>1, InitRoundEffect DEF RestartRoom, TypeOK, TanksArePlayers
<1>4. DOMAIN shells' = {} /\ shells' \in [DOMAIN shells' -> Shell]
  <2>1. shells' = [s \in DOMAIN shells \cap {} |-> shells[s]]
    BY DEF RestartRoom, Restrict
  <2> QED
    BY <2>1
<1>5. bullets' = FullMagazines /\ bullets' \in [TankIds -> 0..Magazine]
  BY MagazineAssumption DEF RestartRoom, FullMagazines
<1>6. tick' \in Tick /\ tick'.again = 0 /\ tick'.lost = NoneLost
  <2>1. NoneLost \in [TankIds -> Nat]
    BY DEF NoneLost
  <2>2. tick' = [tick EXCEPT !.again = 0, !.lost = NoneLost]
    BY DEF RestartRoom
  <2> QED
    BY <1>1, <2>1, <2>2 DEF TickType, Tick
<1>7. FirstShell \in FirstShell..(FirstShell + MaxShells)
  BY RoundBoundsAssumption, MaxTankIdAssumption DEF FirstShell
<1>8. TypeOK'
  BY <1>2, <1>3, <1>4, <1>5, <1>7 DEF TypeOK
<1>9. MagazineHolds'
  <2> SUFFICES ASSUME NEW t \in room'.tanks
               PROVE  bullets'[t] + Cardinality(Flying(t)') + tick'.lost[t] = Magazine
    BY DEF MagazineHolds
  <2>1. Flying(t)' = {} /\ Cardinality({}) = 0
    BY <1>4, FS_EmptySet DEF Flying
  <2>2. bullets'[t] = Magazine /\ tick'.lost[t] = 0
    BY <1>1, <1>3, <1>5, <1>6 DEF FullMagazines, NoneLost, TanksArePlayers
  <2> QED
    BY <2>1, <2>2, MagazineAssumption
<1>10. SurvivorsCounted'
  <2>1. Rows(room.players) \ {} = Rows(room.players)
    OBVIOUS
  <2> QED
    BY <1>2, <1>3, <2>1 DEF SurvivorsCounted
<1>11. TanksArePlayers'
  BY <1>1, <1>3 DEF TanksArePlayers
<1> QED
  BY <1>2, <1>4, <1>6, <1>8, <1>9, <1>10, <1>11
     DEF IInv, TickType, ShellsAreOlder, NothingLeftOver, ShellsVisitedOnce, CallSoFar

\* Every step keeps the invariant.
LEMMA NextInv == IInv /\ [Next]_vars => IInv'
<1> SUFFICES ASSUME IInv, [Next]_vars PROVE IInv'
  OBVIOUS
<1>1. CASE UNCHANGED vars
  BY <1>1
     DEF vars, roundVars, IInv, TypeOK, TickType, TanksArePlayers, ShellsAreOlder,
         NothingLeftOver, ShellsVisitedOnce, MagazineHolds, Flying, SurvivorsCounted,
         CallSoFar, WonSoFar, UndecidedSoFar, Dead
<1> QED
  BY <1>1, FireInv, MoveAllBeginsInv, FlyOnInv, HitTankInv, BounceInv, VisitTankInv,
     MoveAllEndsInv, RestartRoomInv
     DEF Next, Moves, VisitShell

\* The invariant holds of every behaviour.
THEOREM Invariance == Spec => []IInv
BY InitInv, NextInv, PTL DEF Spec

----------------------------------------------------------------------------
(* What follows from it. *)

\* The types of GameRoom.h, Tank.h and Shell.h: among them, no magazine is
\* overdrawn or filled beyond what it started with.
THEOREM TypeCorrect == Spec => []TypeOK
<1>1. IInv => TypeOK
  BY DEF IInv
<1> QED
  BY <1>1, Invariance, PTL

\* No shell is lost and none comes back twice, for any number of tanks and
\* shells: what a tank may still fire and what it has in the air make up its
\* magazine, but for the shells that have hit a tank.
THEOREM MagazinesHold == Spec => []MagazineHolds
<1>1. IInv => MagazineHolds
  BY DEF IInv
<1> QED
  BY <1>1, Invariance, PTL

\* What the single step of module Manager says of moveAll is what a call of it
\* does object by object, in every order of visits.
THEOREM TickAbstraction == Spec => TicksAsAbstracted
<1>1. IInv /\ [Next]_vars =>
         [MoveAllEnds =>
             LET dead == tick.start.tanks \ room'.tanks
             IN  /\ MoveAllMay(tick.start, dead, tick.hits, tick.winner)
                 /\ room' = ClearRestart(MoveAll(tick.start, dead, tick.hits,
                                                 tick.winner))]_vars
  <2> SUFFICES ASSUME IInv, MoveAllEnds
               PROVE  LET dead == tick.start.tanks \ room'.tanks
                      IN  /\ MoveAllMay(tick.start, dead, tick.hits, tick.winner)
                          /\ room' = ClearRestart(MoveAll(tick.start, dead, tick.hits,
                                                          tick.winner))
    OBVIOUS
  <2>1. /\ TypeOK /\ TickType /\ room = MoveAll(tick.start, {}, tick.hits, tick.winner)
        /\ HitsPossible(tick.start, Dead, tick.hits) /\ WonSoFar /\ UndecidedSoFar
        /\ unvisited = {}
    BY DEF IInv, CallSoFar, MoveAllEnds
  <2>2. PICK r \in Room, h \in Nat, w \in TankIds \cup {NoWinner} :
           r = tick.start /\ h = tick.hits /\ w = tick.winner
    BY <2>1 DEF TickType, Tick
  <2>3. PICK D : D = Dead
    OBVIOUS
  <2>4. room = MoveAll(r, {}, h, w) /\ room \in Room
    BY <2>1, <2>2 DEF TypeOK
  <2>5. room.tanks = r.tanks
    BY <2>4, MoveAllTanks
  <2>6. room' = ClearRestart([room EXCEPT !.tanks = r.tanks \ D])
    <3>1. room.tanks \ deleted = r.tanks \ D
      BY <2>2, <2>3, <2>5 DEF Dead
    <3> QED
      BY <3>1 DEF MoveAllEnds
  <2>7. MoveAll(r, D, h, w) = [room EXCEPT !.tanks = r.tanks \ D]
    <3>1. PICK n : n = r.survivors - h
      OBVIOUS
    <3>2. r.tanks \ {} = r.tanks
      OBVIOUS
    <3>3. PICK tanks : tanks = r.tanks \ D
      OBVIOUS
    <3>4. /\ AfterHits(r, {}, h) = [r EXCEPT !.tanks = r.tanks, !.survivors = n]
          /\ AfterHits(r, D, h) = [r EXCEPT !.tanks = tanks, !.survivors = n]
      BY <3>1, <3>2, <3>3 DEF AfterHits
    <3>5. PICK players : players = SetRow(r.players, w, ScoreOf(r.players, w) + 1)
      OBVIOUS
    <3>6. CASE w = NoWinner
      <4>1. room = [r EXCEPT !.tanks = r.tanks, !.survivors = n]
        BY <2>4, <3>4, <3>6 DEF MoveAll
      <4>2. MoveAll(r, D, h, w) = [r EXCEPT !.tanks = tanks, !.survivors = n]
        BY <3>4, <3>6 DEF MoveAll
      <4> QED
        BY <3>3, <4>1, <4>2 DEF Room
    <3>7. CASE w # NoWinner
      <4>1. /\ AfterHits(r, {}, h).players = r.players
            /\ AfterHits(r, D, h).players = r.players
        BY <3>4 DEF Room
      <4>2. room = [[r EXCEPT !.tanks = r.tanks, !.survivors = n] EXCEPT
                       !.hasWinner = TRUE, !.restartNeeded = TRUE, !.players = players]
        BY <2>4, <3>4, <3>5, <3>7, <4>1 DEF MoveAll
      <4>3. MoveAll(r, D, h, w) =
               [[r EXCEPT !.tanks = tanks, !.survivors = n] EXCEPT
                   !.hasWinner = TRUE, !.restartNeeded = TRUE, !.players = players]
        BY <3>4, <3>5, <3>7, <4>1 DEF MoveAll
      <4> QED
        BY <3>3, <4>2, <4>3 DEF Room
    <3> QED
      BY <3>6, <3>7
  <2>8. r.tanks \ room'.tanks = D
    <3>1. room'.tanks = r.tanks \ D
      <4>1. r.tanks \ D \in SUBSET PlayerIds
        BY DEF Room
      <4> QED
        BY <2>4, <2>6, <4>1 DEF ClearRestart, Room
    <3> QED
      BY <2>2, <2>3, <3>1 DEF Dead
  <2>9. MoveAllMay(r, D, h, w)
    <3>1. HitsPossible(r, D, h)
      BY <2>1, <2>2, <2>3
    <3>2. ASSUME w = NoWinner PROVE MayEndUndecided(r, h)
      <4>1. ~MayEndUndecided(r, h) => r.tanks = {}
        BY <2>1, <2>2, <3>2 DEF UndecidedSoFar
      <4> QED
        BY <4>1 DEF MayEndUndecided
    <3>3. ASSUME w # NoWinner PROVE MayWin(r, D, h, w)
      <4>1. /\ ~r.hasWinner
            /\ w \in r.tanks
            /\ r.survivors >= 1
            /\ r.survivors - h <= 1
            /\ w \in D => r.survivors - h < 1
            /\ D \subseteq {w} => r.survivors = 1
        BY <2>1, <2>2, <2>3, <3>3 DEF WonSoFar
      <4> QED
        BY <4>1 DEF MayWin
    <3> QED
      BY <3>1, <3>2, <3>3 DEF MoveAllMay
  <2> QED
    BY <2>2, <2>6, <2>7, <2>8, <2>9
<1> QED
  BY <1>1, Invariance, PTL DEF Spec, TicksAsAbstracted

\* The winner is the last tank, for any number of tanks and in every order of
\* visits, unless two shells have hit the same tank in one tick of the round.
THEOREM LastOneWins == Spec => WinnerIsLast
<1>1. IInv /\ [Next]_vars =>
         [(~room.hasWinner /\ room'.hasWinner /\ tick.again = 0)
             => room.tanks \ deleted = {tick'.winner}]_vars
  <2> SUFFICES ASSUME IInv, Next, ~room.hasWinner, room'.hasWinner, tick.again = 0
               PROVE  room.tanks \ deleted = {tick'.winner}
    BY DEF vars
  <2>1. PICK t \in room.tanks : VisitTank(t) /\ Wins(t)
    <3>1. TypeOK /\ TanksArePlayers
      BY DEF IInv
    <3>2. ASSUME \/ \E t \in TankIds : Fire(t)
                 \/ MoveAllBegins
                 \/ \E s \in DOMAIN shells : FlyOn(s) \/ Bounce(s)
          PROVE  FALSE
      BY <3>2 DEF Fire, MoveAllBegins, roundVars, FlyOn, Bounce
    <3>3. ASSUME NEW s \in DOMAIN shells, NEW t \in TankIds, HitTank(s, t)
          PROVE  FALSE
      BY <3>1, <3>3 DEF HitTank, TypeOK, Room
    <3>4. ASSUME MoveAllEnds PROVE FALSE
      BY <3>1, <3>4 DEF MoveAllEnds, ClearRestart, TypeOK, Room
    <3>5. ASSUME RestartRoom PROVE FALSE
      BY <3>1, <3>5 DEF RestartRoom, InitRound, TypeOK, Room
    <3> QED
      BY <3>2, <3>3, <3>4, <3>5 DEF Next, Moves, VisitShell, VisitTank
  <2> DEFINE left == room.tanks \ deleted
  <2>2. Cardinality(left) = 1 /\ t \in left
    BY <2>1 DEF IInv, SurvivorsCounted, Wins
  <2>3. IsFiniteSet(left) /\ Cardinality(left) \in Nat
    <3>1. left \in SUBSET TankIds
      BY DEF IInv, TanksArePlayers
    <3> QED
      BY <3>1, Ids
  <2>4. left = {t}
    BY <2>2, <2>3, CardinalityFacts
  <2>5. tick'.winner = t
    BY <2>1 DEF VisitTank, IInv, TickType, Tick
  <2> QED
    BY <2>4, <2>5
<1> QED
  BY <1>1, Invariance, PTL DEF Spec, WinnerIsLast
=============================================================================
