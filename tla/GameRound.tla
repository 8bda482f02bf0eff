------------------------------ MODULE GameRound ------------------------------
(***************************************************************************)
(* The rounds of one game, object by object: GameRoom::moveAll, fire and   *)
(* init (src/server/GameRoom.cc) with the magazines of Tank and the bounce *)
(* count of Shell (src/game/).  Where the Manager's model takes a call of  *)
(* moveAll for one step with arbitrary hits, here each object is visited   *)
(* in a step of its own, in the unknown order of the unordered_map, and    *)
(* TicksAsAbstracted says that the two agree.                              *)
(*                                                                         *)
(* Geometry is abstracted: whether a shell meets a wall, a tank or nothing *)
(* in a tick is an arbitrary choice; where tanks drive is left out.  The   *)
(* players stay the same, and the room stays full, from round to round.    *)
(***************************************************************************)
EXTENDS GameRoom, Functions

CONSTANTS
    Magazine,    \* shells a tank may have in the air, 5
    InitialTTL,  \* Shell::INITIAL_TTL, 10
    MaxShells,   \* bound: shells fired in one round
    MaxScore     \* bound: points of a player when a round is restarted

\* A player, and the number of players of a room, is a uint8_t.
ASSUME TankIdWidthAssumption == MaxTankId <= 255
ASSUME MagazineAssumption == Magazine \in Nat /\ InitialTTL \in Nat
ASSUME RoundBoundsAssumption == MaxShells \in Nat /\ MaxScore \in Nat

VARIABLES
    room,        \* the GameRoom, its tanks among `objects`
    shells,      \* shell id -> [tank, ttl]: the shells among `objects`
    bullets,     \* tank -> remainBullets
    nextShell,   \* IdManager::globalShellId
    moving,      \* a call of moveAll is in progress
    unvisited,   \* objects it has yet to visit
    deleted,     \* deletedObjs
    timers,      \* pending timers of restartRoom
    tick         \* history of the call: room at its start, hits, winner, and
                 \* of the round: hits on tanks that had been hit already, and
                 \* tank -> shells it has lost in hits

roundVars == <<room, shells, bullets, nextShell, timers>>
vars == <<roundVars, moving, unvisited, deleted, tick>>

\* IdManager counts shell ids up from a number larger than any other id.
FirstShell == MaxTankId + 1
ShellIds == FirstShell..(MaxTankId + MaxShells)

Shell == [tank : TankIds, ttl : Int]

\* The tanks are made anew for every round.
FullMagazines == [t \in TankIds |-> Magazine]

NoneLost == [t \in TankIds |-> 0]

\* A room whose game is about to begin, with these players in it.
FullRoom(members) ==
    [NewRoom(Cardinality(members)) EXCEPT
        !.status = "Playing", !.playerNum = Cardinality(members),
        !.usedTankId = members,
        !.players = [id \in PlayerIds |-> IF id \in members THEN 0 ELSE NoRow]]

Init ==
    /\ \E members \in SUBSET TankIds \ {{}} : room = InitRound(FullRoom(members))
    /\ shells = [s \in {} |-> [tank |-> 1, ttl |-> 0]]
    /\ bullets = FullMagazines
    /\ nextShell = FirstShell
    /\ moving = FALSE
    /\ unvisited = {}
    /\ deleted = {}
    /\ timers = 0
    /\ tick = [start |-> room, hits |-> 0, winner |-> NoWinner, again |-> 0,
               lost |-> NoneLost]

\* A control message of a player whose tank is gone has no effect.
Controls(t) == t \in room.tanks

\* makeShell and getRemainShell of a Tank.
ShellTaken(t) == [bullets EXCEPT ![t] = @ - 1]
ShellReturned(t) == [bullets EXCEPT ![t] = @ + 1]

\* manageControl with the action Fire.
Fire(t) ==
    /\ ~moving
    /\ Controls(t)
    /\ bullets[t] # 0
    /\ nextShell \in ShellIds     \* bound
    /\ bullets' = ShellTaken(t)
    /\ shells' = [s \in DOMAIN shells \cup {nextShell} |->
                     IF s = nextShell THEN [tank |-> t, ttl |-> InitialTTL]
                                      ELSE shells[s]]
    /\ nextShell' = nextShell + 1
    /\ UNCHANGED <<room, moving, unvisited, deleted, timers, tick>>

MoveAllBegins ==
    /\ ~moving
    /\ moving' = TRUE
    /\ unvisited' = room.tanks \cup DOMAIN shells
    /\ deleted' = {}
    /\ tick' = [tick EXCEPT !.start = room, !.hits = 0, !.winner = NoWinner]
    /\ UNCHANGED roundVars

Visit(object) ==
    /\ moving
    /\ object \in unvisited
    /\ unvisited' = unvisited \ {object}
    /\ UNCHANGED <<moving, nextShell, timers>>

\* The shell meets nothing, or the tank that has just fired it.
FlyOn(s) ==
    /\ Visit(s)
    /\ UNCHANGED <<room, shells, bullets, deleted, tick>>

\* Mutated form of OneLess: the shell that hits is counted with the tank.
TwoLess == room.survivors - 2

OneLess == room.survivors - 1

\* A tank that was hit stays among the objects until the call ends, and meets
\* other shells as before.
MayMeet(t) == t \in room.tanks

HitTank(s, t) ==
    /\ Visit(s)
    /\ MayMeet(t)
    /\ t # shells[s].tank \/ shells[s].ttl < InitialTTL
    /\ deleted' = deleted \cup {t, s}
    /\ room' = [room EXCEPT !.survivors = OneLess]
    /\ tick' = [tick EXCEPT !.hits = @ + 1,
                            !.again = IF t \in deleted THEN @ + 1 ELSE @,
                            !.lost[shells[s].tank] = @ + 1]
    /\ UNCHANGED <<shells, bullets>>

\* Mutated form of SpentBy: the shell goes back to the magazine and flies on.
NeverSpent(s) == {}

\* countDown returns the count it had before: the shell is used up when that is 0.
SpentBy(s) == IF shells[s].ttl <= 0 THEN {s} ELSE {}

\* The shell meets a wall; a used up one goes back to the magazine of its tank,
\* if that is still there.
Bounce(s) ==
    /\ Visit(s)
    /\ shells' = [shells EXCEPT ![s].ttl = @ - 1]
    /\ deleted' = deleted \cup SpentBy(s)
    /\ bullets' = IF shells[s].ttl <= 0 /\ shells[s].tank \in room.tanks
                  THEN ShellReturned(shells[s].tank)
                  ELSE bullets
    /\ UNCHANGED <<room, tick>>

VisitShell(s) ==
    \/ FlyOn(s)
    \/ \E t \in TankIds : HitTank(s, t)
    \/ Bounce(s)

\* Mutated form of Wins: a tank wins that was hit before it was visited.
WinsThoughHit(t) == room.survivors = 1 /\ ~room.hasWinner

Wins(t) == room.survivors = 1 /\ ~room.hasWinner /\ t \notin deleted

VisitTank(t) ==
    /\ Visit(t)
    /\ IF Wins(t)
       THEN /\ room' = [room EXCEPT !.hasWinner = TRUE, !.restartNeeded = TRUE,
                                    !.players[t] = @ + 1]
            /\ tick' = [tick EXCEPT !.winner = t]
       ELSE UNCHANGED <<room, tick>>
    /\ UNCHANGED <<shells, bullets, deleted>>

\* The last lines of moveAll, and what manageGames does after it.
MoveAllEnds ==
    /\ moving
    /\ unvisited = {}
    /\ moving' = FALSE
    /\ room' = ClearRestart([room EXCEPT !.tanks = @ \ deleted])
    /\ shells' = Restrict(shells, DOMAIN shells \ deleted)
    /\ timers' = IF NeedRestart(room) THEN timers + 1 ELSE timers
    /\ deleted' = {}
    /\ UNCHANGED <<bullets, nextShell, unvisited, tick>>

\* Bound: nobody plays on who has more points.
MayPlayOn == \A t \in TankIds : room.players[t] <= MaxScore

RestartRoom ==
    /\ ~moving
    /\ timers > 0
    /\ MayPlayOn
    /\ timers' = timers - 1
    /\ room' = InitRound(room)
    /\ shells' = Restrict(shells, {})
    /\ bullets' = FullMagazines
    /\ nextShell' = FirstShell
    /\ tick' = [tick EXCEPT !.again = 0, !.lost = NoneLost]
    /\ UNCHANGED <<moving, unvisited, deleted>>

Moves ==
    \/ MoveAllBegins
    \/ \E s \in DOMAIN shells : VisitShell(s)
    \/ \E t \in room.tanks : VisitTank(t)
    \/ MoveAllEnds

Next ==
    \/ \E t \in TankIds : Fire(t)
    \/ Moves
    \/ RestartRoom

Spec == Init /\ [][Next]_vars

\* manageGames runs every 10 ms, and a call of moveAll runs to its end.
FairSpec == Spec /\ WF_vars(Moves) /\ SF_vars(RestartRoom)

----------------------------------------------------------------------------
(* Properties. *)

\* The types of GameRoom.h 67-101, Tank.h and Shell.h; the magazine of a tank
\* is never overdrawn, nor filled beyond what it started with.
TypeOK ==
    /\ room \in Room
    /\ shells \in [DOMAIN shells -> Shell]
    /\ DOMAIN shells \subseteq ShellIds
    /\ bullets \in [TankIds -> 0..Magazine]
    /\ nextShell \in FirstShell..(FirstShell + MaxShells)
    /\ moving \in BOOLEAN
    /\ unvisited \subseteq room.tanks \cup DOMAIN shells
    /\ deleted \subseteq room.tanks \cup DOMAIN shells
    /\ timers \in Nat

Flying(t) == {s \in DOMAIN shells \ deleted : shells[s].tank = t}

\* Wherever its shells bounce, hit or run out, whoever fires them at whom, and
\* however rounds follow each other: the shells a tank may still fire and those
\* it has in the air make up its magazine, but for those that have hit a tank,
\* which GameRoom.cc 142 deletes without giving them back.
MagazineHolds ==
    \A t \in room.tanks :
        bullets[t] + Cardinality(Flying(t)) + tick.lost[t] = Magazine

\* A call of moveAll, in whatever order it visits the objects, does to the room
\* what the single step PlayGame of module Manager may do.
TicksAsAbstracted ==
    [][MoveAllEnds =>
          LET dead == tick.start.tanks \ room'.tanks
          IN  /\ MoveAllMay(tick.start, dead, tick.hits, tick.winner)
              /\ room' = ClearRestart(MoveAll(tick.start, dead, tick.hits,
                                              tick.winner))]_vars

\* The tank that wins a round is the last one, unless two shells have hit the
\* same tank in one tick of the round: `survivors` counts such a tank twice.
WinnerIsLast ==
    [][(~room.hasWinner /\ room'.hasWinner /\ tick.again = 0)
          => room.tanks \ deleted = {tick'.winner}]_vars

\* As long as no tank was counted twice, a tank that is left alone wins the round,
\* unless a shell that is still in the air hits it before it is visited.
LastTankDecides ==
    (~moving /\ Cardinality(room.tanks) = 1 /\ tick.again = 0)
        ~> (room.hasWinner \/ room.tanks = {})

\* A decided round is followed by another: the flag that is set in the middle of a
\* call of moveAll starts a timer when that call has ended, and the timer starts a
\* round that is open again, as long as the bound on points allows for one.
NextRoundBegins == (room.hasWinner /\ MayPlayOn) ~> ~room.hasWinner
=============================================================================
