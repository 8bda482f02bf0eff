# TankTroubleServer: a TLA+ model

TankTroubleServer is the server of a multiplayer tank game, in C++: clients log in over
TCP, open rooms, join them and, when a room is full, play rounds in a maze until somebody
leaves. This directory holds TLA+ modules of the server, TLC configurations that check
them on small instances, and proofs, checked by TLAPS, of theorems about them for
instances of every size.

    tlc -config ManagerOneRoom.cfg Manager        # any run of PROJECT.json: module and cfg
    tlapm ManagerProofs.tla                       # and the other ...Proofs modules, Folding

## 1. The system

### Threads

| thread | runs | owns |
|---|---|---|
| IO thread | `Server`: an event loop with the TCP connections, the UDP socket and a queue of tasks | `onlineUsers_`, `connIdToUserId_`, `roomNum_`, `roomInfos_` |
| Manager thread | `Manager`: an event loop with a 10 ms timer, one-shot timers and a queue of tasks | `rooms`, `playersInfo`, `userIdsInRoom` and, through them, every `GameRoom` |
| thread pool (4 threads, queue of 20) | `findUserOrCreate`, `saveUserInfoToDB` | nothing; the database |

No data is shared: threads talk through `queueInLoop` of the two event loops and `run` of
the pool. What is hard is therefore not locking but order: state is looked up, work is
queued, and by the time the answer is carried out the state has changed.

### Components, their state and what makes them correct

**Server** (`src/server/Server.cc`). `onlineUsers_` maps a user id to a session
(connection, UDP address, nickname, score, `disconnecting_`); `connIdToUserId_` maps the
peer address of a connection to a user id. Handlers: `onLogin`, `onCreateRoom`,
`onJoinRoom`, `onQuitRoom`, `onControlMessage`, `onUdpHandshake`, `handleDisconnection`.
Tasks from the Manager: `roomsInfoBroadcast`, `joinRoomRespond`, `notifyGameOn`,
`notifyGameOff`, `blocksDataBroadcast`, `objectsDataBroadcast`, `playersScoreBroadcast`,
`saveOnlineUserInfo`. Tasks from the pool: `findUserCallback`, `saveUserInfoCallback`.
Correct means: the two tables are each other's inverse; the session of a user who has gone
is removed, and with it the mapping of the address; points are neither made up nor
lost; a task finds the connection it writes to; clients have the room list there is; the
assertions hold.
Hard: a login in the pool while the connection closes, logs in again or is used by another;
several saves of one user under way; an address used again; a Manager's task about a user
who has left since.

**Manager** (`src/server/Manager.cc`). Requests `manageCreateRoom`, `manageJoinRoom`,
`manageQuitRoom`, `manageControl`; the game loop `manageGames` every 10 ms; the two-second
timers of `restartRoom`. Correct means: a user is in one room at most; the three tables
(`playersInfo`, `userIdsInRoom`, the room's own `players` and head count) agree; a game is
played by a full room only, and ends when a member leaves; a decided round is followed by
another. Hard: a stale restart timer meets a room in any condition; members leave and
return between ticks.

**GameRoom** (`src/server/GameRoom.cc`). A room's status, members, scores, and the round in
progress: the objects, `survivors`, `hasWinner`, `restartNeeded`, the walls with the tables
of walls near each cell. `newPlayer`, `playerQuit`, `init`, `control`, `moveAll`,
`needRestart`. Correct means: one point a round, to the last tank; tank ids are unique; no
wall is missing from the tables. Hard: `moveAll` visits objects in an unknown order and
deletes at the end only; `init` has to reset everything.

**IdManager** (tank ids given and returned, ids of blocks and shells counted up from
disjoint bases), **Maze** (a random spanning tree of the grid), **Tank** and **Shell**
(magazine, bounces left), **Block** (corners of a wall), **geometry** (`util/Math.cc`),
**UserInfo** (a row of the database).

**Codec** and **Messages** (`src/protocol`). A message is a header (type, length) and the
fields of its type: numbers, strings that end with a 0, arrays of structs with a count before
them. `packMessage` writes one, `handleMessage` takes what is complete off the input buffer of
a connection and calls handlers. No state but the buffer. Correct means: handlers see the messages
that were sent. Hard: TCP cuts the stream anywhere; `size`, `toByteArray` and `fill` are
three traversals of each layout that have to agree, since `handleMessage` waits for the length in
the header and then takes off what the fields come to.

`ev` (event loop, TCP, thread pool) and `tinyorm` are submodules that are not in
the repository; they are modelled by what `src/` relies on.

`PROJECT.json` lists the components with their status, the line each definition models, and
the hazards of the code with the properties that cover them.

## 2. Modules

| module | models | state |
|---|---|---|
| `GameRoom` | one room as a record, IdManager's tank ids; `moveAll` as one operator | none: operators on a record |
| `Manager` | the Manager thread | `rooms`, `nextRoomId`, `playersInfo`, `userIdsInRoom`, `restartTimers`, `ticking`, `serverTasks`, `failed` |
| `Lobby` | what the Manager promises, as an abstract specification | `capOf`, `members`, `playing`, `decided`, `points` |
| `GameRound` | the rounds of one game, object by object | a room record, `shells`, `bullets`, the progress of `moveAll` |
| `Arena` | the maze, the walls, the collision tables, where tanks begin | `vis`, `map`, `walls`, `scanned`, `toAdd`, `blocks`, the two tables, `drawn` |
| `Server` | the IO thread and the thread pool | `tcp`, `onlineUsers`, `connIdToUserId`, `roomNum`, `roomInfos`, `jobs`, `db`, the two task queues, `failed`; `told`, a history of room lists sent |
| `Sessions` | `Server` composed with an abstract Manager | `inRoom`, and `earned`, a history of points |
| `TankTroubleServer` | `Server` composed with `Manager`, from the start of the threads | those of both, `ioThread`, `started`, `earned` |
| `Messages` | the bytes of messages | none: operators |
| `Codec` | `handleMessage` on one connection | `wire`, `buf`, `handling`, and histories of what was sent, taken and handled |
| `Channel` | what the Codec promises, as an abstract specification | `inTransit`, `delivered` |
| `MCSessions`, `MCTankTroubleServer`, `MCCodec` | values of the constants of these | |
| `ManagerProofs`, `LobbyProofs` | theorems about `Manager`; that it implements `Lobby` | |
| `GameRoundProofs`, `ArenaProofs`, `SessionsProofs` | theorems about these modules | |
| `ServerProofs` | theorems about `TankTroubleServer`: the start of the threads, what the Manager's and the Server's threads do together, the list of rooms | |
| `CodecProofs` | theorems about `Messages` and `Codec`; that it implements `Channel` | |
| `Folding` | what a fold over a sequence comes to, for any operator | none: lemmas |

`Manager` and `GameRound` extend `GameRoom`; `Sessions` and `TankTroubleServer` extend
`Server`; `TankTroubleServer` instantiates `Manager` on the same two task queues, and `ServerProofs`
the proofs about `Manager` and `Sessions`; `CodecProofs` instantiates `Folding` once for each
operator that is folded. There are three
refinements: `Manager` implements `Lobby`, `TankTroubleServer` implements `Sessions`, and
`Codec` implements `Channel`, each by an instance under a refinement mapping that is
a PROPERTY of a run.

### How state and actions correspond to the code

*Manager.* Each task of the Manager's loop is an action with the name of the method. A task
is atomic, since one thread runs it and nobody else sees the data, except `manageGames`:
there each room is a step (`ManageRoom`), and `ticking` holds the rooms the call has yet to
visit; other tasks wait (`Idle`) until it is done. That gives the rooms in every order, as
the `unordered_map` may. An answer to clients is a record appended to `serverTasks`, in the
order in which the code queues it. An assertion of the code becomes a check that adds its
name to `failed`; nothing happens after that, as the process is gone. C++ maps whose
`operator[]` makes entries are modelled where the difference can be seen (`ScoreOf`,
`Looked`, `SaveUserInfoCallback`). Time is left out: a restart timer may fire at any
moment after it was started, early or late, and so may the 10 ms timer.

Of a call of `moveAll` the Manager's model keeps the result only: a set of tanks hit, a
number of hits at least as large, and a winner or none, under the condition
`MoveAllMay`. That this is neither too little nor guesswork is what `GameRound` is for: it
visits the objects one at a time, in every order, and its property `TicksAsAbstracted`
says that each call, taken as a whole, is one that `MoveAllMay` allows and has the outcome of
`MoveAll`.

*GameRound.* Geometry is an arbitrary choice: in a tick a shell meets nothing, a wall or
any tank still among the objects. Magazines, the count of bounces, deletion at the end of
the call, the winner's test and `needRestart` follow the code line by line. Tank movement
is left out: no property depends on where a tank is. One game is modelled, with its players
fixed; joins and quits belong to `Manager`.

*Arena.* `generate` is a step for each wall taken from the vector (a bag: only the random
choice reads its order, but a pair may be in it several times), then one for each iteration of the
two loops of `getBlockPositions`, then a step for each wall entered by `initBlocks`, then one for each cell drawn by
`getRandomPositions`, possibly one drawn before. Coordinates are pixels, as in the code,
with the integer division the code's conversion comes to. Directions are pairs of signs
instead of the numbers 0 to 7, which changes nothing and lets `WallsAreFound` compare the
tables with a definition by geometry: *a wall belongs to the cells that it touches, and to
those headings that bring a shell nearer in one coordinate and further away in none*.

*Server and Sessions.* A message handler, a task of the IO thread, a database access of the
pool and a callback are one action each. A job of the pool is a record that changes as the
job proceeds (`Find`, `Create`, `Found`; `Update`, `Updated`), so that the accesses of four
threads interleave; the pool starts jobs in order. A nickname stands for the user whose row
it names or will name. A connection opens and closes once; several may have the same
address one after the other, since the address is what the tables go by. `NoUser` is the
id 0 that `operator[]` enters for an unknown address. `told` is what each connection was last
sent of the room list, at login or by a broadcast. The notices of a game are one kind of task
for the IO thread, which treats all of them alike: it writes to the connections of some users.
Objects, which go by UDP, need no connection. In `Sessions` a notice to no user stands for them, and
for every notice whose users the IO thread does not know. The abstract Manager of `Sessions`
keeps who is in a room and nothing else: whether a join is refused, how many points a
quit saves, and who is told of a game and when, is left open. That this includes everything the
real Manager does is not left to argument: it is the property `ImplementsSessions` of
`TankTroubleServer`.

*TankTroubleServer.* The actions of `Manager` are taken for what stands at the head of
`managerTasks`, those of `Server` as they are, and both work on `serverTasks`. Before that
`serve()` starts the Manager's thread and waits for it: what a thread does while it holds
`mu` is one step, and a wait may end without a notification. `manageControl` changes nothing
here, as steering a tank changes nothing that either module keeps; firing is in `GameRound`.
Each task of the IO thread is mapped to one of `Sessions` in the same place of the queue: a list of rooms to
one that names none, a notice to one for the same users, user 0 left out, and objects to a
notice to nobody, since the IO thread does nothing for them that could be seen.

*Codec.* A message is its type and its values; packing and filling follow the layouts of
`Codec.cc` field by field and byte by byte, widths, byte order, the 0 after a string and the count
before an array included. TCP appends pieces of the stream to the buffer; each iteration of
`handleMessage` is a step, which takes exactly what `fill` reads, whatever the header
says. The peer uses the same Codec, as the client of this project does (`src/README.md`
says of the code in `protocol` that it is the same in TankTrouble).

## 3. Runs

All passing runs explore their whole state space.

| run | question | size |
|---|---|---|
| `ManagerOneRoom` | may the tables of one room drift apart, an assertion fail, a point be given twice? | 430 877 states |
| `ManagerTwoRooms` | is a user ever in two rooms; does the Manager implement `Lobby`? | 784 999 |
| `ManagerLiveness` | do games begin and end, do rounds restart? | 5 092 |
| `ManagerOversizedRoom` | does `returnTankId` get only ids it can take back? **No** | counterexample |
| `GameRound` | does `moveAll` do what the Manager's model says; who wins, and does a tank left alone; is there another round; is a shell lost or given back twice? | 125 040 |
| `Arena` | is every maze a spanning tree, does a wall stand wherever there is no passage, is every wall found, does `init` end? | 10 024 |
| `Codec` | do handlers see what was sent, wherever the stream is cut? | 30 845 |
| `SessionsOneUser` | are points made up; does a broken connection leave its room and is its session removed? | 487 832 |
| `SessionsReusedAddress` | do the two tables of the IO thread stay inverse? | 2 017 067 |
| `SessionsEarlyLeave` | does the assertion of `findUserCallback` hold? **No** | counterexample |
| `SessionsTwoSaves` | is a session found at login left over from a connection? **No** | counterexample |
| `TankTroubleServer` | is the loop there before it is used; is a client's room list current; does the limit on rooms hold across threads; does a user who drops out leave the room; is the abstract Manager of `Sessions` abstract enough? | 677 671 |

Every property of a passing run has a mutant in `PROJECT.json`: a changed definition, of the
kind a slip in the code would make, under which TLC finds the property violated. Mutated
forms stand before the definition they would replace, and nothing uses them.

### Bounds

* *Users, rooms, sizes.* Three users let a room be full, refilled by another, and have two
  members left in a game; two rooms are enough for a user to be, wrongly, in both. User 0
  is among the users of the Manager, as it can be in the program. Room sizes 0 to 3 include
  the room that is full when it is made (0: it stays `New` and never plays).
* `MaxHits`: as many hits in a tick as there are tanks, so that one may be hit twice.
* `MaxScore`, `MaxTimers`: games stop ticking before these are exceeded. Two points
  show a first and a repeated win; two timers, a stale one beside a fresh one.
* `MaxBacklog`: tasks that answer wait until the IO thread has caught up. Nothing in
  the Manager reads the queue, so that a longer backlog adds no behaviour to it. In `Sessions`
  the constant `Backlogs` is the set of lengths of the queue at which a notice may be added.
* `GameRound`: three tanks, two shells of two bounces: enough for two shells to hit one tank
  in a tick while two others live, for a shell to return to its own tank, and for the last
  two tanks to fall together.
* `Arena`: a grid of three by three has corners, borders and an inner cell, all the cases
  of `initBlocks`; `GRID_SIZE` is the real one. Two players: the second cell drawn may be
  the first again. More players than cells there cannot be: `init` counts the rows of the score
  table, of which there is one for each tank id at most and one for 0.
* `Codec`: any two messages of a set that has every type, an empty array and one of two, an
  empty string, numbers of several bytes and a body longer than a byte can say (`MCCodec`). Two
  are enough for one to be read with the end or the beginning of another. `MaxPiece`: a
  piece has up to eight bytes, or is all there is; eight bytes cut every header, number and
  short string in every place. Types without a handler are among them. `IsMessage` says what
  the C++ types of the fields let a message be: the fields of its type, each number within its
  width, no 0 within a string. It also excludes what the code does not check and cannot send:
  lengths that do not fit the header (one of the hazards) and arrays of more than 255, which no
  message of this program has.
* `TankTroubleServer`: one user who can come back over a second connection (user 0 is there
  as well), and one room of one seat, so that a game begins with the join. That is the smallest
  instance in which each message, task, callback, timer and notice occurs and
  interleaves with the others; what needs more users or seats is checked in `Manager*` and
  `SessionsReusedAddress`; that `RoomsCounted` holds with several requests queued is proved only. `Backlogs` of the `Sessions` it
  implements is `Nat`: no length is excluded. A game does not go on when a user has `MaxPoints`.
* `MaxPending`: a client's message is taken while no more than this is under way. It bounds
  how much a client piles up; what follows from a message (tasks, jobs, callbacks) is not
  bounded and interleaves freely. `Workers`: two or four threads.

`CHECK_DEADLOCK FALSE` is set in the runs of `Sessions`, of `TankTroubleServer` and of
`Codec`: there the clients have a finite number of connections or messages, and when all are closed
or read and all work is done the system rests.

### Fairness

* `Manager`: strong fairness of the game loop and of each restart timer, weak fairness of the
  IO thread. A timer that is due runs when the callback in progress has returned; tasks may
  come in between, but an event loop serves its timers in every turn, so a timer is not
  passed over for ever by others that keep being enabled. No client has to do anything.
* `GameRound`: weak fairness of `moveAll`, which the 10 ms timer calls and which runs to its
  end; strong fairness of the restart timer, which is enabled only between calls. `NextRoundBegins`
  asks for another round only where `MayPlayOn`, the bound on points, allows for one.
* `Arena`: weak fairness of the loops of `init`; another round need not come.
  That a cell not yet drawn is drawn in the end is what a random number generator does.
* `Sessions`: weak fairness of each pool thread and of both event loops.
* `TankTroubleServer`: the same, with strong fairness of the tasks of the Manager's loop, since
  its timers run in between; and weak fairness of the rooms a call of `manageGames` has yet to
  visit. The 10 ms timer itself need not fire: no property needs a game to go on.
* `Codec`: TCP delivers what was sent while the connection lasts, and `handleMessage` runs to its
  end. Fairness of taking a message is stated for `TakeMessage`, the part of `HandleMessage`
  that says when, as only `HandleMessage` changes `taken`.

### Findings

1. **A client that leaves before its login is done aborts the server** (`SessionsEarlyLeave`,
   eight steps). `handleDisconnection` and `onQuitRoom` read `connIdToUserId_` with
   `operator[]` and leave an entry 0 behind; `findUserCallback` asserts that there is no
   entry (`Server.cc` 384).
2. **Two saves under way leave a session without a connection** (`SessionsTwoSaves`).
   The second `saveUserInfoCallback` re-creates, again with `operator[]`, the session that
   the first has removed; the next login follows its null `conn_` (`Server.cc` 399, 378).
3. **A room with more than ten seats aborts the server** (`ManagerOversizedRoom`): the
   eleventh player gets the id 0, which `returnTankId` asserts cannot be (`IdManager.cc` 29).

What the checks do *not* say, because the code does otherwise: a round in which the last
two tanks fall in one tick has no winner and no next round until somebody leaves; a tank hit
by two shells in one tick counts for two in `survivors`, so the round may be decided while
two tanks are left (`WinnerIsLast` and `LastTankDecides` except rounds with such a hit); points may
be lost when two saves are written in the wrong order or a login reads the score before a save; the session of a user who
disconnects without being in a room stays until that user's next login. A client that quits
before it logs in is user 0 from then on; if that user joins a room and its connection ends,
the seat is never given back, since `handleDisconnection` tells the Manager of users with a session
only (`GoneUsersLeave` speaks of the others).

**An address that is used again** is taken for its last user until that user's session is removed.
A client that connects from it in that time may join a room as that user, behind the quit of the
connection that ended. While it stays, the session says that the user is gone. If the save
of that quit is done after the join, its callback removes session and mapping; the end of the new connection
is then nobody's (`Server.cc` 89, 402-404, 335-337), and the user keeps the seat. So the two properties about
leaving (`LeavingUsersQuit`, `GoneUsersLeave`) and the one about sessions that go (`GoneUsersForgotten`) are
stated for connections that have addresses of their own, which `IsInjective(Address)` says. The code
counts on other addresses too: the comment at `Server.cc` 374 calls them very likely. What holds for reused
ones is in `SessionsReusedAddress`: the tables stay inverse and no save aborts the server.

## 4. Proofs

Every safety property that a passing run checks, action properties and the three refinements
included, is also proved, for all values of the constants that the assumptions of the
modules allow. What a theorem assumes beyond them it says:
only `CapsFitTankIds` (room sizes within the supply of tank ids), which finding 3 shows to be needed
for whatever depends on the Manager's tables.

| module | theorem | property |
|---|---|---|
| `ManagerProofs` | `TypeCorrect`, `NoAbort` | `TypeOK`, `NoAssertionFails` |
| | `MembersAgree`, `PlayersAgree` | `MembersMatch`, `PlayersMatch` |
| | `RoundsSound`, `RestartsPending` | `RoundSound`, `RestartPending` |
| | `OnePoint` | `OnePointPerRound`, an action property |
| `LobbyProofs` | `LobbyImplemented` | `ImplementsLobby`, a refinement |
| `GameRoundProofs` | `TypeCorrect`, `MagazinesHold` | `TypeOK`, `MagazineHolds` |
| | `TickAbstraction`, `LastOneWins` | `TicksAsAbstracted`, `WinnerIsLast`, action properties |
| `ArenaProofs` | `TypeCorrect`, `SpanningTree` | `TypeOK`, `MazeIsTree` |
| | `WallsStanding`, `WallsFound` | `WallsStand`, `WallsAreFound` |
| `SessionsProofs` | `TypeCorrect`, `TablesInverse`, `NoSaveAborts` | `TypeOK`, `SessionsIndexed`, `SavedAsserts` |
| | `PointsAreEarned`, `LeaversQuit` | `NoInventedPoints`, `LeavingUsersQuit` |
| `ServerProofs` | `NoEarlyRequest` | `NoRequestBeforeLoop` |
| | `RoomsAreCounted` | `RoomsCounted` |
| | `SessionsImplemented` | `ImplementsSessions`, a refinement |
| | `TablesOfWhole`, `ManagerNeverAborts`, `SessionsOfWhole` | the invariants of `Manager` and of `Sessions`, of the whole server |
| | `LobbyOfWhole` | the refinement of `Manager`, of the whole server |
| | `ListsAreFresh` | `RoomListFresh` |
| `CodecProofs` | `RoundTrip` | what `fill` makes of the bytes of any message, whatever follows them |
| | `BytesTyped`, `FramingKept` | `TypeOK`, `StreamFramed` |
| | `ChannelImplemented` | `ImplementsChannel`, a refinement |

Hardly any of the invariants is inductive. What had to be added, and why:

**`Manager`.** `NoAssertionFails` needs that the head count is the number of members
(`HeadCount`), and that needs `MembersMatch`, since a quit takes a user from the room that
`playersInfo` names. `HeadCount` also says that as many ids are used as there are members
and that a room is within its size: with `CapsFitTankIds` there is then a free id for each new
member, so that `getTankId` never answers 0 and `PlayersMatch` is kept. `RestartPending` needs
`TimersOfRooms` (no timer for a room not yet made) and that `restartNeeded` is clear between
ticks, which `HeadCount` states too. `RoundSound` holds because a hit takes at least one off
`survivors` for each tank it removes, and because a running game whose members change is never
ticked again before a new `init`. All this is `TablesInv`, which speaks of the tables only and
not of the queue, so that the same lemmas serve for the Manager by itself and for the whole
server; `IInv` adds the queue. `LobbyProofs` takes each action from `TablesInv` to an action of
`Lobby` or to a stutter; that a refused join, a tick without a winner and a late timer are hidden
needs the points of members to be the same although the room's record has changed
(`ScoresStay`).

**`GameRound`.** In the middle of a call of `moveAll`, the room is what the single step
`MoveAll` of `GameRoom` makes of the room at the start, for the hits so far, except that the tanks hit
are still there (`CallSoFar`); what a winner found so far says of the start (`WonSoFar`), and that no
tank can have been visited when there is none although there must be (`UndecidedSoFar`), make it
inductive. `SurvivorsCounted` ties `survivors` to the tanks left as long as no tank was hit
twice, which gives `WinnerIsLast`. `MagazineHolds` rests on `ShellsVisitedOnce`: a shell is removed in
its own visit and not again.

**`Arena`.** `MazeIsTree` counts passages and has no cell cut off: each set of cells that holds
the corner and that no passage leads out of holds all that was reached. At the end that is the whole grid,
because no way on is forgotten (`NothingForgotten`), with an exception for the corner itself, where only one of
two walls is tried. `WallsFound` needs that the tables say of each block entered what `Around` says
(`IndexedSoFar`), that every block is the wall between two cells (`BlocksAreWalls`), and then the
geometry: integer arithmetic on pixels for every even `GridSize` up to 200 (`GridSizeAssumption`; the
real one is 60) and each of eight directions. `WallsStanding` follows the loops of
`getBlockPositions` (`FoundSoFar`).

**`Sessions`.** `SessionsIndexed` and `SavedAsserts` carry each other, with the types.
`NoInventedPoints` does not carry itself: a score read by a login may be installed while saves wait
that will add to it. So every place where a score is kept has to stay within the points earned by as
much as the waiting saves may still add (`PointsInv`); that sum is given by a table of what is owed
from each place of the queue on, which makes an induction over the queue unnecessary. For
`LeavingUsersQuit` the quit has to be found behind every join of the same user that waits, and the
connection to be closed, so that nothing follows it (`QuitFollows`).

**The start.** A request is queued only after the IO thread is serving, and it serves only after it
has seen `started`, which is never reset (`StartInv`).

**The whole server.** `ServerProofs` instantiates `LobbyProofs` on the Manager's half of the
variables and `SessionsProofs` on what `Sessions` sees of them, and cites their lemmas. `WholeInv` consists
of `TablesInv`, the types of `Sessions` under the mapping, the types of all tasks, and two bounds
that belong to several threads: `AllCounted` (the counter of the IO thread is the number of rooms
made plus that of requests queued), which is `RoomsCounted` and also the reason why somebody who
enters a room has one counted, as `Sessions` asks; and `PointsWithin` (earned and current points
together stay within `MaxPoints`, strictly so for members of a room that a call of
`manageGames` has yet to visit), without which a quit might save more than `Sessions` allows. Each
message, job, task and request is then a step of `Sessions`, each timer one or a
stutter, so that what was proved of `Sessions` holds of the server (`SessionsOfWhole`).
On the other side, each step of the server is a step of `Manager` by itself or leaves its tables alone
(`StepOfManager`), so that the server implements `Lobby` as well (`LobbyOfWhole`): the actions of the
IO thread post tasks for users and rooms that `Manager` allows for, and nothing else reaches the tables.

**The list of rooms.** Of the last list in the queue of the IO thread, or the one it keeps if
none is queued, `ListInv` says that it is that of the Manager's tables now, and of every client with a connection
that it was sent the one kept. For the first, each change of a room's size or head count must be posted in the
same step, and the timers, which change neither, must post no list; a login in between is the case the
second part is for.

**`Messages`.** `RoundTrip` says that `fill` gives back any message, and takes off exactly its bytes,
whatever stands behind them. It is built up in the levels of a layout: a value, a struct, a field,
a message (`ValueRead`, `StructRead`, `FieldRead`). `Reading` is the step from one level to the next:
if each reader takes what the writer of its item wrote, whatever follows, a row of them
takes what the writers wrote one after the other. At the bottom are numbers, which are what their
digits make (`NumberOfDigits`), and strings, which end at their first 0. Packing and
filling are folds, so all this is induction over data. The library's theorems for it take an
operator as a parameter, which no installed prover can instantiate; `Folding` takes another way. It has the
operator as a CONSTANT, and gets the least number of a set from the well-founded order of the
naturals (`LeastNumber`, `UpTo`); a fold is then the end of a chain of steps
(`FoldIsChain`), and a first step at which a chain goes wrong cannot be.

**`Codec`.** `CodecInv` is `TypeOK`, `StreamFramed` and `HandledIsKept` (the handlers got, of the messages
taken off, those whose type has a handler); `StreamFramed` needs the types only, the refinement needs the third part.
What carries it is `FirstTaken`: when the header says that a message is
complete in the buffer, then that message is the next one sent, wherever the stream was cut, because
the length in its header is that of the bytes packed (`MessageSizeType`, `HeaderRead`) and `CutBehind` moves
the cut behind it; `RoundTrip` then says what `fill` leaves. For `Channel` the handled messages must
be the first of those that the handlers should get (`KeptFirst`, `HandledFirst`).

**Only model-checked** are:

* liveness, all of it (`ManagerLiveness`, `LastTankDecides`, `NextRoundBegins`, `ArenaGetsReady`, `GoneUsersForgotten`,
  `SentIsHandled`, `GoneUsersLeave`): it rests on fairness and `ENABLED`, which the provers do not
  support;
* the three findings, which are counterexamples.

No module uses a `RECURSIVE` operator.

## 5. Not modelled

* Floating-point geometry: positions, overlap tests, the point of a bounce. TLC has no
  reals. The collision *tables* and the reflection of headings are modelled (`Arena`).
* Movement flags of tanks: they change positions only.
* Nicknames, room names and what the contents of a message say, beyond who it goes to, the room
  list and the codes of a join; that contents survive the way to a handler is `Codec`'s property.
* `onUdpHandshake` and `udpAddr_`: nothing but the destination of datagrams depends on the
  address, the field is undefined until a handshake has come, and a handshake that was
  delayed on its way cannot be told from a fresh one.
* Packets of the client that do not come from the Codec.
* The end of the program: `serve()` and the two loops run for ever. `main`.
* `ev` and `tinyorm`: loops, queues, the pool and the table are modelled as `src/` uses them.
  An update of the database that fails is not modelled; `src/` has no code for it.

## 6. Plan

Done: all the modules of section 2, and the proofs of section 4.

What is left: what a fair schedule is needed for, as far as it can be said without fairness, that is, that
the action each liveness property waits for stays enabled. The properties themselves
(`ManagerLiveness` and the others named above) stay with TLC.
