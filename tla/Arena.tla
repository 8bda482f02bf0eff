-------------------------------- MODULE Arena --------------------------------
(***************************************************************************)
(* The walls of a round: Maze::generate and getBlockPositions              *)
(* (src/game/Maze.cc) and GameRoom::initBlocks (src/server/GameRoom.cc),   *)
(* which enters every wall into the tables that checkShellBlockCollision   *)
(* and checkTankBlockCollision look up by the grid cell of a shell or tank.*)
(* Then getRandomPositions draws the cells where the tanks begin.          *)
(* Each iteration of a loop is a step; init runs again for every round.    *)
(*                                                                         *)
(* Cells are pairs <<x, y>>, y counted downwards, points are in pixels.    *)
(***************************************************************************)
EXTENDS Integers, FiniteSets, Sequences, Bags

CONSTANTS
    Width,      \* HORIZON_GRID_NUMBER
    Height,     \* VERTICAL_GRID_NUMBER
    GridSize,   \* GRID_SIZE
    MaxTankId,  \* MAX_TANK_ID
    Players     \* how many players the room has

ASSUME GridAssumption ==
    Width \in Nat /\ Width > 1 /\ Height \in Nat /\ Height > 0
ASSUME GridSizeAssumption == GridSize \in {2 * n : n \in 1..100}
ASSUME MaxTankIdAssumption == MaxTankId \in Nat
\* With more players than cells getRandomPositions would draw for ever; but the score
\* table that counts them has no more rows than there are tank ids, and one for 0.
ASSUME PlayersAssumption == Players \in 0..Width * Height

VARIABLES
    phase,        \* "maze", "scan", "blocks", "positions" or "ready"
    vis,          \* cells the maze has reached
    map,          \* sets {c, d} of neighbours with a passage between them
    walls,        \* the vector of (from, to) pairs still to be tried, a bag
    scanned,      \* iterations of the two loops of getBlockPositions
    toAdd,        \* positions found there that initBlocks has not entered yet
    blocks,       \* block id -> [start, end]
    nextBlockId,  \* IdManager::globalBlockId
    tankIndex,    \* <<x, y, block id>>: tankPossibleCollisionBlocks
    shellIndex,   \* <<x, y, direction, block id>>: shellPossibleCollisionBlocks
    drawn         \* the cells drawn for the tanks

vars == <<phase, vis, map, walls, scanned, toAdd, blocks, nextBlockId, tankIndex,
          shellIndex, drawn>>

Cells == (0..Width - 1) \X (0..Height - 1)
Corner == <<0, 0>>

Neighbours(c) ==
    {d \in Cells : \/ d[1] = c[1] /\ d[2] \in {c[2] - 1, c[2] + 1}
                   \/ d[2] = c[2] /\ d[1] \in {c[1] - 1, c[1] + 1}}

FirstBlockId == MaxTankId + 1                               \* initialBlockId
MaxBlocksNum == (Width - 1) * Height + (Height - 1) * Width \* MAX_BLOCKS_NUM
FirstShellId == MaxBlocksNum + FirstBlockId                 \* initialShellId

----------------------------------------------------------------------------
(* What init starts with, in the first round and in each later one. *)

\* Mutated form of EmptyIndex: a table is not cleared for the next round.
IndexKept(index) == index

EmptyIndex(index) == {}

\* Mutated form of RestartIds: the ids of blocks count on.
IdsCountOn == nextBlockId

RestartIds == FirstBlockId

FirstWall == <<Corner, <<1, 0>>>>

Init ==
    /\ phase = "maze"
    /\ vis = {Corner}
    /\ map = {}
    /\ walls = SetToBag({FirstWall})
    /\ scanned = 0
    /\ toAdd = <<>>
    /\ blocks = [id \in {} |-> [start |-> Corner, end |-> Corner]]
    /\ nextBlockId = FirstBlockId
    /\ tankIndex = {}
    /\ shellIndex = {}
    /\ drawn = {}

InitAgain ==
    /\ phase = "ready"
    /\ phase' = "maze"
    /\ vis' = {Corner}
    /\ map' = {}
    /\ walls' = SetToBag({FirstWall})
    /\ scanned' = 0
    /\ toAdd' = <<>>
    /\ blocks' = [id \in {} |-> [start |-> Corner, end |-> Corner]]
    /\ nextBlockId' = RestartIds
    /\ tankIndex' = EmptyIndex(tankIndex)
    /\ shellIndex' = EmptyIndex(shellIndex)
    /\ drawn' = {}

----------------------------------------------------------------------------
(* Maze::generate *)

\* Mutated form of Opened: a passage is made whether or not the cell is new.
OpenedAlways(wall) == map \cup {{wall[1], wall[2]}}

Opened(wall) ==
    IF wall[2] \in vis THEN map ELSE map \cup {{wall[1], wall[2]}}

\* Mutated form of Frontier: only cells to the right and below are looked at.
FrontierForward(c) ==
    {d \in Neighbours(c) \ (vis \cup {c}) : d[1] > c[1] \/ d[2] > c[2]}

\* Mutated form of Frontier: cells that were reached before are tried again.
FrontierOfAll(c) == {d \in Neighbours(c) : {c, d} \notin map}

\* The unreached neighbours that c does not lead to yet.
Frontier(c) == {d \in Neighbours(c) \ (vis \cup {c}) : {c, d} \notin map}

Generate(wall) ==
    /\ phase = "maze"
    /\ vis' = vis \cup {wall[2]}
    /\ map' = Opened(wall)
    /\ walls' = (walls (-) SetToBag({wall}))
                (+) SetToBag({<<wall[2], d>> : d \in Frontier(wall[2])})
    /\ UNCHANGED <<phase, scanned, toAdd, blocks, nextBlockId, tankIndex,
                   shellIndex, drawn>>

MazeDone ==
    /\ phase = "maze"
    /\ walls = EmptyBag
    /\ phase' = "scan"
    /\ UNCHANGED <<vis, map, walls, scanned, toAdd, blocks, nextBlockId, tankIndex,
                   shellIndex, drawn>>

----------------------------------------------------------------------------
(* Maze::getBlockPositions *)

Closed(c, d) == {c, d} \notin map

Right(c) == <<c[1] + 1, c[2]>>
Below(c) == <<c[1], c[2] + 1>>
Point(x, y) == <<x * GridSize, y * GridSize>>

BlockRightOf(c) == [start |-> Point(c[1] + 1, c[2]), end |-> Point(c[1] + 1, c[2] + 1)]
BlockBelow(c) == [start |-> Point(c[1], c[2] + 1), end |-> Point(c[1] + 1, c[2] + 1)]

\* Mutated form of ColumnByColumn: a column is taken to be one cell longer.
LongerColumns(i) == <<i \div Height, i % Height>>

\* The cells of the first loop, and of the second, by the number of the iteration.
RowByRow(i) == <<i % (Width - 1), i \div (Width - 1)>>
ColumnByColumn(i) == <<i \div (Height - 1), i % (Height - 1)>>

Scan(c, neighbour, block) ==
    /\ scanned' = scanned + 1
    /\ toAdd' = IF Closed(c, neighbour) THEN Append(toAdd, block) ELSE toAdd
    /\ UNCHANGED <<phase, vis, map, walls, blocks, nextBlockId, tankIndex,
                   shellIndex, drawn>>

FirstLoop == (Width - 1) * Height   \* its iterations

ScanRight ==
    /\ phase = "scan"
    /\ scanned < FirstLoop
    /\ LET c == RowByRow(scanned) IN Scan(c, Right(c), BlockRightOf(c))

ScanBelow ==
    /\ phase = "scan"
    /\ FirstLoop <= scanned /\ scanned < MaxBlocksNum
    /\ LET c == ColumnByColumn(scanned - FirstLoop)
       IN  Scan(c, Below(c), BlockBelow(c))

GetBlockPositions ==
    /\ phase = "scan"
    /\ scanned = MaxBlocksNum
    /\ phase' = "blocks"
    /\ UNCHANGED <<vis, map, walls, scanned, toAdd, blocks, nextBlockId, tankIndex,
                   shellIndex, drawn>>

----------------------------------------------------------------------------
(* GameRoom::initBlocks.  A direction is the pair of its signs, in x and y. *)

UPWARDS == <<0, -1>>
UPWARDS_LEFT == <<-1, -1>>
LEFT == <<-1, 0>>
DOWNWARDS_LEFT == <<-1, 1>>
DOWNWARDS == <<0, 1>>
DOWNWARDS_RIGHT == <<1, 1>>
RIGHT == <<1, 0>>
UPWARDS_RIGHT == <<1, -1>>

Horizontal(b) == b.start[2] = b.end[2]

\* The cell half a cell up and to the left of a coordinate, -1 off the grid.
GridBefore(coordinate) ==
    IF coordinate - GridSize \div 2 > 0
    THEN (coordinate - GridSize \div 2) \div GridSize
    ELSE -1

Upper == {DOWNWARDS, DOWNWARDS_RIGHT, DOWNWARDS_LEFT}
Lower == {UPWARDS, UPWARDS_RIGHT, UPWARDS_LEFT}
Lefter == {RIGHT, UPWARDS_RIGHT, DOWNWARDS_RIGHT}
Righter == {LEFT, UPWARDS_LEFT, DOWNWARDS_LEFT}
UpperLeft == {DOWNWARDS, DOWNWARDS_RIGHT, RIGHT}
UpperRight == {DOWNWARDS, DOWNWARDS_LEFT, LEFT}
LowerLeft == {UPWARDS, UPWARDS_RIGHT, RIGHT}
LowerRight == {UPWARDS, UPWARDS_LEFT, LEFT}

\* The cells that a horizontal and a vertical wall are entered for, each with
\* the directions in which a shell in that cell may meet the wall.
AroundHorizontal(gx, gy) ==
    (IF gx >= 0 THEN {<<gx, gy, UpperLeft>>, <<gx, gy + 1, LowerLeft>>} ELSE {})
    \cup {<<gx + 1, gy, Upper>>, <<gx + 1, gy + 1, Lower>>}
    \cup (IF gx + 2 < Width
          THEN {<<gx + 2, gy, UpperRight>>, <<gx + 2, gy + 1, LowerRight>>}
          ELSE {})

\* Mutated form of AroundVertical: the test for the last row is one off.
AroundVerticalOneOff(gx, gy) ==
    (IF gy >= 0 THEN {<<gx, gy, UpperLeft>>, <<gx + 1, gy, UpperRight>>} ELSE {})
    \cup {<<gx, gy + 1, Lefter>>, <<gx + 1, gy + 1, Righter>>}
    \cup (IF gy + 3 < Height
          THEN {<<gx, gy + 2, LowerLeft>>, <<gx + 1, gy + 2, LowerRight>>}
          ELSE {})

AroundVertical(gx, gy) ==
    (IF gy >= 0 THEN {<<gx, gy, UpperLeft>>, <<gx + 1, gy, UpperRight>>} ELSE {})
    \cup {<<gx, gy + 1, Lefter>>, <<gx + 1, gy + 1, Righter>>}
    \cup (IF gy + 2 < Height
          THEN {<<gx, gy + 2, LowerLeft>>, <<gx + 1, gy + 2, LowerRight>>}
          ELSE {})

Around(b) ==
    LET gx == GridBefore(b.start[1])
        gy == GridBefore(b.start[2])
    IN  IF Horizontal(b) THEN AroundHorizontal(gx, gy) ELSE AroundVertical(gx, gy)

AddBlock ==
    /\ phase = "blocks"
    /\ toAdd # <<>>
    /\ LET b == Head(toAdd)
           id == nextBlockId
       IN  /\ blocks' = [i \in DOMAIN blocks \cup {id} |->
                            IF i = id THEN b ELSE blocks[i]]
           /\ tankIndex' = tankIndex \cup {<<e[1], e[2], id>> : e \in Around(b)}
           /\ shellIndex' = shellIndex \cup
                 UNION {{<<e[1], e[2], dir, id>> : dir \in e[3]} : e \in Around(b)}
    /\ nextBlockId' = nextBlockId + 1
    /\ toAdd' = Tail(toAdd)
    /\ UNCHANGED <<phase, vis, map, walls, scanned, drawn>>

BlocksAdded ==
    /\ phase = "blocks"
    /\ toAdd = <<>>
    /\ phase' = "positions"
    /\ UNCHANGED <<vis, map, walls, scanned, toAdd, blocks, nextBlockId, tankIndex,
                   shellIndex, drawn>>

----------------------------------------------------------------------------
(* GameRoom::getRandomPositions, and the tanks that init puts there *)

EnoughDrawn == Cardinality(drawn) >= Players

\* A cell that was drawn before is drawn in vain.
Draw(c) ==
    /\ phase = "positions"
    /\ ~EnoughDrawn
    /\ drawn' = drawn \cup {c}
    /\ UNCHANGED <<phase, vis, map, walls, scanned, toAdd, blocks, nextBlockId,
                   tankIndex, shellIndex>>

PutTanks ==
    /\ phase = "positions"
    /\ EnoughDrawn
    /\ phase' = "ready"
    /\ UNCHANGED <<vis, map, walls, scanned, toAdd, blocks, nextBlockId, tankIndex,
                   shellIndex, drawn>>

----------------------------------------------------------------------------
Work ==
    \/ \E wall \in BagToSet(walls) : Generate(wall)
    \/ MazeDone
    \/ ScanRight
    \/ ScanBelow
    \/ GetBlockPositions
    \/ AddBlock
    \/ BlocksAdded
    \/ \E c \in Cells : Draw(c)
    \/ PutTanks

Next == Work \/ InitAgain

Spec == Init /\ [][Next]_vars

\* init is a sequence of loops that go on until they end; the random numbers
\* come, sooner or later, to a cell that was not drawn yet.  Nothing obliges a
\* round to be played.
FairSpec == Spec /\ WF_vars(Work)

----------------------------------------------------------------------------
(* checkShellBlockCollision and checkTankBlockCollision: what they look up. *)

\* The direction of a shell with that heading, in degrees counterclockwise.
Direction(angle) ==
    CASE angle = 0 -> RIGHT
      [] angle > 0 /\ angle < 90 -> UPWARDS_RIGHT
      [] angle = 90 -> UPWARDS
      [] angle > 90 /\ angle < 180 -> UPWARDS_LEFT
      [] angle = 180 -> LEFT
      [] angle > 180 /\ angle < 270 -> DOWNWARDS_LEFT
      [] angle = 270 -> DOWNWARDS
      [] angle > 270 /\ angle < 360 -> DOWNWARDS_RIGHT
      [] OTHER -> UPWARDS       \* dir is still 0, which is UPWARDS

\* Headings are whole degrees: a bounce off a wall turns a shell to one of these.
AngleFlipX(angle) == (360 - angle) % 360
AngleFlipY(angle) == IF angle \in 0..180 THEN 180 - angle ELSE 540 - angle

ShellLooksUp(c, angle) ==
    {e[4] : e \in {f \in shellIndex :
                      <<f[1], f[2]>> = c /\ f[3] = Direction(angle)}}
TankLooksUp(c) == {e[3] : e \in {f \in tankIndex : <<f[1], f[2]>> = c}}

----------------------------------------------------------------------------
(* Properties. *)

Block == [start : Int \X Int, end : Int \X Int]

\* The types of Maze.h and GameRoom.h 93-98.  Ids of blocks never reach those
\* of tanks or shells, which moveAll tells apart by their ranges.
TypeOK ==
    /\ phase \in {"maze", "scan", "blocks", "positions", "ready"}
    /\ drawn \subseteq Cells
    /\ vis \subseteq Cells
    /\ map \subseteq {{c, d} : c \in Cells, d \in Cells}
    /\ IsABag(walls)
    /\ \A wall \in BagToSet(walls) :
          wall[1] \in Cells /\ wall[2] \in Neighbours(wall[1])
    /\ scanned \in 0..MaxBlocksNum
    /\ toAdd \in Seq(Block)
    /\ DOMAIN blocks = FirstBlockId..(nextBlockId - 1)
    /\ \A id \in DOMAIN blocks : blocks[id] \in Block
    /\ nextBlockId \in FirstBlockId..FirstShellId

\* Whoever walks along the passages from the corner comes to all those cells.
Connected(cells) ==
    \A seen \in SUBSET cells :
        (/\ Corner \in seen
         /\ \A passage \in map : passage \cap seen # {} => passage \subseteq seen)
            => seen = cells

\* The passages make a tree of the cells reached so far, so that there is just
\* one way between any two, and in the end it spans the grid: no player is ever
\* walled in, though the generation starts with one wall of the corner only.
MazeIsTree ==
    /\ Connected(vis)
    /\ Cardinality(map) = Cardinality(vis) - 1
    /\ phase # "maze" => vis = Cells

\* The generation comes to its end, although walls that were tried in vain put
\* others back into the vector, and so does the drawing of cells for the tanks,
\* which draws some in vain.
ArenaGetsReady == phase = "maze" ~> phase = "ready"

\* A wall stands between two neighbours just where the maze has no passage: the
\* two loops of getBlockPositions miss no pair of cells, and initBlocks enters all
\* that they found, so that the way along the passages, and no other, is free.
WallsStand ==
    phase = "ready" =>
        {blocks[id] : id \in DOMAIN blocks} =
            {BlockRightOf(c) : c \in {d \in Cells : Right(d) \in Cells
                                                   /\ Closed(d, Right(d))}}
            \cup
            {BlockBelow(c) : c \in {d \in Cells : Below(d) \in Cells
                                                 /\ Closed(d, Below(d))}}

Touches(b, c) ==
    /\ b.start[1] <= (c[1] + 1) * GridSize /\ c[1] * GridSize <= b.end[1]
    /\ b.start[2] <= (c[2] + 1) * GridSize /\ c[2] * GridSize <= b.end[2]

Sign(n) == IF n > 0 THEN 1 ELSE IF n < 0 THEN -1 ELSE 0

\* Which way the middle of a wall lies from the middle of a cell.
Side(b, c) == [i \in 1..2 |-> Sign(b.start[i] + b.end[i] - (2 * c[i] + 1) * GridSize)]

\* The signs of a shell's movement: x grows to the right, y downwards.
Heading(angle) ==
    << IF angle < 90 \/ angle > 270 THEN 1 ELSE IF angle \in {90, 270} THEN 0 ELSE -1,
       IF angle \in {0, 180} THEN 0 ELSE IF angle < 180 THEN -1 ELSE 1 >>

\* It comes nearer in one coordinate, and goes away in none.
Approaches(angle, side) ==
    LET along == [i \in 1..2 |-> Heading(angle)[i] * side[i]]
    IN  along[1] >= 0 /\ along[2] >= 0 /\ along[1] + along[2] > 0

Headings == {0, 1, 45, 89, 90, 91, 179, 180, 181, 269, 270, 271, 359}

\* When a round begins, a tank is tested against all walls that touch its cell,
\* the six adjacent cells of GameRoom.cc 195, and a shell against those of them
\* it approaches, before and after a bounce; nothing is left over from earlier
\* rounds or entered for a cell that is not there.
WallsAreFound ==
    phase = "ready" =>
        /\ \A e \in tankIndex : <<e[1], e[2]>> \in Cells
        /\ \A c \in Cells :
              LET near == {id \in DOMAIN blocks : Touches(blocks[id], c)}
              IN  /\ TankLooksUp(c) = near
                  /\ \A a \in Headings :
                        \A angle \in {a, AngleFlipX(a), AngleFlipY(a)} :
                            ShellLooksUp(c, angle) =
                                {id \in near :
                                    Approaches(angle, Side(blocks[id], c))}
=============================================================================
