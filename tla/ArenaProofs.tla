----------------------------- MODULE ArenaProofs -----------------------------
(***************************************************************************)
(* Proofs about Arena for a grid of any width and height, every size of a  *)
(* cell and any number of players: that the generation of the maze, in     *)
(* whatever order the walls are drawn, makes a spanning tree of the grid,  *)
(* and that the tables of initBlocks lead a shell or a tank to just those  *)
(* walls that it can meet.                                                 *)
(***************************************************************************)
EXTENDS Arena, FiniteSetTheorems, TLAPS

----------------------------------------------------------------------------
(* The inductive invariant. *)

\* What is reached is reached from a cell that was reached before.
WallsLeadOn ==
    \A wall \in BagToSet(walls) :
        wall[1] \in vis /\ wall[2] \in Neighbours(wall[1])

PassagesInside == \A passage \in map : passage \subseteq vis

\* No way on is forgotten, but for those out of the corner, of which only one
\* is tried to begin with.
NothingForgotten ==
    /\ Corner \in vis
    /\ FirstWall \in BagToSet(walls) \/ <<1, 0>> \in vis
    /\ \A c \in vis \ {Corner} :
          \A d \in Neighbours(c) \ vis : <<c, d>> \in BagToSet(walls)

MazeFinite == IsFiniteSet(vis) /\ IsFiniteSet(map)

\* An iteration of the two loops finds one block at most.
BlocksCounted ==
    /\ phase = "maze" => toAdd = <<>> /\ nextBlockId = FirstBlockId
    /\ phase = "scan" => nextBlockId = FirstBlockId /\ Len(toAdd) <= scanned
    /\ nextBlockId + Len(toAdd) <= FirstShellId

\* A wall between a cell and its neighbour to the right, or below.
WallOf(c, b) ==
    \/ c[1] + 1 < Width /\ b = BlockRightOf(c)
    \/ c[2] + 1 < Height /\ b = BlockBelow(c)

IsWall(b) == \E c \in Cells : WallOf(c, b)

BlocksAreWalls ==
    /\ \A i \in DOMAIN toAdd : IsWall(toAdd[i])
    /\ \A id \in DOMAIN blocks : IsWall(blocks[id])

\* The tables say of each block that was entered what Around says, and no more.
IndexedSoFar ==
    /\ \A t : t \in tankIndex <=>
                \E id \in DOMAIN blocks : \E e \in Around(blocks[id]) :
                    t = <<e[1], e[2], id>>
    /\ \A t : t \in shellIndex <=>
                \E id \in DOMAIN blocks : \E e \in Around(blocks[id]) :
                    \E dir \in e[3] : t = <<e[1], e[2], dir, id>>

MazeInv ==
    /\ WallsLeadOn
    /\ PassagesInside
    /\ NothingForgotten
    /\ MazeFinite
    /\ MazeIsTree

BlocksInv == BlocksCounted /\ BlocksAreWalls /\ IndexedSoFar

IInv == TypeOK /\ MazeInv /\ BlocksInv

----------------------------------------------------------------------------
(* Bags of walls. *)

LEMMA OneWall ==
    ASSUME NEW wall
    PROVE  IsABag(SetToBag({wall})) /\ BagToSet(SetToBag({wall})) = {wall}
BY DEF IsABag, SetToBag, BagToSet

\* One copy of a wall is taken out, and one of each of some others put in.
LEMMA BagStep ==
    ASSUME NEW bag, IsABag(bag), NEW wall \in BagToSet(bag), NEW more,
           NEW new, new = (bag (-) SetToBag({wall})) (+) SetToBag(more)
    PROVE  /\ IsABag(new)
           /\ more \subseteq BagToSet(new)
           /\ BagToSet(bag) \ {wall} \subseteq BagToSet(new)
           /\ BagToSet(new) \subseteq BagToSet(bag) \cup more
<1> DEFINE less == [e \in DOMAIN bag |->
                       IF e \in {wall} THEN bag[e] - 1 ELSE bag[e]]
           left == [e \in {d \in DOMAIN bag : less[d] > 0} |-> less[e]]
<1>1. \A e \in DOMAIN bag : bag[e] \in Nat /\ bag[e] > 0
  BY DEF IsABag
<1>2. bag (-) SetToBag({wall}) = left
  BY DEF SetToBag, (-)
<1>3. /\ DOMAIN left \subseteq DOMAIN bag
      /\ DOMAIN bag \ {wall} \subseteq DOMAIN left
      /\ \A e \in DOMAIN left : left[e] \in Nat /\ left[e] > 0
  BY <1>1
<1> HIDE DEF less, left
<1>4. new = [e \in DOMAIN left \cup more |->
                (IF e \in DOMAIN left THEN left[e] ELSE 0)
              + (IF e \in more THEN 1 ELSE 0)]
  BY <1>2 DEF SetToBag, (+)
<1>5. DOMAIN new = DOMAIN left \cup more
  BY <1>4
<1>6. ASSUME NEW e \in DOMAIN new PROVE new[e] \in Nat /\ new[e] > 0
  <2>1. new[e] = (IF e \in DOMAIN left THEN left[e] ELSE 0)
                 + (IF e \in more THEN 1 ELSE 0)
    BY <1>4, <1>5
  <2>2. CASE e \in DOMAIN left
    BY <1>3, <2>1, <2>2
  <2>3. CASE e \notin DOMAIN left
    BY <1>5, <2>1, <2>3
  <2> QED
    BY <2>2, <2>3
<1>7. IsABag(new)
  BY <1>4, <1>6 DEF IsABag
<1> QED
  BY <1>3, <1>5, <1>7 DEF BagToSet

----------------------------------------------------------------------------
(* Cells. *)

LEMMA LeastNat ==
    ASSUME NEW S, S \subseteq Nat, S # {}
    PROVE  \E i \in S : \A j \in S : i <= j
<1>1. \E i \in S : \A j \in S : ~(<<j, i>> \in OpToRel(<, Nat))
  BY NatLessThanWellFounded, WFMin, Zenon
<1>2. PICK i \in S : \A j \in S : ~(<<j, i>> \in OpToRel(<, Nat))
  BY <1>1
<1>3. \A j \in S : ~(j < i)
  BY <1>2 DEF OpToRel
<1>4. \A j \in S : i <= j
  BY <1>3, SMT
<1> QED
  BY <1>4

LEMMA CellOf ==
    ASSUME NEW x, NEW y
    PROVE  <<x, y>> \in Cells <=> x \in 0..Width - 1 /\ y \in 0..Height - 1
BY DEF Cells

LEMMA CellType ==
    ASSUME NEW c \in Cells
    PROVE  /\ c[1] \in 0..Width - 1 /\ c[2] \in 0..Height - 1
           /\ c = <<c[1], c[2]>>
BY DEF Cells

LEMMA CornerIsCell == Corner \in Cells /\ <<1, 0>> \in Neighbours(Corner)
BY GridAssumption DEF Corner, Cells, Neighbours

LEMMA NeighboursAreCells ==
    ASSUME NEW c, NEW d \in Neighbours(c)
    PROVE  d \in Cells
BY DEF Neighbours

\* If every neighbour of every cell that was reached, except the corner, was
\* reached too, and one next to the corner, then all cells are reached.
LEMMA AllReached ==
    ASSUME NEW seen \in SUBSET Cells, Corner \in seen, <<1, 0>> \in seen,
           \A c \in seen \ {Corner} : Neighbours(c) \subseteq seen
    PROVE  seen = Cells
<1>1. Width \in Nat /\ Width > 1 /\ Height \in Nat /\ Height > 0
  BY GridAssumption
<1>2. \A x \in 1..Width - 1 : <<x, 0>> \in seen
  <2> DEFINE missing == {x \in 1..Width - 1 : <<x, 0>> \notin seen}
  <2>1. SUFFICES ASSUME missing # {} PROVE FALSE
    OBVIOUS
  <2>2. missing \subseteq Nat
    BY <1>1
  <2>3. PICK x \in missing : \A y \in missing : x <= y
    BY <2>1, <2>2, LeastNat
  <2>4. x \in 1..Width - 1 /\ x # 1 /\ <<x, 0>> \notin seen
    OBVIOUS
  <2>5. x - 1 \in 1..Width - 1 /\ ~(x <= x - 1)
    BY <1>1, <2>4
  <2>6. <<x - 1, 0>> \in seen \ {Corner}
    BY <2>3, <2>5 DEF Corner
  <2>7. <<x, 0>> \in Neighbours(<<x - 1, 0>>)
    BY <1>1, <2>4 DEF Neighbours, Cells
  <2> QED
    BY <2>4, <2>6, <2>7
<1>3. \A x \in 1..Width - 1 : \A y \in 0..Height - 1 : <<x, y>> \in seen
  <2> SUFFICES ASSUME NEW x \in 1..Width - 1
               PROVE  \A y \in 0..Height - 1 : <<x, y>> \in seen
    OBVIOUS
  <2> DEFINE missing == {y \in 0..Height - 1 : <<x, y>> \notin seen}
  <2>1. SUFFICES ASSUME missing # {} PROVE FALSE
    OBVIOUS
  <2>2. missing \subseteq Nat
    BY <1>1
  <2>3. PICK y \in missing : \A z \in missing : y <= z
    BY <2>1, <2>2, LeastNat
  <2>4. y \in 0..Height - 1 /\ y # 0 /\ <<x, y>> \notin seen
    BY <1>2
  <2>5. y - 1 \in 0..Height - 1 /\ ~(y <= y - 1)
    BY <1>1, <2>4
  <2>6. <<x, y - 1>> \in seen \ {Corner}
    BY <1>1, <2>3, <2>5 DEF Corner
  <2>7. <<x, y>> \in Neighbours(<<x, y - 1>>)
    BY <1>1, <2>4 DEF Neighbours, Cells
  <2> QED
    BY <2>4, <2>6, <2>7
<1>4. \A y \in 1..Height - 1 : <<0, y>> \in seen
  <2> SUFFICES ASSUME NEW y \in 1..Height - 1
               PROVE  <<0, y>> \in seen
    OBVIOUS
  <2>1. <<1, y>> \in seen \ {Corner}
    BY <1>1, <1>3 DEF Corner
  <2>2. <<0, y>> \in Neighbours(<<1, y>>)
    BY <1>1 DEF Neighbours, Cells
  <2> QED
    BY <2>1, <2>2
<1>5. ASSUME NEW c \in Cells PROVE c \in seen
  <2>1. c = <<c[1], c[2]>> /\ c[1] \in 0..Width - 1 /\ c[2] \in 0..Height - 1
    BY CellType
  <2>2. CASE c[1] # 0
    BY <1>1, <1>3, <2>1, <2>2
  <2>3. CASE c[1] = 0 /\ c[2] # 0
    <3>1. c[2] \in 1..Height - 1 /\ c = <<0, c[2]>>
      BY <1>1, <2>1, <2>3
    <3> QED
      BY <1>4, <3>1
  <2>4. CASE c[1] = 0 /\ c[2] = 0
    BY <2>1, <2>4 DEF Corner
  <2> QED
    BY <2>2, <2>3, <2>4
<1> QED
  BY <1>5

----------------------------------------------------------------------------
(* Maze::generate *)

\* No passage leads out of these cells.
ClosedUnder(passages, cells) ==
    \A passage \in passages : passage \cap cells # {} => passage \subseteq cells

\* A cell reached by a new passage from a cell that was connected before.
LEMMA StillConnected ==
    ASSUME Connected(vis), PassagesInside, NEW a \in vis, NEW c, c \notin vis,
           Corner \in vis, NEW seen, seen \subseteq vis \cup {c}, Corner \in seen,
           ClosedUnder(map \cup {{a, c}}, seen)
    PROVE  seen = vis \cup {c}
<1> DEFINE before == seen \cap vis
<1>1. Corner \in before
  OBVIOUS
<1>2. ASSUME NEW passage \in map, passage \cap before # {}
      PROVE  passage \subseteq before
  <2>1. passage \subseteq vis
    BY DEF PassagesInside
  <2>2. passage \subseteq seen
    BY <1>2 DEF ClosedUnder
  <2> QED
    BY <2>1, <2>2
<1>3. before \in SUBSET vis
  OBVIOUS
<1> HIDE DEF before
<1>4. before = vis
  BY <1>1, <1>2, <1>3 DEF Connected
<1>5. a \in seen
  BY <1>4 DEF before
<1>6. c \in seen
  BY <1>5 DEF ClosedUnder
<1> QED
  BY <1>4, <1>6 DEF before

\* What TypeOK says of the maze and of the cells drawn.
MazeType ==
    /\ drawn \subseteq Cells
    /\ vis \subseteq Cells
    /\ map \subseteq {{c, d} : c \in Cells, d \in Cells}
    /\ IsABag(walls)
    /\ \A wall \in BagToSet(walls) :
          wall[1] \in Cells /\ wall[2] \in Neighbours(wall[1])

LEMMA GenerateKeeps ==
    ASSUME MazeType, MazeInv, NEW wall \in BagToSet(walls), Generate(wall)
    PROVE  MazeType' /\ MazeInv'
<1> PICK a, c : a = wall[1] /\ c = wall[2]
  OBVIOUS
<1> PICK more : more = {<<c, d>> : d \in Frontier(c)}
  OBVIOUS
<1>1. /\ a \in vis /\ a \in Cells /\ c \in Neighbours(a) /\ c \in Cells
      /\ vis \subseteq Cells
      /\ IsABag(walls)
  BY NeighboursAreCells DEF MazeType, MazeInv, WallsLeadOn
<1>2. a # c
  <2>1. a[1] \in Int /\ a[2] \in Int
    BY <1>1, CellType
  <2> QED
    BY <1>1, <2>1 DEF Neighbours
<1>3. /\ vis' = vis \cup {c}
      /\ map' = IF c \in vis THEN map ELSE map \cup {{a, c}}
      /\ phase = "maze" /\ phase' = "maze"
  BY DEF Generate, Opened
<1>4. walls' = (walls (-) SetToBag({wall})) (+) SetToBag(more)
  BY DEF Generate
<1>5. /\ IsABag(walls')
      /\ more \subseteq BagToSet(walls')
      /\ BagToSet(walls) \ {wall} \subseteq BagToSet(walls')
      /\ BagToSet(walls') \subseteq BagToSet(walls) \cup more
  BY <1>1, <1>4, BagStep
<1>6. PassagesInside'
  BY <1>1, <1>3 DEF MazeInv, PassagesInside
<1>7. WallsLeadOn'
  <2> SUFFICES ASSUME NEW w \in BagToSet(walls')
               PROVE  w[1] \in vis' /\ w[2] \in Neighbours(w[1])
    BY DEF WallsLeadOn
  <2>1. CASE w \in BagToSet(walls)
    BY <1>3, <2>1 DEF MazeInv, WallsLeadOn
  <2>2. CASE w \in more
    <3>1. PICK d \in Frontier(c) : w = <<c, d>>
      BY <2>2
    <3>2. w[1] = c /\ w[2] = d /\ d \in Neighbours(c)
      BY <3>1 DEF Frontier
    <3> QED
      BY <1>3, <3>2
  <2> QED
    BY <1>5, <2>1, <2>2
<1>8. NothingForgotten'
  <2>1. Corner \in vis'
    BY <1>3 DEF MazeInv, NothingForgotten
  <2>2. FirstWall \in BagToSet(walls') \/ <<1, 0>> \in vis'
    BY <1>3, <1>5 DEF MazeInv, NothingForgotten, FirstWall
  <2>3. ASSUME NEW e \in vis' \ {Corner}, NEW d \in Neighbours(e) \ vis'
        PROVE  <<e, d>> \in BagToSet(walls')
    <3>1. d # c /\ d \notin vis
      BY <1>3
    <3>2. CASE e = c
      <4>1. {c, d} \notin map
        BY <3>1 DEF MazeInv, PassagesInside
      <4>2. d \in Frontier(c)
        BY <3>1, <3>2, <4>1 DEF Frontier
      <4> QED
        BY <1>5, <3>2, <4>2
    <3>3. CASE e # c
      <4>1. <<e, d>> \in BagToSet(walls)
        BY <1>3, <3>1, <3>3 DEF MazeInv, NothingForgotten
      <4>2. <<e, d>> # wall
        BY <3>1
      <4> QED
        BY <1>5, <4>1, <4>2
    <3> QED
      BY <3>2, <3>3
  <2> QED
    BY <2>1, <2>2, <2>3 DEF NothingForgotten
<1>9. MazeFinite'
  BY <1>3, FS_AddElement DEF MazeInv, MazeFinite
<1>10. Connected(vis)'
  <2>1. CASE c \in vis
    <3>1. vis' = vis /\ map' = map
      BY <1>3, <2>1
    <3> QED
      BY <3>1 DEF MazeInv, MazeIsTree, Connected
  <2>2. CASE c \notin vis
    <3> SUFFICES ASSUME NEW seen \in SUBSET vis', Corner \in seen,
                        \A passage \in map' :
                            passage \cap seen # {} => passage \subseteq seen
                 PROVE  seen = vis'
      BY DEF Connected
    <3>1. Connected(vis) /\ PassagesInside /\ Corner \in vis
      BY DEF MazeInv, MazeIsTree, NothingForgotten
    <3>2. map' = map \cup {{a, c}} /\ vis' = vis \cup {c}
      BY <1>3, <2>2
    <3>3. ClosedUnder(map \cup {{a, c}}, seen)
      BY <3>2 DEF ClosedUnder
    <3>4. seen \subseteq vis \cup {c} /\ Corner \in seen
      BY <3>2
    <3>5. seen = vis \cup {c}
      <4>1. a \in vis /\ c \notin vis
        BY <1>1, <2>2
      <4> QED
        BY <3>1, <3>3, <3>4, <4>1, StillConnected
    <3> QED
      BY <3>2, <3>5
  <2> QED
    BY <2>1, <2>2
<1>11. Cardinality(map') = Cardinality(vis') - 1
  <2>0. Cardinality(vis) \in Nat /\ Cardinality(map) \in Nat
    BY FS_CardinalityType DEF MazeInv, MazeFinite
  <2>1. CASE c \in vis
    <3>1. vis' = vis /\ map' = map
      BY <1>3, <2>1
    <3> QED
      BY <3>1 DEF MazeInv, MazeIsTree
  <2>2. CASE c \notin vis
    <3>1. {a, c} \notin map
      BY <2>2 DEF MazeInv, PassagesInside
    <3>2. Cardinality(vis') = Cardinality(vis) + 1
      BY <1>3, <2>2, FS_AddElement DEF MazeInv, MazeFinite
    <3>3. Cardinality(map') = Cardinality(map) + 1
      BY <1>3, <2>2, <3>1, FS_AddElement DEF MazeInv, MazeFinite
    <3> QED
      BY <2>0, <3>2, <3>3 DEF MazeInv, MazeIsTree
  <2> QED
    BY <2>1, <2>2
<1>12. MazeInv'
  BY <1>3, <1>6, <1>7, <1>8, <1>9, <1>10, <1>11 DEF MazeInv, MazeIsTree
<1>13. vis' \subseteq Cells
  BY <1>1, <1>3
<1>14. map' \subseteq {{e, d} : e \in Cells, d \in Cells}
  <2>1. {a, c} \in {{e, d} : e \in Cells, d \in Cells}
    BY <1>1
  <2> QED
    BY <1>3, <2>1 DEF MazeType
<1>15. \A w \in BagToSet(walls') : w[1] \in Cells /\ w[2] \in Neighbours(w[1])
  BY <1>7, <1>13 DEF WallsLeadOn
<1>16. drawn' \subseteq Cells
  BY DEF Generate, MazeType
<1>17. MazeType'
  BY <1>5, <1>13, <1>14, <1>15, <1>16 DEF MazeType
<1> QED
  BY <1>12, <1>17

\* The vector is empty only when there is no cell left to reach.
LEMMA MazeDoneKeeps ==
    ASSUME TypeOK, MazeInv, MazeDone
    PROVE  MazeInv'
<1>1. BagToSet(walls) = {}
  BY DEF MazeDone, EmptyBag, SetToBag, BagToSet
<1>2. vis = Cells
  BY <1>1, AllReached DEF TypeOK, MazeInv, NothingForgotten
<1>3. /\ vis' = vis /\ map' = map /\ walls' = walls
  BY DEF MazeDone
<1> QED
  BY <1>2, <1>3 DEF MazeInv, WallsLeadOn, PassagesInside, NothingForgotten,
     MazeFinite, MazeIsTree, Connected

\* Nothing is reached any more after the generation.
LEMMA MazeKept ==
    ASSUME MazeType, MazeInv, UNCHANGED <<vis, map, walls>>, phase # "maze",
           drawn' \subseteq Cells
    PROVE  MazeType' /\ MazeInv'
<1>1. MazeInv'
  BY DEF MazeInv, WallsLeadOn, PassagesInside, NothingForgotten, MazeFinite,
     MazeIsTree, Connected
<1>2. MazeType'
  BY DEF MazeType
<1> QED
  BY <1>1, <1>2

\* The maze that init begins with.
LEMMA MazeBegins ==
    ASSUME phase = "maze", vis = {Corner}, map = {}, walls = SetToBag({FirstWall}),
           drawn = {}
    PROVE  MazeType /\ MazeInv
<1>1. IsABag(walls) /\ BagToSet(walls) = {FirstWall}
  BY OneWall
<1>2. Corner \in Cells /\ <<1, 0>> \in Neighbours(Corner)
  BY CornerIsCell
<1>3. FirstWall[1] = Corner /\ FirstWall[2] = <<1, 0>>
  BY DEF FirstWall
<1>4. WallsLeadOn /\ PassagesInside /\ NothingForgotten
  BY <1>1, <1>2, <1>3 DEF WallsLeadOn, PassagesInside, NothingForgotten
<1>5. IsFiniteSet(vis) /\ Cardinality(vis) = 1
  BY FS_Singleton
<1>6. IsFiniteSet(map) /\ Cardinality(map) = 0
  BY FS_EmptySet
<1>7. Connected(vis)
  BY DEF Connected
<1>8. MazeType
  BY <1>1, <1>2, <1>3 DEF MazeType
<1> QED
  BY <1>4, <1>5, <1>6, <1>7, <1>8 DEF MazeInv, MazeFinite, MazeIsTree

----------------------------------------------------------------------------
(* Maze::getBlockPositions *)

LEMMA ProductOfNats ==
    ASSUME NEW m \in Nat, NEW n \in Nat
    PROVE  m * n \in Nat
OBVIOUS

LEMMA Counts ==
    /\ FirstLoop \in Nat
    /\ (Height - 1) * Width \in Nat
    /\ MaxBlocksNum = FirstLoop + (Height - 1) * Width
    /\ FirstBlockId \in Nat
    /\ FirstShellId = FirstBlockId + MaxBlocksNum
<1>1. /\ Width \in Nat /\ Width - 1 \in Nat /\ Height \in Nat /\ Height - 1 \in Nat
      /\ MaxTankId \in Nat
  BY GridAssumption, MaxTankIdAssumption
<1>2. (Width - 1) * Height \in Nat
  BY <1>1, ProductOfNats
<1>3. (Height - 1) * Width \in Nat
  BY <1>1, ProductOfNats
<1> QED
  BY <1>1, <1>2, <1>3 DEF FirstLoop, MaxBlocksNum, FirstBlockId, FirstShellId

\* The number of an iteration of two loops, one within the other.
LEMMA DivideIterations ==
    ASSUME NEW m \in Nat, NEW n \in Nat, NEW i \in Nat, i < m * n
    PROVE  i % m \in 0..m - 1 /\ i \div m \in 0..n - 1
<1>1. m > 0
  BY SMT
<1>2. i % m \in 0..m - 1
  BY <1>1
<1>3. i \div m \in Nat /\ i = m * (i \div m) + (i % m)
  BY <1>1
<1>4. PICK q \in Nat, r \in 0..m - 1 : q = i \div m /\ i = m * q + r
  BY <1>2, <1>3
<1>5. q < n
  <2>1. SUFFICES ASSUME q >= n PROVE FALSE
    BY <1>4
  <2>2. PICK k \in Nat : q = n + k
    BY <1>4, <2>1
  <2>3. m * q = m * n + m * k
    BY <2>2
  <2>4. m * k \in Nat /\ m * n \in Nat /\ m * q \in Nat
    BY ProductOfNats
  <2> QED
    BY <1>4, <2>3, <2>4
<1> QED
  BY <1>2, <1>4, <1>5

\* The loops look at cells that have a neighbour on that side.
LEMMA ScanInside ==
    ASSUME NEW i \in Nat
    PROVE  /\ i < FirstLoop =>
                 RowByRow(i) \in Cells /\ WallOf(RowByRow(i), BlockRightOf(RowByRow(i)))
           /\ i < (Height - 1) * Width =>
                 /\ ColumnByColumn(i) \in Cells
                 /\ WallOf(ColumnByColumn(i), BlockBelow(ColumnByColumn(i)))
<1>1. /\ Width \in Nat /\ Width - 1 \in Nat /\ Height \in Nat /\ Height - 1 \in Nat
  BY GridAssumption
<1>2. ASSUME i < FirstLoop
      PROVE  RowByRow(i) \in Cells /\ RowByRow(i)[1] + 1 < Width
  <2>1. i % (Width - 1) \in 0..(Width - 1) - 1 /\ i \div (Width - 1) \in 0..Height - 1
    BY <1>1, <1>2, DivideIterations DEF FirstLoop
  <2> QED
    BY <1>1, <2>1 DEF RowByRow, Cells
<1>3. ASSUME i < (Height - 1) * Width
      PROVE  ColumnByColumn(i) \in Cells /\ ColumnByColumn(i)[2] + 1 < Height
  <2>1. i % (Height - 1) \in 0..(Height - 1) - 1 /\ i \div (Height - 1) \in 0..Width - 1
    BY <1>1, <1>3, DivideIterations
  <2> QED
    BY <1>1, <2>1 DEF ColumnByColumn, Cells
<1> QED
  BY <1>2, <1>3 DEF WallOf

LEMMA WallType ==
    ASSUME NEW b, IsWall(b)
    PROVE  b \in Block
<1>1. PICK c \in Cells : WallOf(c, b)
  BY DEF IsWall
<1>2. c[1] \in Int /\ c[2] \in Int /\ GridSize \in Int
  BY GridAssumption, GridSizeAssumption, CellType
<1>3. \A p \in Int \X Int, q \in Int \X Int : [start |-> p, end |-> q] \in Block
  BY DEF Block
<1>4. /\ Point(c[1] + 1, c[2]) \in Int \X Int
      /\ Point(c[1], c[2] + 1) \in Int \X Int
      /\ Point(c[1] + 1, c[2] + 1) \in Int \X Int
  BY <1>2 DEF Point
<1> QED
  BY <1>1, <1>3, <1>4 DEF WallOf, BlockRightOf, BlockBelow

\* What TypeOK says of the blocks.
BlocksType ==
    /\ phase \in {"maze", "scan", "blocks", "positions", "ready"}
    /\ scanned \in 0..MaxBlocksNum
    /\ toAdd \in Seq(Block)
    /\ DOMAIN blocks = FirstBlockId..(nextBlockId - 1)
    /\ \A id \in DOMAIN blocks : blocks[id] \in Block
    /\ nextBlockId \in FirstBlockId..FirstShellId

\* One iteration of either loop.
LEMMA ScanKeeps ==
    ASSUME BlocksType, BlocksInv, phase = "scan", scanned < MaxBlocksNum,
           NEW c \in Cells, NEW d, NEW b, WallOf(c, b), Scan(c, d, b)
    PROVE  BlocksType' /\ BlocksInv'
<1>1. IsWall(b) /\ b \in Block
  BY WallType DEF IsWall
<1>2. /\ scanned' = scanned + 1 /\ phase' = phase /\ blocks' = blocks
      /\ nextBlockId' = nextBlockId
      /\ tankIndex' = tankIndex /\ shellIndex' = shellIndex
      /\ toAdd' = Append(toAdd, b) \/ toAdd' = toAdd
  BY DEF Scan
<1>3. /\ scanned \in Nat /\ toAdd \in Seq(Block) /\ scanned <= MaxBlocksNum
  BY Counts DEF BlocksType
<1>4. /\ toAdd' \in Seq(Block)
      /\ Len(toAdd') <= Len(toAdd) + 1 /\ Len(toAdd') \in Nat /\ Len(toAdd) \in Nat
  BY <1>1, <1>2, <1>3
<1>5. BlocksType'
  BY <1>2, <1>3, <1>4, Counts DEF BlocksType
<1>6. BlocksCounted'
  BY <1>2, <1>3, <1>4, Counts DEF BlocksInv, BlocksCounted
<1>7. \A i \in DOMAIN toAdd' : IsWall(toAdd'[i])
  <2>1. \A i \in DOMAIN toAdd : IsWall(toAdd[i])
    BY DEF BlocksInv, BlocksAreWalls
  <2>2. CASE toAdd' = Append(toAdd, b)
    BY <1>1, <1>3, <2>1, <2>2
  <2>3. CASE toAdd' = toAdd
    BY <2>1, <2>3
  <2> QED
    BY <1>2, <2>2, <2>3
<1>8. BlocksAreWalls'
  BY <1>2, <1>7 DEF BlocksInv, BlocksAreWalls, IsWall
<1>9. IndexedSoFar'
  BY <1>2 DEF BlocksInv, IndexedSoFar
<1> QED
  BY <1>5, <1>6, <1>8, <1>9 DEF BlocksInv

----------------------------------------------------------------------------
(* GameRoom::initBlocks *)

LEMMA AddBlockKeeps ==
    ASSUME BlocksType, BlocksInv, AddBlock
    PROVE  BlocksType' /\ BlocksInv'
<1> PICK b, id : b = Head(toAdd) /\ id = nextBlockId
  OBVIOUS
<1>1. /\ phase = "blocks" /\ phase' = phase /\ scanned' = scanned
      /\ toAdd # <<>> /\ toAdd' = Tail(toAdd)
      /\ nextBlockId' = id + 1
      /\ blocks' = [i \in DOMAIN blocks \cup {id} |-> IF i = id THEN b ELSE blocks[i]]
      /\ tankIndex' = tankIndex \cup {<<e[1], e[2], id>> : e \in Around(b)}
      /\ shellIndex' = shellIndex \cup
            UNION {{<<e[1], e[2], dir, id>> : dir \in e[3]} : e \in Around(b)}
  BY DEF AddBlock
<1>2. /\ toAdd \in Seq(Block) /\ Len(toAdd) \in Nat /\ Len(toAdd) > 0
      /\ toAdd' \in Seq(Block) /\ Len(toAdd') = Len(toAdd) - 1
      /\ b = toAdd[1] /\ 1 \in DOMAIN toAdd
      /\ \A i \in DOMAIN toAdd' : i + 1 \in DOMAIN toAdd /\ toAdd'[i] = toAdd[i + 1]
  BY <1>1 DEF BlocksType
<1>3. IsWall(b) /\ b \in Block
  BY <1>2, WallType DEF BlocksInv, BlocksAreWalls
<1>4. /\ DOMAIN blocks = FirstBlockId..(id - 1) /\ id \in FirstBlockId..FirstShellId
      /\ id + Len(toAdd) <= FirstShellId
  BY DEF BlocksType, BlocksInv, BlocksCounted
<1>5. /\ DOMAIN blocks' = DOMAIN blocks \cup {id}
      /\ id \notin DOMAIN blocks
      /\ blocks'[id] = b
      /\ \A i \in DOMAIN blocks : blocks'[i] = blocks[i]
  BY <1>1, <1>4, Counts
<1>6. BlocksType'
  <2>1. DOMAIN blocks' = FirstBlockId..(nextBlockId' - 1)
    <3>1. (FirstBlockId..(id - 1)) \cup {id} = FirstBlockId..id
      BY <1>4, Counts
    <3>2. nextBlockId' - 1 = id
      BY <1>1, <1>4, Counts
    <3> QED
      BY <1>4, <1>5, <3>1, <3>2
  <2>2. \A i \in DOMAIN blocks' : blocks'[i] \in Block
    BY <1>3, <1>5 DEF BlocksType
  <2>3. nextBlockId' \in FirstBlockId..FirstShellId
    BY <1>1, <1>2, <1>4, Counts
  <2> QED
    BY <1>1, <1>2, <2>1, <2>2, <2>3 DEF BlocksType
<1>7. BlocksCounted'
  BY <1>1, <1>2, <1>4, Counts DEF BlocksCounted
<1>8. BlocksAreWalls'
  <2>1. \A i \in DOMAIN toAdd' : IsWall(toAdd'[i])
    BY <1>2 DEF BlocksInv, BlocksAreWalls
  <2>2. \A i \in DOMAIN blocks' : IsWall(blocks'[i])
    BY <1>3, <1>5 DEF BlocksInv, BlocksAreWalls
  <2> QED
    BY <2>1, <2>2 DEF BlocksAreWalls, IsWall
<1>9. ASSUME NEW t
      PROVE  t \in tankIndex' <=>
                \E i \in DOMAIN blocks' : \E e \in Around(blocks'[i]) :
                    t = <<e[1], e[2], i>>
  <2>1. t \in tankIndex <=>
            \E i \in DOMAIN blocks : \E e \in Around(blocks[i]) : t = <<e[1], e[2], i>>
    BY DEF BlocksInv, IndexedSoFar
  <2>2. t \in tankIndex' <=>
            t \in tankIndex \/ \E e \in Around(b) : t = <<e[1], e[2], id>>
    BY <1>1
  <2> QED
    BY <1>5, <2>1, <2>2
<1>10. ASSUME NEW t
       PROVE  t \in shellIndex' <=>
                \E i \in DOMAIN blocks' : \E e \in Around(blocks'[i]) :
                    \E dir \in e[3] : t = <<e[1], e[2], dir, i>>
  <2>1. t \in shellIndex <=>
            \E i \in DOMAIN blocks : \E e \in Around(blocks[i]) :
                \E dir \in e[3] : t = <<e[1], e[2], dir, i>>
    BY DEF BlocksInv, IndexedSoFar
  <2>2. t \in shellIndex' <=>
            \/ t \in shellIndex
            \/ \E e \in Around(b) : \E dir \in e[3] : t = <<e[1], e[2], dir, id>>
    BY <1>1
  <2> QED
    BY <1>5, <2>1, <2>2
<1>11. IndexedSoFar'
  BY <1>9, <1>10 DEF IndexedSoFar
<1> QED
  BY <1>6, <1>7, <1>8, <1>11 DEF BlocksInv

LEMMA BlocksBegin ==
    ASSUME phase = "maze", scanned = 0, toAdd = <<>>,
           blocks = [id \in {} |-> [start |-> Corner, end |-> Corner]],
           nextBlockId = FirstBlockId, tankIndex = {}, shellIndex = {}
    PROVE  BlocksType /\ BlocksInv
<1>1. DOMAIN blocks = {}
  OBVIOUS
<1>2. FirstBlockId..(nextBlockId - 1) = {}
  BY Counts
<1>3. /\ scanned \in 0..MaxBlocksNum /\ toAdd \in Seq(Block)
      /\ Len(toAdd) = 0 /\ DOMAIN toAdd = {}
      /\ nextBlockId \in FirstBlockId..FirstShellId
  BY Counts
<1>4. BlocksType
  BY <1>1, <1>2, <1>3 DEF BlocksType
<1>5. BlocksCounted
  BY <1>3, Counts DEF BlocksCounted
<1>6. BlocksAreWalls
  BY <1>1, <1>3 DEF BlocksAreWalls
<1>7. IndexedSoFar
  BY <1>1 DEF IndexedSoFar
<1> QED
  BY <1>4, <1>5, <1>6, <1>7 DEF BlocksInv

LEMMA BlocksKept ==
    ASSUME BlocksType, BlocksInv,
           UNCHANGED <<scanned, toAdd, blocks, nextBlockId, tankIndex, shellIndex>>,
           phase' \in {phase, "scan", "blocks", "positions", "ready"},
           phase' = "scan" => phase \in {"maze", "scan"}
    PROVE  BlocksType' /\ BlocksInv'
<1>1. phase' = "maze" => phase = "maze"
  BY SMT
<1>2. BlocksType'
  BY DEF BlocksType
<1>3. toAdd = <<>> => Len(toAdd) <= scanned
  BY Counts DEF BlocksType
<1>4. BlocksCounted'
  BY <1>1, <1>3 DEF BlocksInv, BlocksCounted
<1>5. BlocksAreWalls' /\ IndexedSoFar'
  BY DEF BlocksInv, BlocksAreWalls, IndexedSoFar, IsWall
<1> QED
  BY <1>2, <1>4, <1>5 DEF BlocksInv

----------------------------------------------------------------------------
(* The invariant. *)

LEMMA IInvParts == IInv <=> MazeType /\ MazeInv /\ BlocksType /\ BlocksInv
BY DEF IInv, TypeOK, MazeType, BlocksType

LEMMA IInvJoined ==
    ASSUME MazeType', MazeInv', BlocksType', BlocksInv'
    PROVE  IInv'
BY DEF IInv, TypeOK, MazeType, BlocksType

LEMMA InitHolds ==
    ASSUME Init
    PROVE  IInv
<1>1. BlocksType /\ BlocksInv
  BY BlocksBegin DEF Init
<1>2. MazeType /\ MazeInv
  BY MazeBegins DEF Init
<1> QED
  BY <1>1, <1>2, IInvParts

LEMMA StepKeeps ==
    ASSUME IInv, [Next]_vars
    PROVE  IInv'
<1>0. TypeOK /\ MazeType /\ MazeInv /\ BlocksType /\ BlocksInv
  BY IInvParts DEF IInv
<1>1. ASSUME NEW wall \in BagToSet(walls), Generate(wall)
      PROVE  IInv'
  <2>1. BlocksType' /\ BlocksInv'
    BY <1>0, <1>1, BlocksKept DEF Generate
  <2>2. MazeType' /\ MazeInv'
    BY <1>0, <1>1, GenerateKeeps
  <2> QED
    BY <2>1, <2>2, IInvJoined
<1>2. CASE MazeDone
  <2>1. BlocksType' /\ BlocksInv'
    BY <1>0, <1>2, BlocksKept DEF MazeDone
  <2>2. MazeType' /\ MazeInv'
    BY <1>0, <1>2, MazeDoneKeeps DEF MazeDone, MazeType
  <2> QED
    BY <2>1, <2>2, IInvJoined
<1>3. CASE ScanRight
  <2> PICK c : c = RowByRow(scanned)
    OBVIOUS
  <2>1. /\ scanned \in Nat /\ scanned < FirstLoop /\ scanned < MaxBlocksNum
        /\ phase = "scan" /\ Scan(c, Right(c), BlockRightOf(c))
    BY <1>0, <1>3, Counts DEF ScanRight, BlocksType
  <2>2. c \in Cells /\ WallOf(c, BlockRightOf(c))
    BY <2>1, ScanInside
  <2>3. BlocksType' /\ BlocksInv'
    BY <1>0, <2>1, <2>2, ScanKeeps
  <2>4. MazeType' /\ MazeInv'
    BY <1>0, <2>1, MazeKept DEF Scan, MazeType
  <2> QED
    BY <2>3, <2>4, IInvJoined
<1>4. CASE ScanBelow
  <2> PICK c : c = ColumnByColumn(scanned - FirstLoop)
    OBVIOUS
  <2>1. /\ scanned - FirstLoop \in Nat /\ scanned - FirstLoop < (Height - 1) * Width
        /\ scanned < MaxBlocksNum
        /\ phase = "scan" /\ Scan(c, Below(c), BlockBelow(c))
    BY <1>0, <1>4, Counts DEF ScanBelow, BlocksType
  <2>2. c \in Cells /\ WallOf(c, BlockBelow(c))
    BY <2>1, ScanInside
  <2>3. BlocksType' /\ BlocksInv'
    BY <1>0, <2>1, <2>2, ScanKeeps
  <2>4. MazeType' /\ MazeInv'
    BY <1>0, <2>1, MazeKept DEF Scan, MazeType
  <2> QED
    BY <2>3, <2>4, IInvJoined
<1>5. CASE GetBlockPositions
  <2>1. BlocksType' /\ BlocksInv'
    BY <1>0, <1>5, BlocksKept DEF GetBlockPositions
  <2>2. MazeType' /\ MazeInv'
    BY <1>0, <1>5, MazeKept DEF GetBlockPositions, MazeType
  <2> QED
    BY <2>1, <2>2, IInvJoined
<1>6. CASE AddBlock
  <2>1. BlocksType' /\ BlocksInv'
    BY <1>0, <1>6, AddBlockKeeps
  <2>2. MazeType' /\ MazeInv'
    BY <1>0, <1>6, MazeKept DEF AddBlock, MazeType
  <2> QED
    BY <2>1, <2>2, IInvJoined
<1>7. CASE BlocksAdded
  <2>1. BlocksType' /\ BlocksInv'
    BY <1>0, <1>7, BlocksKept DEF BlocksAdded
  <2>2. MazeType' /\ MazeInv'
    BY <1>0, <1>7, MazeKept DEF BlocksAdded, MazeType
  <2> QED
    BY <2>1, <2>2, IInvJoined
<1>8. ASSUME NEW c \in Cells, Draw(c)
      PROVE  IInv'
  <2>1. BlocksType' /\ BlocksInv'
    BY <1>0, <1>8, BlocksKept DEF Draw
  <2>2. MazeType' /\ MazeInv'
    BY <1>0, <1>8, MazeKept DEF Draw, MazeType
  <2> QED
    BY <2>1, <2>2, IInvJoined
<1>9. CASE PutTanks
  <2>1. BlocksType' /\ BlocksInv'
    BY <1>0, <1>9, BlocksKept DEF PutTanks
  <2>2. MazeType' /\ MazeInv'
    BY <1>0, <1>9, MazeKept DEF PutTanks, MazeType
  <2> QED
    BY <2>1, <2>2, IInvJoined
<1>10. CASE InitAgain
  <2>1. Init'
    BY <1>10 DEF InitAgain, Init, RestartIds, EmptyIndex
  <2>2. (Init => IInv)'
    BY InitHolds, PTL
  <2> QED
    BY <2>1, <2>2
<1>11. CASE UNCHANGED vars
  BY <1>11 DEF vars, IInv, TypeOK, MazeInv, WallsLeadOn, PassagesInside,
     NothingForgotten, MazeFinite, MazeIsTree, Connected, BlocksInv, BlocksCounted,
     BlocksAreWalls, IsWall, IndexedSoFar
<1> QED
  BY <1>1, <1>2, <1>3, <1>4, <1>5, <1>6, <1>7, <1>8, <1>9, <1>10, <1>11
     DEF Next, Work

\* The invariant holds in every state, whatever walls and cells are drawn.
THEOREM Invariance == Spec => []IInv
<1>1. Init => IInv
  BY InitHolds
<1>2. IInv /\ [Next]_vars => IInv'
  BY StepKeeps
<1> QED
  BY <1>1, <1>2, PTL DEF Spec

\* The types of Maze.h and of GameRoom.h 93-98: the ids that a round gives to its
\* walls stay between those of the tanks and those of the shells.
THEOREM TypeCorrect == Spec => []TypeOK
<1>1. IInv => TypeOK
  BY DEF IInv
<1> QED
  BY <1>1, Invariance, PTL

\* Maze::generate makes a spanning tree of a grid of any size, in whatever order
\* util::getRandomNumber draws the walls.
THEOREM SpanningTree == Spec => []MazeIsTree
<1>1. IInv => MazeIsTree
  BY DEF IInv, MazeInv
<1> QED
  BY <1>1, Invariance, PTL

----------------------------------------------------------------------------
(* Pixels and cells. *)

LEMMA DivideExactly ==
    ASSUME NEW a \in Int, NEW q \in Int, NEW r \in Nat, NEW b \in Nat, r < b,
           a = q * b + r
    PROVE  a \div b = q
OBVIOUS

\* Multiples of the size of a cell are ordered as their factors are.
LEMMA GridMonotone ==
    ASSUME NEW m \in Int, NEW n \in Int
    PROVE  /\ m * GridSize \in Int
           /\ m * GridSize <= n * GridSize <=> m <= n
<1>1. GridSize \in Int /\ GridSize > 0
  BY GridSizeAssumption
<1> QED
  BY <1>1

\* The column, or row, before a wall.
LEMMA GridBeforeWall ==
    ASSUME NEW k \in Nat
    PROVE  GridBefore(k * GridSize) = k - 1
<1>1. PICK n \in 1..100 : GridSize = 2 * n
  BY GridSizeAssumption
<1>2. GridSize \div 2 = n
  BY <1>1
<1>3. k * GridSize - n = (k - 1) * GridSize + n
  BY <1>1
<1>4. CASE k = 0
  BY <1>1, <1>2, <1>4 DEF GridBefore
<1>5. CASE k > 0
  <2>1. PICK m \in Nat : m = k - 1
    BY <1>5
  <2>2. PICK z \in Int : z = m * GridSize + n
    BY <1>1
  <2>3. m * GridSize \in Nat
    BY <1>1
  <2>4. z > 0 /\ k * GridSize - GridSize \div 2 = z
    BY <1>1, <1>2, <1>3, <2>1, <2>2, <2>3
  <2>5. z \div GridSize = m
    BY <1>1, <2>2, DivideExactly
  <2> QED
    BY <2>1, <2>4, <2>5 DEF GridBefore
<1> QED
  BY <1>4, <1>5

LEMMA SignOfMultiple ==
    ASSUME NEW m \in Int
    PROVE  Sign(m * GridSize) = Sign(m)
<1>1. GridSize \in Int /\ GridSize > 0
  BY GridSizeAssumption
<1>2. CASE m > 0
  BY <1>1, <1>2 DEF Sign
<1>3. CASE m = 0
  BY <1>1, <1>3 DEF Sign
<1>4. CASE m < 0
  BY <1>1, <1>4 DEF Sign
<1> QED
  BY <1>2, <1>3, <1>4

----------------------------------------------------------------------------
(* Directions. *)

Directions == {UPWARDS, UPWARDS_LEFT, LEFT, DOWNWARDS_LEFT, DOWNWARDS,
               DOWNWARDS_RIGHT, RIGHT, UPWARDS_RIGHT}

\* A shell that flies in this direction comes nearer to what is on that side.
Towards(dir, side) ==
    dir[1] * side[1] >= 0 /\ dir[2] * side[2] >= 0
    /\ dir[1] * side[1] + dir[2] * side[2] > 0

\* The direction that checkShellBlockCollision computes has the signs of the
\* shell's movement.
LEMMA DirectionIsHeading ==
    ASSUME NEW angle \in 0..359
    PROVE  Direction(angle) \in Directions /\ Direction(angle) = Heading(angle)
<1>1. CASE angle = 0
  BY <1>1 DEF Direction, Directions, Heading, RIGHT
<1>2. CASE angle > 0 /\ angle < 90
  BY <1>2 DEF Direction, Directions, Heading, UPWARDS_RIGHT
<1>3. CASE angle = 90
  BY <1>3 DEF Direction, Directions, Heading, UPWARDS
<1>4. CASE angle > 90 /\ angle < 180
  BY <1>4 DEF Direction, Directions, Heading, UPWARDS_LEFT
<1>5. CASE angle = 180
  BY <1>5 DEF Direction, Directions, Heading, LEFT
<1>6. CASE angle > 180 /\ angle < 270
  BY <1>6 DEF Direction, Directions, Heading, DOWNWARDS_LEFT
<1>7. CASE angle = 270
  BY <1>7 DEF Direction, Directions, Heading, DOWNWARDS
<1>8. CASE angle > 270
  BY <1>8 DEF Direction, Directions, Heading, DOWNWARDS_RIGHT
<1> QED
  BY <1>1, <1>2, <1>3, <1>4, <1>5, <1>6, <1>7, <1>8

\* A bounce turns a heading to a heading.
LEMMA FlipsAreAngles ==
    ASSUME NEW angle \in 0..359
    PROVE  AngleFlipX(angle) \in 0..359 /\ AngleFlipY(angle) \in 0..359
BY DEF AngleFlipX, AngleFlipY

\* The eight sets of directions of initBlocks, by the side of the wall.
LEMMA DirectionsTowards ==
    ASSUME NEW dir \in Directions
    PROVE  /\ dir \in UpperLeft <=> Towards(dir, <<1, 1>>)
           /\ dir \in LowerLeft <=> Towards(dir, <<1, -1>>)
           /\ dir \in UpperRight <=> Towards(dir, <<-1, 1>>)
           /\ dir \in LowerRight <=> Towards(dir, <<-1, -1>>)
           /\ dir \in Upper <=> Towards(dir, <<0, 1>>)
           /\ dir \in Lower <=> Towards(dir, <<0, -1>>)
           /\ dir \in Lefter <=> Towards(dir, <<1, 0>>)
           /\ dir \in Righter <=> Towards(dir, <<-1, 0>>)
BY DEF Directions, Towards, UPWARDS, UPWARDS_LEFT, LEFT, DOWNWARDS_LEFT, DOWNWARDS,
   DOWNWARDS_RIGHT, RIGHT, UPWARDS_RIGHT, UpperLeft, LowerLeft, UpperRight,
   LowerRight, Upper, Lower, Lefter, Righter

LEMMA ApproachesIsTowards ==
    ASSUME NEW angle \in 0..359, NEW side
    PROVE  Approaches(angle, side) <=> Towards(Direction(angle), side)
<1>1. Direction(angle) = Heading(angle)
  BY DirectionIsHeading
<1> QED
  BY <1>1 DEF Approaches, Towards

----------------------------------------------------------------------------
(* What Around says of one wall. *)

\* For a cell, by the coordinates of the cell above the wall.
LEMMA AroundBelow ==
    ASSUME NEW x \in 0..Width - 1, NEW y \in 0..Height - 2,
           NEW u \in 0..Width - 1, NEW v \in 0..Height - 1, NEW dir \in Directions
    PROVE  /\ \A e \in AroundHorizontal(x - 1, y) : <<e[1], e[2]>> \in Cells
           /\ (\E e \in AroundHorizontal(x - 1, y) : <<e[1], e[2]>> = <<u, v>>)
                <=> u \in x - 1..x + 1 /\ v \in {y, y + 1}
           /\ (\E e \in AroundHorizontal(x - 1, y) :
                    <<e[1], e[2]>> = <<u, v>> /\ dir \in e[3])
                <=> /\ u \in x - 1..x + 1 /\ v \in {y, y + 1}
                    /\ Towards(dir, <<Sign(x - u), IF v <= y THEN 1 ELSE -1>>)
<1> DEFINE A == AroundHorizontal(x - 1, y)
<1>0. /\ Width \in Nat /\ Width > 1 /\ Height \in Nat /\ Height > 0
      /\ x \in Int /\ y \in Int /\ u \in Int /\ v \in Int
  BY GridAssumption
<1>1. \A e : e \in A <=>
          \/ x > 0 /\ e = <<x - 1, y, UpperLeft>>
          \/ x > 0 /\ e = <<x - 1, y + 1, LowerLeft>>
          \/ e = <<x, y, Upper>>
          \/ e = <<x, y + 1, Lower>>
          \/ x + 1 < Width /\ e = <<x + 1, y, UpperRight>>
          \/ x + 1 < Width /\ e = <<x + 1, y + 1, LowerRight>>
  BY <1>0 DEF AroundHorizontal
<1> HIDE DEF A
<1>2. /\ x > 0 => <<x - 1, y, UpperLeft>> \in A /\ <<x - 1, y + 1, LowerLeft>> \in A
      /\ <<x, y, Upper>> \in A /\ <<x, y + 1, Lower>> \in A
      /\ x + 1 < Width =>
            <<x + 1, y, UpperRight>> \in A /\ <<x + 1, y + 1, LowerRight>> \in A
  BY <1>1
<1>3. \A e \in A : <<e[1], e[2]>> \in Cells
  BY <1>0, <1>1 DEF Cells
<1>4. (\E e \in A : <<e[1], e[2]>> = <<u, v>>)
         <=> u \in x - 1..x + 1 /\ v \in {y, y + 1}
  BY <1>0, <1>1, <1>2
<1>5. (\E e \in A : <<e[1], e[2]>> = <<u, v>> /\ dir \in e[3])
         <=> \/ u = x - 1 /\ v = y /\ dir \in UpperLeft
             \/ u = x - 1 /\ v = y + 1 /\ dir \in LowerLeft
             \/ u = x /\ v = y /\ dir \in Upper
             \/ u = x /\ v = y + 1 /\ dir \in Lower
             \/ u = x + 1 /\ v = y /\ dir \in UpperRight
             \/ u = x + 1 /\ v = y + 1 /\ dir \in LowerRight
  BY <1>0, <1>1, <1>2
<1>6. /\ Sign(1) = 1 /\ Sign(0) = 0 /\ Sign(-1) = -1
  BY DEF Sign
<1>7. ASSUME u \in x - 1..x + 1, v \in {y, y + 1}
      PROVE  Towards(dir, <<Sign(x - u), IF v <= y THEN 1 ELSE -1>>)
             <=> \/ u = x - 1 /\ v = y /\ dir \in UpperLeft
                 \/ u = x - 1 /\ v = y + 1 /\ dir \in LowerLeft
                 \/ u = x /\ v = y /\ dir \in Upper
                 \/ u = x /\ v = y + 1 /\ dir \in Lower
                 \/ u = x + 1 /\ v = y /\ dir \in UpperRight
                 \/ u = x + 1 /\ v = y + 1 /\ dir \in LowerRight
  <2> PICK s, t : s = Sign(x - u) /\ t = IF v <= y THEN 1 ELSE -1
    OBVIOUS
  <2>1. CASE u = x - 1
    <3>1. s = 1
      BY <1>0, <1>6, <2>1
    <3> QED
      BY <1>0, <1>7, <2>1, <3>1, DirectionsTowards
  <2>2. CASE u = x
    <3>1. s = 0
      BY <1>0, <1>6, <2>2
    <3> QED
      BY <1>0, <1>7, <2>2, <3>1, DirectionsTowards
  <2>3. CASE u = x + 1
    <3>1. s = -1
      BY <1>0, <1>6, <2>3
    <3> QED
      BY <1>0, <1>7, <2>3, <3>1, DirectionsTowards
  <2> QED
    BY <1>0, <1>7, <2>1, <2>2, <2>3
<1>8. (\E e \in A : <<e[1], e[2]>> = <<u, v>> /\ dir \in e[3])
         <=> /\ u \in x - 1..x + 1 /\ v \in {y, y + 1}
             /\ Towards(dir, <<Sign(x - u), IF v <= y THEN 1 ELSE -1>>)
  BY <1>0, <1>5, <1>7
<1> QED
  BY <1>3, <1>4, <1>8 DEF A

\* The same, by the coordinates of the cell on the left of the wall.
LEMMA AroundRightOf ==
    ASSUME NEW x \in 0..Width - 2, NEW y \in 0..Height - 1,
           NEW u \in 0..Width - 1, NEW v \in 0..Height - 1, NEW dir \in Directions
    PROVE  /\ \A e \in AroundVertical(x, y - 1) : <<e[1], e[2]>> \in Cells
           /\ (\E e \in AroundVertical(x, y - 1) : <<e[1], e[2]>> = <<u, v>>)
                <=> u \in {x, x + 1} /\ v \in y - 1..y + 1
           /\ (\E e \in AroundVertical(x, y - 1) :
                    <<e[1], e[2]>> = <<u, v>> /\ dir \in e[3])
                <=> /\ u \in {x, x + 1} /\ v \in y - 1..y + 1
                    /\ Towards(dir, <<IF u <= x THEN 1 ELSE -1, Sign(y - v)>>)
<1> DEFINE A == AroundVertical(x, y - 1)
<1>0. /\ Width \in Nat /\ Width > 1 /\ Height \in Nat /\ Height > 0
      /\ x \in Int /\ y \in Int /\ u \in Int /\ v \in Int
  BY GridAssumption
<1>1. \A e : e \in A <=>
          \/ y > 0 /\ e = <<x, y - 1, UpperLeft>>
          \/ y > 0 /\ e = <<x + 1, y - 1, UpperRight>>
          \/ e = <<x, y, Lefter>>
          \/ e = <<x + 1, y, Righter>>
          \/ y + 1 < Height /\ e = <<x, y + 1, LowerLeft>>
          \/ y + 1 < Height /\ e = <<x + 1, y + 1, LowerRight>>
  BY <1>0 DEF AroundVertical
<1> HIDE DEF A
<1>2. /\ y > 0 => <<x, y - 1, UpperLeft>> \in A /\ <<x + 1, y - 1, UpperRight>> \in A
      /\ <<x, y, Lefter>> \in A /\ <<x + 1, y, Righter>> \in A
      /\ y + 1 < Height =>
            <<x, y + 1, LowerLeft>> \in A /\ <<x + 1, y + 1, LowerRight>> \in A
  BY <1>1
<1>3. \A e \in A : <<e[1], e[2]>> \in Cells
  BY <1>0, <1>1 DEF Cells
<1>4. (\E e \in A : <<e[1], e[2]>> = <<u, v>>)
         <=> u \in {x, x + 1} /\ v \in y - 1..y + 1
  BY <1>0, <1>1, <1>2
<1>5. (\E e \in A : <<e[1], e[2]>> = <<u, v>> /\ dir \in e[3])
         <=> \/ u = x /\ v = y - 1 /\ dir \in UpperLeft
             \/ u = x + 1 /\ v = y - 1 /\ dir \in UpperRight
             \/ u = x /\ v = y /\ dir \in Lefter
             \/ u = x + 1 /\ v = y /\ dir \in Righter
             \/ u = x /\ v = y + 1 /\ dir \in LowerLeft
             \/ u = x + 1 /\ v = y + 1 /\ dir \in LowerRight
  BY <1>0, <1>1, <1>2
<1>6. /\ Sign(1) = 1 /\ Sign(0) = 0 /\ Sign(-1) = -1
  BY DEF Sign
<1>7. ASSUME u \in {x, x + 1}, v \in y - 1..y + 1
      PROVE  Towards(dir, <<IF u <= x THEN 1 ELSE -1, Sign(y - v)>>)
             <=> \/ u = x /\ v = y - 1 /\ dir \in UpperLeft
                 \/ u = x + 1 /\ v = y - 1 /\ dir \in UpperRight
                 \/ u = x /\ v = y /\ dir \in Lefter
                 \/ u = x + 1 /\ v = y /\ dir \in Righter
                 \/ u = x /\ v = y + 1 /\ dir \in LowerLeft
                 \/ u = x + 1 /\ v = y + 1 /\ dir \in LowerRight
  <2> PICK s, t : s = (IF u <= x THEN 1 ELSE -1) /\ t = Sign(y - v)
    OBVIOUS
  <2>1. CASE v = y - 1
    <3>1. t = 1
      BY <1>0, <1>6, <2>1
    <3> QED
      BY <1>0, <1>7, <2>1, <3>1, DirectionsTowards
  <2>2. CASE v = y
    <3>1. t = 0
      BY <1>0, <1>6, <2>2
    <3> QED
      BY <1>0, <1>7, <2>2, <3>1, DirectionsTowards
  <2>3. CASE v = y + 1
    <3>1. t = -1
      BY <1>0, <1>6, <2>3
    <3> QED
      BY <1>0, <1>7, <2>3, <3>1, DirectionsTowards
  <2> QED
    BY <1>0, <1>7, <2>1, <2>2, <2>3
<1>8. (\E e \in A : <<e[1], e[2]>> = <<u, v>> /\ dir \in e[3])
         <=> /\ u \in {x, x + 1} /\ v \in y - 1..y + 1
             /\ Towards(dir, <<IF u <= x THEN 1 ELSE -1, Sign(y - v)>>)
  BY <1>0, <1>5, <1>7
<1> QED
  BY <1>3, <1>4, <1>8 DEF A

\* A wall is entered for the cells it touches, and there for the directions in
\* which a shell comes nearer to it.
LEMMA WallEntered ==
    ASSUME NEW b, IsWall(b), NEW c \in Cells, NEW angle \in 0..359
    PROVE  /\ \A e \in Around(b) : <<e[1], e[2]>> \in Cells
           /\ (\E e \in Around(b) : <<e[1], e[2]>> = c) <=> Touches(b, c)
           /\ (\E e \in Around(b) : <<e[1], e[2]>> = c /\ Direction(angle) \in e[3])
                <=> Touches(b, c) /\ Approaches(angle, Side(b, c))
<1>1. PICK k \in Cells : WallOf(k, b)
  BY DEF IsWall
<1>2. PICK x \in 0..Width - 1, y \in 0..Height - 1 : k[1] = x /\ k[2] = y
  BY CellType
<1>3. PICK u \in 0..Width - 1, v \in 0..Height - 1 : c = <<u, v>>
  BY CellType
<1>4. PICK dir \in Directions : dir = Direction(angle)
  BY DirectionIsHeading
<1>5. PICK side : side = Side(b, c)
  OBVIOUS
<1>6. Approaches(angle, side) <=> Towards(dir, side)
  BY <1>4, ApproachesIsTowards
<1>7. /\ GridSize \in Int /\ GridSize > 0
      /\ Width \in Nat /\ Height \in Nat
      /\ x \in Int /\ y \in Int /\ u \in Int /\ v \in Int /\ x \in Nat /\ y \in Nat
      /\ x + 1 \in Nat /\ y + 1 \in Nat
  BY GridAssumption, GridSizeAssumption
<1>8. CASE y + 1 < Height /\ b = BlockBelow(k)
  <2>1. /\ b.start = <<x * GridSize, (y + 1) * GridSize>>
        /\ b.end = <<(x + 1) * GridSize, (y + 1) * GridSize>>
    BY <1>2, <1>8 DEF BlockBelow, Point
  <2>2. Around(b) = AroundHorizontal(x - 1, y)
    <3>1. Horizontal(b)
      BY <2>1 DEF Horizontal
    <3>2. GridBefore(b.start[1]) = x - 1 /\ GridBefore(b.start[2]) = y
      <4>1. b.start[1] = x * GridSize /\ b.start[2] = (y + 1) * GridSize
        BY <2>1
      <4>2. GridBefore((y + 1) * GridSize) = (y + 1) - 1
        BY <1>7, GridBeforeWall
      <4> QED
        BY <1>7, <4>1, <4>2, GridBeforeWall
    <3> QED
      BY <3>1, <3>2 DEF Around
  <2>3. Touches(b, c) <=> u \in x - 1..x + 1 /\ v \in {y, y + 1}
    <3>1. Touches(b, c) <=> /\ x <= u + 1 /\ u <= x + 1
                            /\ y + 1 <= v + 1 /\ v <= y + 1
      BY <1>3, <1>7, <2>1, GridMonotone DEF Touches
    <3> QED
      BY <1>7, <3>1
  <2>4. side[1] = Sign(x - u) /\ side[2] = IF v <= y THEN 1 ELSE -1
    <3>1. /\ b.start[1] + b.end[1] - (2 * c[1] + 1) * GridSize = (2 * (x - u)) * GridSize
          /\ b.start[2] + b.end[2] - (2 * c[2] + 1) * GridSize
                = (2 * (y - v) + 1) * GridSize
      BY <1>3, <1>7, <2>1
    <3>2. side[1] = Sign(2 * (x - u)) /\ side[2] = Sign(2 * (y - v) + 1)
      BY <1>5, <1>7, <3>1, SignOfMultiple DEF Side
    <3> QED
      BY <1>7, <3>2 DEF Sign
  <2>5. Towards(dir, side)
            <=> Towards(dir, <<Sign(x - u), IF v <= y THEN 1 ELSE -1>>)
    BY <2>4 DEF Towards
  <2>6. y \in 0..Height - 2
    BY <1>7, <1>8
  <2> QED
    BY <1>3, <1>4, <1>5, <1>6, <2>2, <2>3, <2>5, <2>6, AroundBelow
<1>9. CASE x + 1 < Width /\ b = BlockRightOf(k)
  <2>1. /\ b.start = <<(x + 1) * GridSize, y * GridSize>>
        /\ b.end = <<(x + 1) * GridSize, (y + 1) * GridSize>>
    BY <1>2, <1>9 DEF BlockRightOf, Point
  <2>2. Around(b) = AroundVertical(x, y - 1)
    <3>1. ~Horizontal(b)
      <4>1. ~((y + 1) * GridSize <= y * GridSize)
        BY <1>7, GridMonotone
      <4> QED
        BY <1>7, <2>1, <4>1, GridMonotone DEF Horizontal
    <3>2. GridBefore(b.start[1]) = x /\ GridBefore(b.start[2]) = y - 1
      <4>1. b.start[1] = (x + 1) * GridSize /\ b.start[2] = y * GridSize
        BY <2>1
      <4>2. GridBefore((x + 1) * GridSize) = (x + 1) - 1
        BY <1>7, GridBeforeWall
      <4> QED
        BY <1>7, <4>1, <4>2, GridBeforeWall
    <3> QED
      BY <3>1, <3>2 DEF Around
  <2>3. Touches(b, c) <=> u \in {x, x + 1} /\ v \in y - 1..y + 1
    <3>1. Touches(b, c) <=> /\ x + 1 <= u + 1 /\ u <= x + 1
                            /\ y <= v + 1 /\ v <= y + 1
      BY <1>3, <1>7, <2>1, GridMonotone DEF Touches
    <3> QED
      BY <1>7, <3>1
  <2>4. side[1] = (IF u <= x THEN 1 ELSE -1) /\ side[2] = Sign(y - v)
    <3>1. /\ b.start[1] + b.end[1] - (2 * c[1] + 1) * GridSize
                = (2 * (x - u) + 1) * GridSize
          /\ b.start[2] + b.end[2] - (2 * c[2] + 1) * GridSize = (2 * (y - v)) * GridSize
      BY <1>3, <1>7, <2>1
    <3>2. side[1] = Sign(2 * (x - u) + 1) /\ side[2] = Sign(2 * (y - v))
      BY <1>5, <1>7, <3>1, SignOfMultiple DEF Side
    <3> QED
      BY <1>7, <3>2 DEF Sign
  <2>5. Towards(dir, side)
            <=> Towards(dir, <<IF u <= x THEN 1 ELSE -1, Sign(y - v)>>)
    BY <2>4 DEF Towards
  <2>6. x \in 0..Width - 2
    BY <1>7, <1>9
  <2> QED
    BY <1>3, <1>4, <1>5, <1>6, <2>2, <2>3, <2>5, <2>6, AroundRightOf
<1> QED
  BY <1>1, <1>2, <1>8, <1>9 DEF WallOf

\* What the tables say of a wall that was entered.
LEMMA LookedUp ==
    ASSUME IndexedSoFar, NEW id, NEW c \in Cells
    PROVE  /\ id \in TankLooksUp(c) <=>
                 /\ id \in DOMAIN blocks
                 /\ \E e \in Around(blocks[id]) : <<e[1], e[2]>> = c
           /\ \A angle : id \in ShellLooksUp(c, angle) <=>
                 /\ id \in DOMAIN blocks
                 /\ \E e \in Around(blocks[id]) :
                        <<e[1], e[2]>> = c /\ Direction(angle) \in e[3]
<1>1. PICK u, v : c = <<u, v>>
  BY CellType
<1>2. id \in TankLooksUp(c) <=> <<u, v, id>> \in tankIndex
  <2>1. ASSUME id \in TankLooksUp(c) PROVE <<u, v, id>> \in tankIndex
    <3>1. PICK t \in tankIndex : <<t[1], t[2]>> = c /\ t[3] = id
      BY <2>1 DEF TankLooksUp
    <3>2. PICK i \in DOMAIN blocks : \E e \in Around(blocks[i]) : t = <<e[1], e[2], i>>
      BY <3>1 DEF IndexedSoFar
    <3>3. t = <<u, v, id>>
      BY <1>1, <3>1, <3>2
    <3> QED
      BY <3>1, <3>3
  <2>2. ASSUME <<u, v, id>> \in tankIndex PROVE id \in TankLooksUp(c)
    BY <1>1, <2>2 DEF TankLooksUp
  <2> QED
    BY <2>1, <2>2
<1>3. ASSUME NEW dir
      PROVE  id \in {e[4] : e \in {f \in shellIndex : <<f[1], f[2]>> = c /\ f[3] = dir}}
             <=> <<u, v, dir, id>> \in shellIndex
  <2> DEFINE found == {f \in shellIndex : <<f[1], f[2]>> = c /\ f[3] = dir}
  <2>1. ASSUME id \in {e[4] : e \in found} PROVE <<u, v, dir, id>> \in shellIndex
    <3>1. PICK t \in shellIndex : <<t[1], t[2]>> = c /\ t[3] = dir /\ t[4] = id
      BY <2>1
    <3>2. PICK i \in DOMAIN blocks :
              \E e \in Around(blocks[i]) : \E d \in e[3] : t = <<e[1], e[2], d, i>>
      BY <3>1 DEF IndexedSoFar
    <3>3. t = <<u, v, dir, id>>
      BY <1>1, <3>1, <3>2
    <3> QED
      BY <3>1, <3>3
  <2>2. ASSUME <<u, v, dir, id>> \in shellIndex PROVE id \in {e[4] : e \in found}
    BY <1>1, <2>2
  <2> QED
    BY <2>1, <2>2
<1>4. <<u, v, id>> \in tankIndex <=>
          /\ id \in DOMAIN blocks
          /\ \E e \in Around(blocks[id]) : <<e[1], e[2]>> = c
  BY <1>1 DEF IndexedSoFar
<1>5. ASSUME NEW dir
      PROVE  <<u, v, dir, id>> \in shellIndex <=>
                /\ id \in DOMAIN blocks
                /\ \E e \in Around(blocks[id]) : <<e[1], e[2]>> = c /\ dir \in e[3]
  BY <1>1 DEF IndexedSoFar
<1> QED
  BY <1>2, <1>3, <1>4, <1>5 DEF ShellLooksUp

\* checkShellBlockCollision and checkTankBlockCollision test a shell or a tank
\* against just the walls near it, in a grid of any size, after any bounces.
THEOREM WallsFound == Spec => []WallsAreFound
<1>1. ASSUME IInv PROVE WallsAreFound
  <2>1. IndexedSoFar /\ \A id \in DOMAIN blocks : IsWall(blocks[id])
    BY <1>1 DEF IInv, BlocksInv, BlocksAreWalls
  <2>2. ASSUME NEW t \in tankIndex PROVE <<t[1], t[2]>> \in Cells
    <3>1. PICK id \in DOMAIN blocks :
              \E e \in Around(blocks[id]) : t = <<e[1], e[2], id>>
      BY <2>1 DEF IndexedSoFar
    <3>2. Corner \in Cells /\ 0 \in 0..359
      BY CornerIsCell
    <3>3. \A e \in Around(blocks[id]) : <<e[1], e[2]>> \in Cells
      BY <2>1, <3>2, WallEntered
    <3> QED
      BY <3>1, <3>3
  <2>3. ASSUME NEW c \in Cells
        PROVE  TankLooksUp(c) = {id \in DOMAIN blocks : Touches(blocks[id], c)}
    <3>1. 0 \in 0..359
      OBVIOUS
    <3>2. ASSUME NEW id
          PROVE  id \in TankLooksUp(c)
                 <=> id \in DOMAIN blocks /\ Touches(blocks[id], c)
      <4>1. id \in TankLooksUp(c) <=>
                /\ id \in DOMAIN blocks
                /\ \E e \in Around(blocks[id]) : <<e[1], e[2]>> = c
        BY <2>1, LookedUp
      <4>2. id \in DOMAIN blocks =>
                ((\E e \in Around(blocks[id]) : <<e[1], e[2]>> = c)
                    <=> Touches(blocks[id], c))
        BY <2>1, <3>1, WallEntered
      <4> QED
        BY <4>1, <4>2
    <3> QED
      BY <3>2
  <2>4. ASSUME NEW c \in Cells, NEW angle \in 0..359
        PROVE  ShellLooksUp(c, angle)
               = {id \in {i \in DOMAIN blocks : Touches(blocks[i], c)} :
                     Approaches(angle, Side(blocks[id], c))}
    <3>1. ASSUME NEW id
          PROVE  id \in ShellLooksUp(c, angle)
                 <=> /\ id \in DOMAIN blocks /\ Touches(blocks[id], c)
                     /\ Approaches(angle, Side(blocks[id], c))
      <4>1. id \in ShellLooksUp(c, angle) <=>
                /\ id \in DOMAIN blocks
                /\ \E e \in Around(blocks[id]) :
                       <<e[1], e[2]>> = c /\ Direction(angle) \in e[3]
        BY <2>1, LookedUp
      <4>2. id \in DOMAIN blocks =>
                ((\E e \in Around(blocks[id]) :
                      <<e[1], e[2]>> = c /\ Direction(angle) \in e[3])
                    <=> /\ Touches(blocks[id], c)
                        /\ Approaches(angle, Side(blocks[id], c)))
        BY <2>1, WallEntered
      <4> QED
        BY <4>1, <4>2
    <3> QED
      BY <3>1
  <2>5. ASSUME NEW a \in Headings, NEW angle \in {a, AngleFlipX(a), AngleFlipY(a)}
        PROVE  angle \in 0..359
    <3>1. a \in 0..359
      BY DEF Headings
    <3> QED
      BY <3>1, FlipsAreAngles
  <2> QED
    BY <2>2, <2>3, <2>4, <2>5 DEF WallsAreFound
<1> QED
  BY <1>1, Invariance, PTL

----------------------------------------------------------------------------
(* Which walls stand. *)

\* The blocks found so far, entered or not.
Standing == {toAdd[i] : i \in DOMAIN toAdd} \cup {blocks[id] : id \in DOMAIN blocks}

ClosedWall(c, b) ==
    \/ c[1] + 1 < Width /\ Closed(c, Right(c)) /\ b = BlockRightOf(c)
    \/ c[2] + 1 < Height /\ Closed(c, Below(c)) /\ b = BlockBelow(c)

\* The iterations that were done have found the closed walls they looked at,
\* and nothing else was found.
FoundSoFar ==
    /\ \A b \in Standing : \E c \in Cells : ClosedWall(c, b)
    /\ \A i \in 0..FirstLoop - 1 :
          (i < scanned /\ Closed(RowByRow(i), Right(RowByRow(i))))
              => BlockRightOf(RowByRow(i)) \in Standing
    /\ \A i \in 0..(Height - 1) * Width - 1 :
          (FirstLoop + i < scanned /\ Closed(ColumnByColumn(i), Below(ColumnByColumn(i))))
              => BlockBelow(ColumnByColumn(i)) \in Standing

StandInv ==
    /\ phase = "maze" => scanned = 0
    /\ phase \in {"blocks", "positions", "ready"} => scanned = MaxBlocksNum
    /\ phase \in {"positions", "ready"} => toAdd = <<>>
    /\ FoundSoFar

LEMMA NothingStands ==
    ASSUME IInv, phase = "maze"
    PROVE  Standing = {}
<1>1. toAdd = <<>> /\ nextBlockId = FirstBlockId
  BY DEF IInv, BlocksInv, BlocksCounted
<1>2. DOMAIN toAdd = {} /\ DOMAIN blocks = {}
  BY <1>1, Counts DEF IInv, TypeOK
<1> QED
  BY <1>2 DEF Standing

LEMMA StandBegins ==
    ASSUME phase = "maze", scanned = 0, Standing = {}
    PROVE  StandInv
BY Counts DEF StandInv, FoundSoFar

LEMMA StandKept ==
    ASSUME StandInv, map' = map, scanned' = scanned, Standing' = Standing,
           phase' = "maze" => scanned = 0,
           phase' \in {"blocks", "positions", "ready"} => scanned = MaxBlocksNum,
           phase' \in {"positions", "ready"} => toAdd' = <<>>
    PROVE  StandInv'
<1>1. FoundSoFar'
  BY DEF StandInv, FoundSoFar, ClosedWall, Closed
<1> QED
  BY <1>1 DEF StandInv

\* An iteration finds the wall it looks at just if that is closed.
LEMMA StandScanned ==
    ASSUME TypeOK, NEW c, NEW d, NEW b, Scan(c, d, b)
    PROVE  Standing' = IF Closed(c, d) THEN Standing \cup {b} ELSE Standing
<1>1. toAdd \in Seq(Block) /\ blocks' = blocks
  BY DEF TypeOK, Scan
<1>2. CASE Closed(c, d)
  <2>1. toAdd' = Append(toAdd, b)
    BY <1>2 DEF Scan
  <2>2. {toAdd'[i] : i \in DOMAIN toAdd'} = {toAdd[i] : i \in DOMAIN toAdd} \cup {b}
    <3>1. /\ DOMAIN toAdd = 1..Len(toAdd) /\ Len(toAdd) \in Nat
          /\ DOMAIN toAdd' = 1..Len(toAdd) + 1
          /\ toAdd'[Len(toAdd) + 1] = b
          /\ \A i \in DOMAIN toAdd : toAdd'[i] = toAdd[i]
      BY <1>1, <2>1
    <3>2. DOMAIN toAdd' = DOMAIN toAdd \cup {Len(toAdd) + 1}
      BY <3>1
    <3> QED
      BY <3>1, <3>2
  <2> QED
    BY <1>1, <1>2, <2>2 DEF Standing
<1>3. CASE ~Closed(c, d)
  BY <1>1, <1>3 DEF Scan, Standing
<1> QED
  BY <1>2, <1>3

\* Entering a block does not change which are known.
LEMMA StandEntered ==
    ASSUME IInv, AddBlock
    PROVE  Standing' = Standing
<1> PICK b, id : b = Head(toAdd) /\ id = nextBlockId
  OBVIOUS
<1>1. toAdd \in Seq(Block) /\ toAdd # <<>> /\ toAdd' = Tail(toAdd)
  BY DEF IInv, TypeOK, AddBlock
<1>2. blocks' = [i \in DOMAIN blocks \cup {id} |-> IF i = id THEN b ELSE blocks[i]]
  BY DEF AddBlock
<1>3. id \notin DOMAIN blocks
  BY Counts DEF IInv, TypeOK
<1>4. {blocks'[i] : i \in DOMAIN blocks'} = {blocks[i] : i \in DOMAIN blocks} \cup {b}
  BY <1>2, <1>3
<1>5. {toAdd[i] : i \in DOMAIN toAdd} = {toAdd'[i] : i \in DOMAIN toAdd'} \cup {b}
  <2>1. /\ DOMAIN toAdd = 1..Len(toAdd) /\ Len(toAdd) \in Nat /\ Len(toAdd) > 0
        /\ DOMAIN toAdd' = 1..Len(toAdd) - 1
        /\ toAdd[1] = b
        /\ \A i \in DOMAIN toAdd' : toAdd'[i] = toAdd[i + 1]
    BY <1>1
  <2>2. \A i \in DOMAIN toAdd' : i + 1 \in DOMAIN toAdd
    BY <2>1
  <2>3. \A i \in DOMAIN toAdd : i = 1 \/ (i - 1 \in DOMAIN toAdd' /\ (i - 1) + 1 = i)
    BY <2>1
  <2>4. 1 \in DOMAIN toAdd
    BY <2>1
  <2>5. ASSUME NEW i \in DOMAIN toAdd
        PROVE  toAdd[i] = b \/ \E j \in DOMAIN toAdd' : toAdd'[j] = toAdd[i]
    BY <2>1, <2>3
  <2> QED
    BY <2>1, <2>2, <2>4, <2>5
<1> QED
  BY <1>4, <1>5 DEF Standing

LEMMA StandStep ==
    ASSUME IInv, StandInv, [Next]_vars
    PROVE  StandInv'
<1>0. TypeOK /\ phase \in {"maze", "scan", "blocks", "positions", "ready"}
  BY DEF IInv, TypeOK
<1>1. ASSUME NEW wall \in BagToSet(walls), Generate(wall)
      PROVE  StandInv'
  <2>1. Standing = {} /\ scanned = 0
    BY <1>1, NothingStands DEF Generate, StandInv
  <2>2. Standing' = {} /\ scanned' = 0 /\ phase' = "maze"
    BY <1>1, <2>1 DEF Generate, Standing
  <2> QED
    BY <2>2, Counts DEF StandInv, FoundSoFar
<1>2. CASE MazeDone
  BY <1>2, StandKept DEF MazeDone, Standing, StandInv
<1>3. CASE ScanRight
  <2> PICK c : c = RowByRow(scanned)
    OBVIOUS
  <2>1. /\ scanned \in Nat /\ scanned < FirstLoop /\ phase = "scan"
        /\ Scan(c, Right(c), BlockRightOf(c))
    BY <1>0, <1>3, Counts DEF ScanRight, TypeOK
  <2>2. c \in Cells /\ WallOf(c, BlockRightOf(c)) /\ c[1] + 1 < Width
    <3>1. RowByRow(scanned)[1] + 1 < Width
      BY <2>1, DivideIterations, GridAssumption DEF RowByRow, FirstLoop
    <3> QED
      BY <2>1, <3>1, ScanInside
  <2>3. Standing' = IF Closed(c, Right(c)) THEN Standing \cup {BlockRightOf(c)}
                                           ELSE Standing
    BY <1>0, <2>1, StandScanned
  <2>4. scanned' = scanned + 1 /\ map' = map /\ phase' = phase
    BY <2>1 DEF Scan
  <2>5. \A e, d : Closed(e, d)' <=> Closed(e, d)
    BY <2>4 DEF Closed
  <2>6. ASSUME NEW b \in Standing' PROVE \E e \in Cells : ClosedWall(e, b)'
    BY <2>2, <2>3, <2>5 DEF StandInv, FoundSoFar, ClosedWall
  <2>7. ASSUME NEW i \in 0..FirstLoop - 1, i < scanned',
               Closed(RowByRow(i), Right(RowByRow(i)))
        PROVE  BlockRightOf(RowByRow(i)) \in Standing'
    <3>1. CASE i = scanned
      BY <2>3, <2>7, <3>1
    <3>2. CASE i # scanned
      <4>1. i < scanned
        BY <2>1, <2>4, <2>7, <3>2, Counts
      <4> QED
        BY <2>3, <2>7, <4>1 DEF StandInv, FoundSoFar
    <3> QED
      BY <3>1, <3>2
  <2>8. ASSUME NEW i \in 0..(Height - 1) * Width - 1
        PROVE  ~(FirstLoop + i < scanned')
    BY <2>1, <2>4, Counts
  <2>9. FoundSoFar'
    BY <2>5, <2>6, <2>7, <2>8 DEF FoundSoFar
  <2> QED
    BY <2>1, <2>4, <2>9 DEF StandInv
<1>4. CASE ScanBelow
  <2> PICK n : n = scanned - FirstLoop
    OBVIOUS
  <2> PICK c : c = ColumnByColumn(n)
    OBVIOUS
  <2>1. /\ n \in Nat /\ n < (Height - 1) * Width /\ scanned = FirstLoop + n
        /\ phase = "scan"
        /\ Scan(c, Below(c), BlockBelow(c))
    BY <1>0, <1>4, Counts DEF ScanBelow, TypeOK
  <2>2. c \in Cells /\ WallOf(c, BlockBelow(c)) /\ c[2] + 1 < Height
    <3>1. ColumnByColumn(n)[2] + 1 < Height
      BY <2>1, DivideIterations, GridAssumption DEF ColumnByColumn
    <3> QED
      BY <2>1, <3>1, ScanInside
  <2>3. Standing' = IF Closed(c, Below(c)) THEN Standing \cup {BlockBelow(c)}
                                           ELSE Standing
    BY <1>0, <2>1, StandScanned
  <2>4. scanned' = scanned + 1 /\ map' = map /\ phase' = phase
    BY <2>1 DEF Scan
  <2>5. \A e, d : Closed(e, d)' <=> Closed(e, d)
    BY <2>4 DEF Closed
  <2>6. ASSUME NEW b \in Standing' PROVE \E e \in Cells : ClosedWall(e, b)'
    BY <2>2, <2>3, <2>5 DEF StandInv, FoundSoFar, ClosedWall
  <2>7. ASSUME NEW i \in 0..FirstLoop - 1, Closed(RowByRow(i), Right(RowByRow(i)))
        PROVE  BlockRightOf(RowByRow(i)) \in Standing'
    <3>1. i < scanned
      BY <2>1, Counts
    <3> QED
      BY <2>3, <2>7, <3>1 DEF StandInv, FoundSoFar
  <2>8. ASSUME NEW i \in 0..(Height - 1) * Width - 1, FirstLoop + i < scanned',
               Closed(ColumnByColumn(i), Below(ColumnByColumn(i)))
        PROVE  BlockBelow(ColumnByColumn(i)) \in Standing'
    <3>1. CASE i = n
      BY <2>3, <2>8, <3>1
    <3>2. CASE i # n
      <4>1. FirstLoop + i < scanned
        BY <2>1, <2>4, <2>8, <3>2, Counts
      <4> QED
        BY <2>3, <2>8, <4>1 DEF StandInv, FoundSoFar
    <3> QED
      BY <3>1, <3>2
  <2>9. FoundSoFar'
    BY <2>5, <2>6, <2>7, <2>8 DEF FoundSoFar
  <2> QED
    BY <2>1, <2>4, <2>9 DEF StandInv
<1>5. CASE GetBlockPositions
  BY <1>5, StandKept DEF GetBlockPositions, Standing
<1>6. CASE AddBlock
  BY <1>6, StandEntered, StandKept DEF AddBlock, StandInv
<1>7. CASE BlocksAdded
  BY <1>7, StandKept DEF BlocksAdded, Standing, StandInv
<1>8. ASSUME NEW c \in Cells, Draw(c)
      PROVE  StandInv'
  BY <1>8, StandKept DEF Draw, Standing, StandInv
<1>9. CASE PutTanks
  BY <1>9, StandKept DEF PutTanks, Standing, StandInv
<1>10. CASE InitAgain
  <2>1. phase' = "maze" /\ scanned' = 0 /\ toAdd' = <<>> /\ DOMAIN blocks' = {}
    BY <1>10 DEF InitAgain
  <2>2. Standing' = {}
    BY <2>1 DEF Standing
  <2> QED
    BY <2>1, <2>2, Counts DEF StandInv, FoundSoFar
<1>11. CASE UNCHANGED vars
  BY <1>11, StandKept DEF vars, Standing, StandInv
<1> QED
  BY <1>1, <1>2, <1>3, <1>4, <1>5, <1>6, <1>7, <1>8, <1>9, <1>10, <1>11
     DEF Next, Work

\* Every pair of numbers within the bounds of two loops is an iteration.
LEMMA IterationOf ==
    ASSUME NEW m \in Nat, NEW n \in Nat, NEW r \in 0..m - 1, NEW q \in 0..n - 1
    PROVE  \E i \in 0..m * n - 1 : i % m = r /\ i \div m = q
<1>1. PICK i \in Int : i = q * m + r
  BY SMT
<1>2. i \div m = q
  BY <1>1, DivideExactly
<1>3. i % m = r
  <2>1. i % m \in 0..m - 1 /\ i = m * (i \div m) + (i % m)
    BY <1>1
  <2>2. m * (i \div m) = q * m
    BY <1>2
  <2> QED
    BY <1>1, <2>1, <2>2
<1>4. i \in 0..m * n - 1
  <2>1. PICK k \in Nat : n = q + 1 + k
    BY SMT
  <2>2. m * n = q * m + m + m * k
    BY <2>1
  <2>3. q * m \in Nat /\ m * k \in Nat
    BY ProductOfNats
  <2> QED
    BY <1>1, <2>2, <2>3
<1> QED
  BY <1>2, <1>3, <1>4

LEMMA EveryPairScanned ==
    ASSUME NEW c \in Cells
    PROVE  /\ c[1] + 1 < Width => \E i \in 0..FirstLoop - 1 : RowByRow(i) = c
           /\ c[2] + 1 < Height =>
                 \E i \in 0..(Height - 1) * Width - 1 : ColumnByColumn(i) = c
<1>1. /\ c = <<c[1], c[2]>> /\ c[1] \in 0..Width - 1 /\ c[2] \in 0..Height - 1
  BY CellType
<1>2. PICK x \in 0..Width - 1, y \in 0..Height - 1 : c = <<x, y>>
  BY <1>1
<1>3. /\ Width \in Nat /\ Height \in Nat /\ Width - 1 \in Nat /\ Height - 1 \in Nat
  BY GridAssumption
<1>4. ASSUME x + 1 < Width PROVE \E i \in 0..FirstLoop - 1 : RowByRow(i) = c
  <2>1. x \in 0..(Width - 1) - 1
    BY <1>3, <1>4
  <2>2. \E i \in 0..(Width - 1) * Height - 1 : i % (Width - 1) = x /\ i \div (Width - 1) = y
    BY <1>3, <2>1, IterationOf
  <2> QED
    BY <1>2, <2>2 DEF FirstLoop, RowByRow
<1>5. ASSUME y + 1 < Height
      PROVE  \E i \in 0..(Height - 1) * Width - 1 : ColumnByColumn(i) = c
  <2>1. y \in 0..(Height - 1) - 1
    BY <1>3, <1>5
  <2>2. \E i \in 0..(Height - 1) * Width - 1 :
            i % (Height - 1) = y /\ i \div (Height - 1) = x
    BY <1>3, <2>1, IterationOf
  <2> QED
    BY <1>2, <2>2 DEF ColumnByColumn
<1> QED
  BY <1>2, <1>4, <1>5

LEMMA NeighbourInside ==
    ASSUME NEW c \in Cells
    PROVE  /\ Right(c) \in Cells <=> c[1] + 1 < Width
           /\ Below(c) \in Cells <=> c[2] + 1 < Height
BY CellType, GridAssumption DEF Right, Below, Cells

\* In a grid of any size a wall is entered for each pair of neighbours without a
\* passage between them, and no other: what the loops of getBlockPositions and
\* initBlocks do to the vector of blocks loses none and makes none.
THEOREM WallsStanding == Spec => []WallsStand
<1>1. Init => StandInv
  <2>1. ASSUME Init PROVE StandInv
    <3>1. phase = "maze" /\ scanned = 0 /\ Standing = {}
      BY <2>1 DEF Init, Standing
    <3> QED
      BY <3>1, StandBegins
  <2> QED
    BY <2>1
<1>2. IInv /\ StandInv /\ [Next]_vars => StandInv'
  BY StandStep
<1>3. ASSUME StandInv PROVE WallsStand
  <2> SUFFICES ASSUME phase = "ready"
               PROVE  {blocks[id] : id \in DOMAIN blocks} =
                        {BlockRightOf(c) : c \in {d \in Cells : Right(d) \in Cells
                                                       /\ Closed(d, Right(d))}}
                        \cup
                        {BlockBelow(c) : c \in {d \in Cells : Below(d) \in Cells
                                                     /\ Closed(d, Below(d))}}
    BY DEF WallsStand
  <2>1. scanned = MaxBlocksNum /\ toAdd = <<>> /\ FoundSoFar
    BY <1>3 DEF StandInv
  <2>2. Standing = {blocks[id] : id \in DOMAIN blocks}
    BY <2>1 DEF Standing
  <2>3. ASSUME NEW b \in Standing
        PROVE  \/ \E c \in Cells : /\ Right(c) \in Cells /\ Closed(c, Right(c))
                                   /\ b = BlockRightOf(c)
               \/ \E c \in Cells : /\ Below(c) \in Cells /\ Closed(c, Below(c))
                                   /\ b = BlockBelow(c)
    <3>1. PICK c \in Cells : ClosedWall(c, b)
      BY <2>1 DEF FoundSoFar
    <3> QED
      BY <3>1, NeighbourInside DEF ClosedWall
  <2>4. ASSUME NEW c \in Cells, Right(c) \in Cells, Closed(c, Right(c))
        PROVE  BlockRightOf(c) \in Standing
    <3>1. PICK i \in 0..FirstLoop - 1 : RowByRow(i) = c
      BY <2>4, NeighbourInside, EveryPairScanned
    <3>2. i < scanned
      BY <2>1, Counts
    <3> QED
      BY <2>1, <2>4, <3>1, <3>2 DEF FoundSoFar
  <2>5. ASSUME NEW c \in Cells, Below(c) \in Cells, Closed(c, Below(c))
        PROVE  BlockBelow(c) \in Standing
    <3>1. PICK i \in 0..(Height - 1) * Width - 1 : ColumnByColumn(i) = c
      BY <2>5, NeighbourInside, EveryPairScanned
    <3>2. FirstLoop + i < scanned
      BY <2>1, Counts
    <3> QED
      BY <2>1, <2>5, <3>1, <3>2 DEF FoundSoFar
  <2> QED
    BY <2>2, <2>3, <2>4, <2>5
<1> QED
  BY <1>1, <1>2, <1>3, Invariance, PTL DEF Spec
=============================================================================
