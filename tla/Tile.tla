-------------------------------- MODULE Tile --------------------------------
(***************************************************************************)
(* azer/util/tile: the square grid of a terrain, and the quad tree that    *)
(* picks the pitches (squares of it) to be drawn.  QuadTree::Split walks   *)
(* an array of nodes from the front while it appends to the same array: a  *)
(* Splitable says of every node whether it is split in four, kept or       *)
(* dropped.  The array is as long as a tree that is split down to level 1, *)
(* and nobody looks whether it is full.                                    *)
(*                                                                         *)
(* Heights, normals and texture coordinates are left out, and so are       *)
(* children and splitted of a node, which are written and never read.      *)
(***************************************************************************)
EXTENDS Integers, Sequences, FiniteSets

CONSTANTS
  Level,   \* kLevel
  Width    \* Width[l]: 1 << l

ASSUME LevelAssumption == Level \in Nat \ {0}
ASSUME WidthAssumption ==
  /\ Width \in [0 .. Level -> Nat]
  /\ Width[0] = 1
  /\ \A l \in 1 .. Level : Width[l] = 2 * Width[l - 1]

VARIABLES
  nodes,    \* the part of nodes_ that is in use, numbered from 0
  tail,     \* tail_
  cur,      \* the node Split looks at
  final,    \* the nodes whose pitches are in *final
  dropped   \* the nodes the Splitable has dropped

vars == <<nodes, tail, cur, final, dropped>>

Side == Width[Level]
GridLine == Side + 1

\* nodes_.reset(new Node[pow(4, level) / 3])
MaxCell == (Side * Side) \div 3

----------------------------------------------------------------------------
\* QuadTree::Split.

InitNode ==
  [i \in {0} |->
     [left |-> 0, right |-> Side, top |-> 0, bottom |-> Side, level |-> Level]]

Init ==
  /\ nodes = InitNode
  /\ tail = 1
  /\ cur = 0
  /\ final = {}
  /\ dropped = {}

midx(n) == Width[n.level - 1] + n.left
midy(n) == Width[n.level - 1] + n.top

\* Mutant of Quarter: the third child is given the top of its parent.
QuarterTooHigh(n, k) ==
  [left |-> IF k \in {0, 2} THEN n.left ELSE midx(n),
   right |-> IF k \in {0, 2} THEN midx(n) ELSE n.right,
   top |-> IF k \in {0, 1, 2} THEN n.top ELSE midy(n),
   bottom |-> IF k \in {0, 1} THEN midy(n) ELSE n.bottom,
   level |-> n.level - 1]

\* The k-th of the four children SplitPitch makes of n.
Quarter(n, k) ==
  [left |-> IF k \in {0, 2} THEN n.left ELSE midx(n),
   right |-> IF k \in {0, 2} THEN midx(n) ELSE n.right,
   top |-> IF k \in {0, 1} THEN n.top ELSE midy(n),
   bottom |-> IF k \in {0, 1} THEN midy(n) ELSE n.bottom,
   level |-> n.level - 1]

\* Mutant of SplitPitch: a node of level 1 is split too.
SplitPitchToZero ==
  /\ cur < tail
  /\ nodes[cur].level >= 1
  /\ nodes' = [i \in 0 .. tail + 3 |->
                 IF i < tail THEN nodes[i] ELSE Quarter(nodes[cur], i - tail)]
  /\ tail' = tail + 4
  /\ cur' = cur + 1
  /\ UNCHANGED <<final, dropped>>

\* kSplit.  DCHECK_GT(node->level, 1) is a guard.
SplitPitch ==
  /\ cur < tail
  /\ nodes[cur].level > 1
  /\ nodes' = [i \in 0 .. tail + 3 |->
                 IF i < tail THEN nodes[i] ELSE Quarter(nodes[cur], i - tail)]
  /\ tail' = tail + 4
  /\ cur' = cur + 1
  /\ UNCHANGED <<final, dropped>>

\* Mutant of Keep: the loop starts again from the front.
KeepRestarts ==
  /\ cur < tail
  /\ final' = final \cup {cur}
  /\ cur' = 0
  /\ UNCHANGED <<nodes, tail, dropped>>

\* kKeep
Keep ==
  /\ cur < tail
  /\ final' = final \cup {cur}
  /\ cur' = cur + 1
  /\ UNCHANGED <<nodes, tail, dropped>>

\* kDrop
Drop ==
  /\ cur < tail
  /\ dropped' = dropped \cup {cur}
  /\ cur' = cur + 1
  /\ UNCHANGED <<nodes, tail, final>>

\* The next call of Split on the same tree.
Again ==
  /\ cur = tail
  /\ nodes' = InitNode
  /\ tail' = 1
  /\ cur' = 0
  /\ final' = {}
  /\ dropped' = {}

Step == SplitPitch \/ Keep \/ Drop

Next == Step \/ Again

\* Split is a loop of one thread: it goes on until it is done.
Spec == Init /\ [][Next]_vars /\ WF_vars(Step)

----------------------------------------------------------------------------
\* InitPitchIndices(d, n, GridLine, indices): two triangles for every square of
\* the side 1 << d, row by row.

\* Mutant of Triangles: the line below is the next one, whatever the step.
TrianglesNextLine(d, n) ==
  LET step == Width[d]
      columns == (n.right - n.left) \div step
      rows == (n.bottom - n.top) \div step
  IN  [q \in 1 .. 2 * rows * columns |->
         LET square == (q - 1) \div 2
             i == n.top + step * (square \div columns)
             j == n.left + step * (square % columns)
             cur_line == i * GridLine
             next_line == (i + 1) * GridLine
         IN  IF q % 2 = 1
             THEN <<cur_line + j, next_line + j, next_line + j + step>>
             ELSE <<cur_line + j, next_line + j + step, cur_line + j + step>>]

Triangles(d, n) ==
  LET step == Width[d]
      columns == (n.right - n.left) \div step
      rows == (n.bottom - n.top) \div step
  IN  [q \in 1 .. 2 * rows * columns |->
         LET square == (q - 1) \div 2
             i == n.top + step * (square \div columns)
             j == n.left + step * (square % columns)
             cur_line == i * GridLine
             next_line == (i + step) * GridLine
         IN  IF q % 2 = 1
             THEN <<cur_line + j, next_line + j, next_line + j + step>>
             ELSE <<cur_line + j, next_line + j + step, cur_line + j + step>>]

----------------------------------------------------------------------------
\* Properties.

\* A cell is named by the grid lines at its left and at its top.
CellsOf(n) == (n.left .. n.right - 1) \X (n.top .. n.bottom - 1)
Plane == (0 .. Side - 1) \X (0 .. Side - 1)

TypeOK ==
  /\ tail \in Nat
  /\ cur \in 0 .. tail
  /\ nodes \in [0 .. tail - 1 ->
       [left : Int, right : Int, top : Int, bottom : Int, level : 1 .. Level]]
  /\ final \subseteq 0 .. cur - 1
  /\ dropped \subseteq 0 .. cur - 1
  /\ \A i \in 0 .. tail - 1 :
       /\ nodes[i].right = nodes[i].left + Width[nodes[i].level]
       /\ nodes[i].bottom = nodes[i].top + Width[nodes[i].level]

\* The nodes that have not been split, or not yet.
Leaves == (cur .. tail - 1) \cup final \cup dropped

Apart(m, n) ==
  \/ m.right <= n.left \/ n.right <= m.left
  \/ m.bottom <= n.top \/ n.bottom <= m.top

\* Whatever the answers, at every moment of the walk: the pitches of the nodes that
\* have not been split fill the plane, do not stick out and do not overlap.  So
\* nothing of the terrain is drawn twice, and only what was dropped is not drawn.
Tiling ==
  /\ UNION {CellsOf(nodes[i]) : i \in Leaves} = Plane
  /\ \A i, j \in Leaves : i < j => Apart(nodes[i], nodes[j])

\* The tree never outgrows the array the constructor has made for it.
TailFits == tail <= MaxCell

\* The grid lines through a vertex.
XOf(v) == v % GridLine
ZOf(v) == v \div GridLine

\* The corners of the square with the side w at (x, z), and those of triangles.
Corners(x, z, w) == {x, x + w} \X {z, z + w}
CornersOf(tris) == {<<XOf(v), ZOf(v)>> : v \in UNION {{t[1], t[2], t[3]} : t \in tris}}

\* A kept pitch can be drawn at any coarseness up to its own level: its squares lie
\* within it, every cell of it is in one of them, and each is made of exactly two
\* triangles, the two halves of the square.
IndicesCoverKept ==
  \A i \in final \cap {cur - 1} : \A d \in 0 .. nodes[i].level :
    LET n == nodes[i]
        T == Triangles(d, n)
        At(x, z) == {q \in DOMAIN T : XOf(T[q][1]) = x /\ ZOf(T[q][1]) = z}
        starts == {<<XOf(T[q][1]), ZOf(T[q][1])>> : q \in DOMAIN T}
    IN  /\ \A c \in starts :
             LET halves == {T[q] : q \in At(c[1], c[2])}
             IN  /\ Cardinality(At(c[1], c[2])) = 2 /\ Cardinality(halves) = 2
                 /\ \A h \in halves : Cardinality({h[1], h[2], h[3]}) = 3
                 /\ CornersOf(halves) = Corners(c[1], c[2], Width[d])
                 /\ Corners(c[1], c[2], Width[d])
                      \subseteq (n.left .. n.right) \X (n.top .. n.bottom)
        /\ \A cell \in CellsOf(n) :
             Cardinality({c \in starts : /\ cell[1] \in c[1] .. c[1] + Width[d] - 1
                                         /\ cell[2] \in c[2] .. c[2] + Width[d] - 1}) = 1

\* Split comes to an end although it appends to what it walks.
SplitReturns == cur < tail ~> cur = tail
=============================================================================
