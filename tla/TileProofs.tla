----------------------------- MODULE TileProofs -----------------------------
(***************************************************************************)
(* The pitches of the quad tree fill the plane without overlap, for every  *)
(* size of the plane and every Splitable.  The invariant adds to Tiling    *)
(* that every node is a square of the side its level says: that is what    *)
(* makes the four children of a node its quarters.  And the array of nodes *)
(* is never full (NeverFull): every node that is yet to be looked at is    *)
(* paid for with four cells of the plane.  Last, the triangles of a kept   *)
(* pitch cover it (KeptAreCovered), which is arithmetic of rows and        *)
(* columns: that the number of a vertex, or of a triangle, says its place. *)
(***************************************************************************)
EXTENDS Tile, FiniteSetTheorems, TLAPS

Node == [left : Int, right : Int, top : Int, bottom : Int, level : 1 .. Level]

IsSquare(n) == n.right = n.left + Width[n.level] /\ n.bottom = n.top + Width[n.level]

----------------------------------------------------------------------------
\* The four nodes SplitPitch makes of n are squares of the level below.
LEMMA QuarterType ==
  ASSUME NEW n \in Node, IsSquare(n), n.level > 1, NEW k \in 0 .. 3
  PROVE  Quarter(n, k) \in Node /\ IsSquare(Quarter(n, k))
<1>1. /\ n.level \in 1 .. Level /\ n.level - 1 \in 1 .. Level
      /\ n.level \in 0 .. Level /\ n.level - 1 \in 0 .. Level
  BY LevelAssumption DEF Node
<1>2. Width[n.level] \in Nat /\ Width[n.level - 1] \in Nat
  BY <1>1, WidthAssumption
<1>3. Width[n.level] = 2 * Width[n.level - 1]
  BY <1>1, WidthAssumption
<1>4. n.left \in Int /\ n.right \in Int /\ n.top \in Int /\ n.bottom \in Int
  BY DEF Node
<1>5. midx(n) \in Int /\ midy(n) \in Int
  BY <1>2, <1>4 DEF midx, midy
<1>6. Quarter(n, k) \in Node
  BY <1>1, <1>4, <1>5 DEF Quarter, Node
<1>7. IsSquare(Quarter(n, k))
  BY <1>2, <1>3, <1>4 DEF IsSquare, Quarter, midx, midy
<1> QED BY <1>6, <1>7

\* They lie within n, ...
LEMMA QuarterWithin ==
  ASSUME NEW n \in Node, IsSquare(n), n.level > 1, NEW k \in 0 .. 3
  PROVE  /\ n.left <= Quarter(n, k).left /\ Quarter(n, k).right <= n.right
         /\ n.top <= Quarter(n, k).top /\ Quarter(n, k).bottom <= n.bottom
<1>1. /\ n.level \in 1 .. Level /\ n.level - 1 \in 1 .. Level
      /\ n.level \in 0 .. Level /\ n.level - 1 \in 0 .. Level
  BY LevelAssumption DEF Node
<1>2. Width[n.level] \in Nat /\ Width[n.level - 1] \in Nat
  BY <1>1, WidthAssumption
<1>3. Width[n.level] = 2 * Width[n.level - 1]
  BY <1>1, WidthAssumption
<1> QED
  BY <1>2, <1>3 DEF IsSquare, Node, Quarter, midx, midy

\* ... apart from each other, ...
LEMMA QuartersApart ==
  ASSUME NEW n \in Node, IsSquare(n), n.level > 1,
         NEW k \in 0 .. 3, NEW l \in 0 .. 3, k < l
  PROVE  Apart(Quarter(n, k), Quarter(n, l))
<1>1. n.level \in 1 .. Level /\ n.level - 1 \in 0 .. Level
  BY LevelAssumption DEF Node
<1>2. midx(n) \in Int /\ midy(n) \in Int
  BY <1>1, WidthAssumption DEF midx, midy, Node
<1> QED
  BY <1>2 DEF Apart, Quarter

\* ... and cover every cell of n.
LEMMA QuartersCover ==
  ASSUME NEW n \in Node, IsSquare(n), n.level > 1
  PROVE  CellsOf(n) = UNION {CellsOf(Quarter(n, k)) : k \in 0 .. 3}
<1>1. n.level \in 1 .. Level /\ n.level - 1 \in 0 .. Level
  BY LevelAssumption DEF Node
<1>2. midx(n) \in Int /\ midy(n) \in Int
  BY <1>1, WidthAssumption DEF midx, midy, Node
<1>3. n.left \in Int /\ n.right \in Int /\ n.top \in Int /\ n.bottom \in Int
  BY DEF Node
<1>4. ASSUME NEW k \in 0 .. 3 PROVE CellsOf(Quarter(n, k)) \subseteq CellsOf(n)
  <2>1. /\ n.left <= Quarter(n, k).left /\ Quarter(n, k).right <= n.right
        /\ n.top <= Quarter(n, k).top /\ Quarter(n, k).bottom <= n.bottom
    BY QuarterWithin
  <2>2. /\ Quarter(n, k).left \in Int /\ Quarter(n, k).right \in Int
        /\ Quarter(n, k).top \in Int /\ Quarter(n, k).bottom \in Int
    BY QuarterType DEF Node
  <2> QED BY <1>3, <2>1, <2>2 DEF CellsOf
<1>5. ASSUME NEW c \in CellsOf(n)
      PROVE  \E k \in 0 .. 3 : c \in CellsOf(Quarter(n, k))
  <2>1. PICK x \in n.left .. n.right - 1, z \in n.top .. n.bottom - 1 : c = <<x, z>>
    BY DEF CellsOf
  <2>2. CASE x < midx(n) /\ z < midy(n)
    <3>1. c \in CellsOf(Quarter(n, 0))
      BY <1>2, <1>3, <2>1, <2>2 DEF CellsOf, Quarter
    <3> QED BY <3>1
  <2>3. CASE x >= midx(n) /\ z < midy(n)
    <3>1. c \in CellsOf(Quarter(n, 1))
      BY <1>2, <1>3, <2>1, <2>3 DEF CellsOf, Quarter
    <3> QED BY <3>1
  <2>4. CASE x < midx(n) /\ z >= midy(n)
    <3>1. c \in CellsOf(Quarter(n, 2))
      BY <1>2, <1>3, <2>1, <2>4 DEF CellsOf, Quarter
    <3> QED BY <3>1
  <2>5. CASE x >= midx(n) /\ z >= midy(n)
    <3>1. c \in CellsOf(Quarter(n, 3))
      BY <1>2, <1>3, <2>1, <2>5 DEF CellsOf, Quarter
    <3> QED BY <3>1
  <2> QED BY <1>2, <1>3, <2>2, <2>3, <2>4, <2>5
<1> QED BY <1>4, <1>5

\* What is apart from n is apart from what lies within n.
LEMMA ApartFromWithin ==
  ASSUME NEW m \in Node, NEW n \in Node, NEW q \in Node, Apart(m, n),
         n.left <= q.left, q.right <= n.right, n.top <= q.top, q.bottom <= n.bottom
  PROVE  Apart(m, q)
BY DEF Apart, Node

----------------------------------------------------------------------------
IInv == TypeOK /\ Tiling

\* The walk begins with one node, the whole plane.
LEMMA StartsWhole ==
  /\ InitNode \in [0 .. 0 -> Node]
  /\ IsSquare(InitNode[0])
  /\ CellsOf(InitNode[0]) = Plane
<1>1. Level \in 1 .. Level /\ Level \in 0 .. Level
  BY LevelAssumption
<1>2. Side \in Nat
  BY <1>1, WidthAssumption DEF Side
<1>3. InitNode = [i \in {0} |-> InitNode[0]] /\ 0 .. 0 = {0}
  BY DEF InitNode
<1>4. InitNode[0] = [left |-> 0, right |-> Side, top |-> 0, bottom |-> Side, level |-> Level]
  BY DEF InitNode
<1> QED
  BY <1>1, <1>2, <1>3, <1>4 DEF Node, IsSquare, CellsOf, Plane, Side

LEMMA InitIInv == Init => IInv
<1> SUFFICES ASSUME Init PROVE IInv
  OBVIOUS
<1>1. tail = 1 /\ cur = 0 /\ final = {} /\ dropped = {} /\ nodes = InitNode
  BY DEF Init
<1>2. TypeOK
  BY <1>1, StartsWhole DEF TypeOK, Node, IsSquare
<1>3. Leaves = {0}
  BY <1>1 DEF Leaves
<1>4. Tiling
  BY <1>1, <1>3, StartsWhole DEF Tiling
<1> QED BY <1>2, <1>4 DEF IInv

\* Again leads to the same state.
LEMMA AgainIInv == Again => IInv'
<1> SUFFICES ASSUME Again PROVE IInv'
  OBVIOUS
<1>1. tail' = 1 /\ cur' = 0 /\ final' = {} /\ dropped' = {} /\ nodes' = InitNode
  BY DEF Again
<1>2. TypeOK'
  BY <1>1, StartsWhole DEF TypeOK, Node, IsSquare
<1>3. Leaves' = {0}
  BY <1>1 DEF Leaves
<1>4. Tiling'
  BY <1>1, <1>3, StartsWhole DEF Tiling
<1> QED BY <1>2, <1>4 DEF IInv

\* A node that is kept or dropped stays a leaf.
LEMMA AnswerIInv == IInv /\ (Keep \/ Drop) => IInv'
<1> SUFFICES ASSUME IInv, Keep \/ Drop PROVE IInv'
  OBVIOUS
<1>1. /\ tail \in Nat /\ cur \in 0 .. tail - 1
      /\ nodes' = nodes /\ tail' = tail /\ cur' = cur + 1
      /\ final \subseteq 0 .. cur - 1 /\ dropped \subseteq 0 .. cur - 1
      /\ \/ final' = final \cup {cur} /\ dropped' = dropped
         \/ final' = final /\ dropped' = dropped \cup {cur}
  <2>1. /\ tail \in Nat /\ cur \in 0 .. tail
        /\ final \subseteq 0 .. cur - 1 /\ dropped \subseteq 0 .. cur - 1
    BY DEF IInv, TypeOK
  <2>2. /\ cur < tail /\ nodes' = nodes /\ tail' = tail /\ cur' = cur + 1
        /\ \/ final' = final \cup {cur} /\ dropped' = dropped
           \/ final' = final /\ dropped' = dropped \cup {cur}
    BY DEF Keep, Drop
  <2>3. cur \in 0 .. tail - 1
    BY <2>1, <2>2
  <2> QED BY <2>1, <2>2, <2>3
<1>2. TypeOK'
  <2>1. cur' \in 0 .. tail' /\ cur \in 0 .. cur' - 1 /\ 0 .. cur - 1 \subseteq 0 .. cur' - 1
    BY <1>1
  <2>2. final' \subseteq 0 .. cur' - 1 /\ dropped' \subseteq 0 .. cur' - 1
    BY <1>1, <2>1
  <2> QED BY <1>1, <2>1, <2>2 DEF IInv, TypeOK
<1>3. Leaves' = Leaves
  <2>1. cur .. tail - 1 = {cur} \cup (cur + 1 .. tail - 1)
    BY <1>1
  <2>2. (cur' .. tail' - 1) = cur + 1 .. tail - 1
    BY <1>1
  <2> QED BY <1>1, <2>1, <2>2 DEF Leaves
<1>4. Tiling'
  BY <1>1, <1>3 DEF IInv, Tiling
<1> QED BY <1>2, <1>4 DEF IInv

\* A node that is split is replaced among the leaves by its quarters.
LEMMA SplitIInv == IInv /\ SplitPitch => IInv'
<1> SUFFICES ASSUME IInv, SplitPitch PROVE IInv'
  OBVIOUS
<1> DEFINE n == nodes[cur]
           new == tail .. tail + 3
<1>1. tail \in Nat /\ cur \in 0 .. tail - 1 /\ cur + 1 \in 0 .. tail + 4
  BY DEF IInv, TypeOK, SplitPitch
<1>2. n \in Node /\ IsSquare(n) /\ n.level > 1
  BY <1>1 DEF IInv, TypeOK, SplitPitch, Node, IsSquare
<1>3. /\ tail' = tail + 4 /\ cur' = cur + 1 /\ final' = final /\ dropped' = dropped
      /\ nodes' = [i \in 0 .. tail + 3 |-> IF i < tail THEN nodes[i] ELSE Quarter(n, i - tail)]
  BY DEF SplitPitch
<1>4. ASSUME NEW i \in 0 .. tail - 1 PROVE nodes'[i] = nodes[i] /\ nodes[i] \in Node
  BY <1>1, <1>3 DEF IInv, TypeOK, Node
<1>5. ASSUME NEW i \in new PROVE nodes'[i] = Quarter(n, i - tail) /\ i - tail \in 0 .. 3
  BY <1>1, <1>3
<1>6. TypeOK'
  <2>1. ASSUME NEW i \in 0 .. tail + 3
        PROVE  nodes'[i] \in Node /\ IsSquare(nodes'[i])
    <3>1. CASE i \in 0 .. tail - 1
      BY <3>1, <1>4 DEF IInv, TypeOK, IsSquare
    <3>2. CASE i \in new
      BY <3>2, <1>2, <1>5, QuarterType
    <3> QED BY <3>1, <3>2, <1>1
  <2>2. nodes' \in [0 .. tail + 3 -> Node]
    BY <1>3, <2>1
  <2>3. tail' \in Nat /\ tail' - 1 = tail + 3
    BY <1>1, <1>3
  <2>4. final' \subseteq 0 .. cur' - 1 /\ dropped' \subseteq 0 .. cur' - 1
    BY <1>1, <1>3 DEF IInv, TypeOK
  <2> QED BY <1>1, <1>3, <2>1, <2>2, <2>3, <2>4 DEF TypeOK, Node, IsSquare
<1>7. Leaves' = (Leaves \ {cur}) \cup new /\ cur \in Leaves /\ Leaves \subseteq 0 .. tail - 1
  <2>1. final \subseteq 0 .. cur - 1 /\ dropped \subseteq 0 .. cur - 1
    BY DEF IInv, TypeOK
  <2>2. cur .. tail - 1 = {cur} \cup (cur + 1 .. tail - 1)
    BY <1>1
  <2>3. cur' .. tail' - 1 = (cur + 1 .. tail - 1) \cup new
    BY <1>1, <1>3
  <2>4. cur \notin cur + 1 .. tail - 1 /\ cur \notin 0 .. cur - 1
    BY <1>1
  <2>5. 0 .. cur - 1 \subseteq 0 .. tail - 1 /\ cur .. tail - 1 \subseteq 0 .. tail - 1
    BY <1>1
  <2>6. cur \notin new
    BY <1>1
  <2> QED BY <1>3, <2>1, <2>2, <2>3, <2>4, <2>5, <2>6 DEF Leaves
<1>8. UNION {CellsOf(nodes'[i]) : i \in Leaves'} = Plane
  <2>1. UNION {CellsOf(nodes[i]) : i \in Leaves} = Plane
    BY DEF IInv, Tiling
  <2>2. CellsOf(n) = UNION {CellsOf(Quarter(n, k)) : k \in 0 .. 3}
    BY <1>2, QuartersCover
  <2>3. CellsOf(n) = UNION {CellsOf(nodes'[i]) : i \in new}
    <3>1. ASSUME NEW k \in 0 .. 3
          PROVE  \E i \in new : nodes'[i] = Quarter(n, k)
      <4>1. tail + k \in new /\ (tail + k) - tail = k
        BY <1>1
      <4> QED BY <4>1, <1>5
    <3> QED BY <2>2, <3>1, <1>5
  <2>4. ASSUME NEW i \in Leaves \ {cur} PROVE nodes'[i] = nodes[i]
    BY <1>4, <1>7
  <2> QED BY <1>7, <2>1, <2>3, <2>4
<1>9. ASSUME NEW i \in Leaves', NEW j \in Leaves', i < j PROVE Apart(nodes'[i], nodes'[j])
  <2>1. CASE i \in new /\ j \in new
    <3>1. i - tail < j - tail
      BY <1>1, <2>1, <1>9
    <3> QED BY <2>1, <3>1, <1>2, <1>5, QuartersApart
  <2>2. CASE i \in Leaves \ {cur} /\ j \in new
    <3>1. nodes'[i] = nodes[i] /\ nodes[i] \in Node
      BY <1>4, <1>7, <2>2
    <3>2. Apart(nodes[i], n)
      <4>1. i < cur \/ cur < i
        BY <1>1, <1>7, <2>2
      <4> QED BY <4>1, <1>7, <2>2 DEF IInv, Tiling, Apart
    <3>3. nodes'[j] = Quarter(n, j - tail) /\ j - tail \in 0 .. 3
      BY <1>5, <2>2
    <3> QED
      BY <3>1, <3>2, <3>3, <1>2, QuarterType, QuarterWithin, ApartFromWithin
  <2>3. CASE i \in Leaves \ {cur} /\ j \in Leaves \ {cur}
    BY <2>3, <1>4, <1>7, <1>9 DEF IInv, Tiling
  <2>4. ~(i \in new /\ j \in Leaves \ {cur})
    BY <1>1, <1>7, <1>9
  <2> QED BY <1>7, <2>1, <2>2, <2>3, <2>4
<1> QED BY <1>6, <1>8, <1>9 DEF IInv, Tiling

----------------------------------------------------------------------------
\* The cells of the nodes Split has still to look at.
Pending == UNION {CellsOf(nodes[i]) : i \in cur .. tail - 1}

\* Every node behind cur has been paid for with the four cells it has at least: a
\* split takes four places of the array, and an answer gives up four cells or more.
Budget == Cardinality(Pending) + 4 * cur - tail <= Side * Side - 1

\* A set of numbers that is not empty has a least one.
LEMMA Least ==
  ASSUME NEW T \in SUBSET Nat, T # {}
  PROVE  \E m \in T : \A n \in T : m <= n
<1>1. IsWellFoundedOn(OpToRel(<, Nat), Nat)
  BY NatLessThanWellFounded
<1>2. PICK m \in T : \A n \in T : ~(<<n, m>> \in OpToRel(<, Nat))
  BY <1>1, WFMin
<1>3. ASSUME NEW n \in T PROVE m <= n
  <2>1. m \in Nat /\ n \in Nat
    OBVIOUS
  <2>2. ~(n < m)
    BY <1>2, <2>1 DEF OpToRel
  <2>3. QED BY <2>1, <2>2
<1>4. QED BY <1>3

\* A level is at least one cell wide, and those above the lowest at least two.
LEMMA WidthGrows ==
  /\ \A l \in 0 .. Level : Width[l] \in Nat /\ Width[l] >= 1
  /\ \A l \in 1 .. Level : Width[l] >= 2
<1> DEFINE T == {l \in 0 .. Level : ~(Width[l] >= 1)}
<1>1. Level \in Nat /\ \A l \in 0 .. Level : Width[l] \in Nat
  BY LevelAssumption, WidthAssumption
<1>2. T = {}
  <2>1. SUFFICES ASSUME T # {} PROVE FALSE
    OBVIOUS
  <2>2. T \in SUBSET Nat
    BY <1>1
  <2>3. PICK m \in T : \A n \in T : m <= n
    BY <2>1, <2>2, Least
  <2>4. m # 0 /\ m \in 0 .. Level
    BY <2>3, WidthAssumption
  <2>5. m \in 1 .. Level /\ m - 1 \in 0 .. Level /\ ~(m <= m - 1)
    BY <1>1, <2>4
  <2>6. m - 1 \notin T
    BY <2>3, <2>5
  <2>7. Width[m - 1] >= 1 /\ Width[m] = 2 * Width[m - 1] /\ Width[m - 1] \in Nat
    BY <1>1, <2>5, <2>6, WidthAssumption
  <2>8. QED BY <2>3, <2>7
<1>3. ASSUME NEW l \in 1 .. Level PROVE Width[l] >= 2
  <2>1. l - 1 \in 0 .. Level
    BY <1>1
  <2>2. Width[l - 1] >= 1 /\ Width[l] = 2 * Width[l - 1] /\ Width[l - 1] \in Nat
    BY <1>1, <1>2, <2>1, WidthAssumption
  <2>3. QED BY <2>2
<1>4. QED BY <1>1, <1>2, <1>3

\* The plane is finite.
LEMMA PlaneSize == IsFiniteSet(Plane) /\ Cardinality(Plane) = Side * Side /\ Side \in Nat
<1>1. Side \in Nat
  BY LevelAssumption, WidthAssumption DEF Side
<1> DEFINE S == 0 .. Side - 1
<1>2. IsFiniteSet(S) /\ Cardinality(S) = Side
  <2>1. Side - 1 \in Int /\ 0 \in Int
    BY <1>1
  <2>2. IsFiniteSet(S) /\ Cardinality(S) = IF 0 > Side - 1 THEN 0 ELSE Side - 1 - 0 + 1
    BY <2>1, FS_Interval
  <2>3. QED BY <1>1, <2>2
<1> HIDE DEF S
<1>3. IsFiniteSet(S \X S) /\ Cardinality(S \X S) = Side * Side
  BY <1>2, FS_Product
<1>4. QED BY <1>1, <1>3 DEF Plane, S

\* Nodes that are apart have no cell in common.
LEMMA ApartDisjoint ==
  ASSUME NEW m \in Node, NEW n \in Node, Apart(m, n)
  PROVE  CellsOf(m) \cap CellsOf(n) = {}
BY DEF Apart, CellsOf, Node

\* A node has at least these four cells.
Corner(n, q) == <<n.left + q[1], n.top + q[2]>>
Four == (0 .. 1) \X (0 .. 1)

LEMMA FourCells ==
  ASSUME NEW n \in Node, IsSquare(n), NEW q \in Four
  PROVE  Corner(n, q) \in CellsOf(n)
<1>1. n.level \in 1 .. Level
  BY DEF Node
<1>2. Width[n.level] \in Nat /\ Width[n.level] >= 2
  BY <1>1, WidthGrows, LevelAssumption
<1>3. /\ n.left \in Int /\ n.top \in Int /\ n.right = n.left + Width[n.level]
      /\ n.bottom = n.top + Width[n.level]
  BY DEF Node, IsSquare
<1>4. PICK a \in 0 .. 1, b \in 0 .. 1 : q = <<a, b>>
  BY DEF Four
<1>5. n.left + a \in n.left .. n.right - 1 /\ n.top + b \in n.top .. n.bottom - 1
  BY <1>2, <1>3
<1>6. QED BY <1>4, <1>5 DEF Corner, CellsOf

\* These are four different cells.
LEMMA CornersDiffer ==
  ASSUME NEW n \in Node, NEW q \in Four, NEW r \in Four, Corner(n, q) = Corner(n, r)
  PROVE  q = r
<1>1. PICK a \in 0 .. 1, b \in 0 .. 1 : q = <<a, b>>
  BY DEF Four
<1>2. PICK c \in 0 .. 1, d \in 0 .. 1 : r = <<c, d>>
  BY DEF Four
<1>3. n.left \in Int /\ n.top \in Int
  BY DEF Node
<1>4. n.left + a = n.left + c /\ n.top + b = n.top + d
  BY <1>1, <1>2 DEF Corner
<1>5. a = c /\ b = d
  BY <1>3, <1>4
<1>6. QED BY <1>1, <1>2, <1>5

\* So there are four.
LEMMA FourSize == IsFiniteSet(Four) /\ Cardinality(Four) = 4
<1>1. IsFiniteSet(0 .. 1) /\ Cardinality(0 .. 1) = 2
  <2>1. 0 .. 1 = {0} \cup {1} /\ 1 \notin {0}
    OBVIOUS
  <2>2. IsFiniteSet({0}) /\ Cardinality({0}) = 1
    BY FS_Singleton
  <2>3. QED BY <2>1, <2>2, FS_AddElement
<1>2. IsFiniteSet(Four) /\ Cardinality(Four) = 2 * 2
  BY <1>1, FS_Product DEF Four
<1>3. QED BY <1>2

\* What the invariant says of the nodes Split has still to look at.
LEMMA PendingNodes ==
  ASSUME IInv
  PROVE  /\ tail \in Nat /\ cur \in 0 .. tail
         /\ \A i \in cur .. tail - 1 :
              i \in Leaves /\ i \in 0 .. tail - 1 /\ nodes[i] \in Node /\ IsSquare(nodes[i])
         /\ Pending \subseteq Plane /\ IsFiniteSet(Pending) /\ Cardinality(Pending) \in Nat
<1>1. tail \in Nat /\ cur \in 0 .. tail
  BY DEF IInv, TypeOK
<1>2. ASSUME NEW i \in cur .. tail - 1
      PROVE  i \in Leaves /\ i \in 0 .. tail - 1 /\ nodes[i] \in Node /\ IsSquare(nodes[i])
  <2>1. i \in Leaves /\ i \in 0 .. tail - 1
    BY <1>1, <1>2 DEF Leaves
  <2>2. QED BY <2>1 DEF IInv, TypeOK, Node, IsSquare
<1>3. Pending \subseteq Plane
  BY <1>2 DEF Pending, IInv, Tiling
<1>4. IsFiniteSet(Pending) /\ Cardinality(Pending) \in Nat
  BY <1>3, PlaneSize, FS_Subset, FS_CardinalityType
<1>5. QED BY <1>1, <1>2, <1>3, <1>4

\* Each of them has its own four cells.
LEMMA FourCellsEach ==
  ASSUME IInv
  PROVE  4 * (tail - cur) <= Cardinality(Pending)
<1> DEFINE I == cur .. tail - 1
           f == [p \in I \X Four |-> Corner(nodes[p[1]], p[2])]
<1>1. /\ tail \in Nat /\ cur \in 0 .. tail
      /\ \A i \in I : i \in Leaves /\ nodes[i] \in Node /\ IsSquare(nodes[i])
      /\ IsFiniteSet(Pending) /\ Cardinality(Pending) \in Nat
  BY PendingNodes
<1>2. IsFiniteSet(I) /\ Cardinality(I) = tail - cur
  <2>1. cur \in Int /\ tail - 1 \in Int
    BY <1>1
  <2>2. IsFiniteSet(I) /\ Cardinality(I) = IF cur > tail - 1 THEN 0 ELSE (tail - 1) - cur + 1
    BY <2>1, FS_Interval
  <2>3. QED BY <1>1, <2>2
<1>3. IsFiniteSet(I \X Four) /\ Cardinality(I \X Four) = (tail - cur) * 4
  <2> HIDE DEF I
  <2>1. QED BY <1>2, FourSize, FS_Product
<1>4. f \in [I \X Four -> Pending]
  <2>1. ASSUME NEW p \in I \X Four PROVE Corner(nodes[p[1]], p[2]) \in Pending
    <3>1. p[1] \in I /\ p[2] \in Four
      OBVIOUS
    <3>2. Corner(nodes[p[1]], p[2]) \in CellsOf(nodes[p[1]])
      BY <1>1, <3>1, FourCells
    <3>3. QED BY <3>1, <3>2 DEF Pending
  <2>2. QED BY <2>1
<1>5. ASSUME NEW p \in I \X Four, NEW r \in I \X Four, f[p] = f[r] PROVE p = r
  <2>1. PICK i \in I, q \in Four : p = <<i, q>>
    OBVIOUS
  <2>2. PICK j \in I, s \in Four : r = <<j, s>>
    OBVIOUS
  <2>3. Corner(nodes[i], q) = Corner(nodes[j], s)
    BY <1>5, <2>1, <2>2
  <2>4. Corner(nodes[i], q) \in CellsOf(nodes[i]) /\ Corner(nodes[i], q) \in CellsOf(nodes[j])
    BY <1>1, <2>1, <2>2, <2>3, FourCells
  <2>5. i = j
    <3>1. SUFFICES ASSUME i # j PROVE FALSE
      OBVIOUS
    <3>2. i < j \/ j < i
      BY <1>1, <3>1
    <3>3. Apart(nodes[i], nodes[j]) \/ Apart(nodes[j], nodes[i])
      BY <1>1, <3>2 DEF IInv, Tiling
    <3>4. CellsOf(nodes[i]) \cap CellsOf(nodes[j]) = {}
      BY <1>1, <3>3, ApartDisjoint
    <3>5. QED BY <2>4, <3>4
  <2>6. q = s
    BY <1>1, <2>3, <2>5, CornersDiffer
  <2>7. QED BY <2>1, <2>2, <2>5, <2>6
<1>6. f \in Injection(I \X Four, Pending)
  BY <1>4, <1>5 DEF Injection, IsInjective
<1>7. Cardinality(I \X Four) <= Cardinality(Pending)
  <2> HIDE DEF f, I
  <2>1. QED BY <1>1, <1>6, FS_Injection
<1>8. QED BY <1>1, <1>3, <1>7

\* The cells of one node are four at least.
LEMMA FourCellsOne ==
  ASSUME NEW n \in Node, IsSquare(n), IsFiniteSet(CellsOf(n))
  PROVE  4 <= Cardinality(CellsOf(n))
<1> DEFINE f == [q \in Four |-> Corner(n, q)]
<1>1. f \in Injection(Four, CellsOf(n))
  BY FourCells, CornersDiffer DEF Injection, IsInjective
<1> HIDE DEF f
<1>2. QED BY <1>1, FourSize, FS_Injection

\* The array is paid for: ...
LEMMA WithinBudget ==
  ASSUME IInv, Budget
  PROVE  TailFits
<1>1. tail \in Nat /\ cur \in 0 .. tail /\ Cardinality(Pending) \in Nat
  BY PendingNodes
<1>2. PICK a \in Int : a = Side * Side
  BY PlaneSize
<1>3. 3 * tail <= a - 1
  BY <1>1, <1>2, FourCellsEach DEF Budget
<1>4. tail <= a \div 3
  BY <1>1, <1>3
<1>5. QED BY <1>2, <1>4 DEF TailFits, MaxCell

\* ... at the beginning of a walk, ...
LEMMA StartBudget == (Init => Budget) /\ (Again => Budget')
<1>1. ASSUME Init PROVE Budget
  <2>1. nodes = InitNode /\ cur .. tail - 1 = {0} /\ tail = 1 /\ cur = 0
    BY <1>1 DEF Init
  <2>2. Pending = Plane
    BY <2>1, StartsWhole DEF Pending
  <2>3. QED BY <2>1, <2>2, PlaneSize DEF Budget
<1>2. ASSUME Again PROVE Budget'
  <2>1. nodes' = InitNode /\ cur' .. tail' - 1 = {0} /\ tail' = 1 /\ cur' = 0
    BY <1>2 DEF Again
  <2>2. Pending' = Plane
    BY <2>1, StartsWhole DEF Pending
  <2>3. Budget' <=> Cardinality(Pending') + 4 * cur' - tail' <= Side * Side - 1
    BY DEF Budget, Side
  <2>4. QED BY <2>1, <2>2, <2>3, PlaneSize
<1>3. QED BY <1>1, <1>2

\* ... by a split, which hands its cells on to four nodes, ...
LEMMA SplitBudget ==
  ASSUME IInv, Budget, SplitPitch
  PROVE  Budget'
<1> DEFINE n == nodes[cur]
           new == tail .. tail + 3
<1>1. tail \in Nat /\ cur \in 0 .. tail - 1 /\ Cardinality(Pending) \in Nat
  BY PendingNodes DEF SplitPitch
<1>2. n \in Node /\ IsSquare(n) /\ n.level > 1
  BY <1>1, PendingNodes DEF SplitPitch
<1>3. /\ tail' = tail + 4 /\ cur' = cur + 1
      /\ nodes' = [i \in 0 .. tail + 3 |-> IF i < tail THEN nodes[i] ELSE Quarter(n, i - tail)]
  BY DEF SplitPitch
<1>4. \A i \in cur + 1 .. tail - 1 : nodes'[i] = nodes[i]
  BY <1>1, <1>3
<1>5. CellsOf(n) = UNION {CellsOf(nodes'[i]) : i \in new}
  <2>1. ASSUME NEW i \in new PROVE nodes'[i] = Quarter(n, i - tail) /\ i - tail \in 0 .. 3
    BY <1>1, <1>3
  <2>2. ASSUME NEW k \in 0 .. 3
        PROVE  \E i \in new : nodes'[i] = Quarter(n, k)
    <3>1. tail + k \in new /\ (tail + k) - tail = k
      BY <1>1
    <3>2. QED BY <3>1, <2>1
  <2>3. CellsOf(n) = UNION {CellsOf(Quarter(n, k)) : k \in 0 .. 3}
    BY <1>2, QuartersCover
  <2>4. QED BY <2>1, <2>2, <2>3
<1>6. Pending' = Pending
  <2>1. /\ cur .. tail - 1 = {cur} \cup (cur + 1 .. tail - 1)
        /\ cur' .. tail' - 1 = (cur + 1 .. tail - 1) \cup new
    BY <1>1, <1>3
  <2>2. Pending = CellsOf(n) \cup (UNION {CellsOf(nodes[i]) : i \in cur + 1 .. tail - 1})
    BY <2>1 DEF Pending
  <2>3. Pending' = (UNION {CellsOf(nodes'[i]) : i \in cur + 1 .. tail - 1})
                     \cup (UNION {CellsOf(nodes'[i]) : i \in new})
    BY <2>1 DEF Pending
  <2>4. QED BY <1>4, <1>5, <2>2, <2>3
<1>7. PICK c \in Nat : c = Cardinality(Pending) /\ c = Cardinality(Pending')
  BY <1>1, <1>6
<1>8. PICK a \in Int : a = Side * Side
  BY PlaneSize
<1>9. c + 4 * cur' - tail' <= a - 1
  BY <1>1, <1>3, <1>7, <1>8 DEF Budget
<1>10. Budget' <=> Cardinality(Pending') + 4 * cur' - tail' <= Side * Side - 1
  BY DEF Budget, Side
<1>11. QED BY <1>7, <1>8, <1>9, <1>10

\* ... and by an answer, which gives the cells of its node up.
LEMMA AnswerBudget ==
  ASSUME IInv, Budget, Keep \/ Drop
  PROVE  Budget'
<1> DEFINE n == nodes[cur]
<1>1. tail \in Nat /\ cur \in 0 .. tail - 1 /\ Cardinality(Pending) \in Nat /\ IsFiniteSet(Pending)
  BY PendingNodes DEF Keep, Drop
<1>2. n \in Node /\ IsSquare(n) /\ CellsOf(n) \subseteq Pending
  <2>1. cur \in cur .. tail - 1
    BY <1>1
  <2>2. QED BY <2>1, PendingNodes DEF Pending
<1>3. tail' = tail /\ cur' = cur + 1 /\ nodes' = nodes
  BY DEF Keep, Drop
<1>4. Pending' \subseteq Pending \ CellsOf(n)
  <2>1. ASSUME NEW i \in cur + 1 .. tail - 1
        PROVE  CellsOf(nodes[i]) \subseteq Pending \ CellsOf(n)
    <3>1. i \in cur .. tail - 1 /\ cur \in cur .. tail - 1 /\ cur < i
      BY <1>1
    <3>2. nodes[i] \in Node /\ i \in Leaves /\ cur \in Leaves
      BY <3>1, PendingNodes
    <3>3. Apart(n, nodes[i])
      BY <3>1, <3>2 DEF IInv, Tiling
    <3>4. CellsOf(n) \cap CellsOf(nodes[i]) = {}
      BY <1>2, <3>2, <3>3, ApartDisjoint
    <3>5. QED BY <3>1, <3>4 DEF Pending
  <2>2. Pending' = UNION {CellsOf(nodes[i]) : i \in cur + 1 .. tail - 1}
    BY <1>3 DEF Pending
  <2>3. QED BY <2>1, <2>2
<1>5. /\ Cardinality(Pending \ CellsOf(n)) = Cardinality(Pending) - Cardinality(CellsOf(n))
      /\ IsFiniteSet(CellsOf(n)) /\ IsFiniteSet(Pending \ CellsOf(n))
  <2>1. Pending \cap CellsOf(n) = CellsOf(n)
    BY <1>2
  <2> DEFINE P == Pending
             C == CellsOf(n)
  <2>2. IsFiniteSet(P) /\ IsFiniteSet(C) /\ P \cap C = C
    BY <1>1, <1>2, <2>1, FS_Subset
  <2> HIDE DEF P, C
  <2>3. IsFiniteSet(P \ C) /\ Cardinality(P \ C) = Cardinality(P) - Cardinality(P \cap C)
    BY <2>2, FS_Difference
  <2>4. QED BY <2>2, <2>3 DEF P, C
<1>6. /\ Cardinality(Pending') <= Cardinality(Pending \ CellsOf(n))
      /\ Cardinality(Pending') \in Nat
  <2>1. PICK P : P = Pending'
    OBVIOUS
  <2>2. Cardinality(P) <= Cardinality(Pending \ CellsOf(n)) /\ Cardinality(P) \in Nat
    BY <1>4, <1>5, <2>1, FS_Subset, FS_CardinalityType
  <2>3. QED BY <2>1, <2>2
<1>7. 4 <= Cardinality(CellsOf(n)) /\ Cardinality(CellsOf(n)) \in Nat
  BY <1>2, <1>5, FourCellsOne, FS_CardinalityType
<1>8. PICK a \in Int : a = Side * Side
  BY PlaneSize
<1>9. Cardinality(Pending') + 4 * cur' - tail' <= a - 1
  BY <1>1, <1>3, <1>5, <1>6, <1>7, <1>8 DEF Budget
<1>10. Budget' <=> Cardinality(Pending') + 4 * cur' - tail' <= Side * Side - 1
  BY DEF Budget, Side
<1>11. QED BY <1>8, <1>9, <1>10

----------------------------------------------------------------------------
\* Whatever the Splitable answers.
LEMMA Paid == Spec => [](IInv /\ Budget)
<1>1. Init => IInv /\ Budget
  BY InitIInv, StartBudget
<1>2. IInv /\ Budget /\ [Next]_vars => (IInv /\ Budget)'
  <2>1. SUFFICES ASSUME IInv, Budget, [Next]_vars PROVE IInv' /\ Budget'
    OBVIOUS
  <2>2. CASE SplitPitch
    BY <2>1, <2>2, SplitIInv, SplitBudget
  <2>3. CASE Keep \/ Drop
    BY <2>1, <2>3, AnswerIInv, AnswerBudget
  <2>4. CASE Again
    BY <2>4, AgainIInv, StartBudget
  <2>5. CASE UNCHANGED vars
    BY <2>1, <2>5 DEF IInv, TypeOK, Tiling, Leaves, vars, Budget, Pending
  <2>6. QED BY <2>1, <2>2, <2>3, <2>4, <2>5 DEF Next, Step
<1>3. QED BY <1>1, <1>2, PTL DEF Spec

\* The nodes in use are squares of the sides their levels say, and no node is
\* answered before it is reached.
THEOREM TileTypeOK == Spec => []TypeOK
<1>1. IInv => TypeOK
  BY DEF IInv
<1>2. QED BY Paid, <1>1, PTL

\* At every moment of QuadTree::Split, for every size and whatever the Splitable
\* answers, the nodes that are not split fill the plane and do not overlap.
THEOREM SplitTiles == Spec => []Tiling
<1>1. IInv => Tiling
  BY DEF IInv
<1>2. QED BY Paid, <1>1, PTL

\* The array of nodes the constructor makes is long enough for every walk,
\* although Split never looks whether it is full.
THEOREM NeverFull == Spec => []TailFits
BY Paid, WithinBudget, PTL

----------------------------------------------------------------------------
\* Division is unique.
LEMMA DivMod ==
  ASSUME NEW g \in Nat, g > 0, NEW x \in Nat, NEW y \in 0 .. g - 1
  PROVE  (x * g + y) \div g = x /\ (x * g + y) % g = y
<1> DEFINE v == x * g + y
           a == v \div g
           b == v % g
<1>1. v \in Nat
  OBVIOUS
<1>2. a \in Int /\ b \in 0 .. g - 1 /\ v = g * a + b
  BY <1>1
<1> HIDE DEF a, b
<1>3. ~(a >= x + 1)
  <2>1. SUFFICES ASSUME a >= x + 1 PROVE FALSE
    OBVIOUS
  <2>2. g * a >= g * (x + 1)
    BY <1>2, <2>1
  <2>3. QED BY <1>2, <2>2
<1>4. ~(x >= a + 1)
  <2>1. SUFFICES ASSUME x >= a + 1 PROVE FALSE
    OBVIOUS
  <2>2. g * x >= g * (a + 1)
    BY <1>2, <2>1
  <2>3. QED BY <1>2, <2>2
<1>5. a = x
  BY <1>2, <1>3, <1>4
<1>6. b = y
  BY <1>2, <1>5
<1>7. QED BY <1>5, <1>6 DEF a, b

\* A number is found again from the row and the column it has in a table.
LEMMA DivModOf ==
  ASSUME NEW g \in Nat, g > 0, NEW v \in Nat
  PROVE  v \div g \in Nat /\ v % g \in 0 .. g - 1 /\ v = (v \div g) * g + (v % g)
<1>1. v \div g \in Int /\ v % g \in 0 .. g - 1 /\ v = (v \div g) * g + (v % g)
  OBVIOUS
<1>2. v \div g >= 0
  <2>1. SUFFICES ASSUME v \div g <= -1 PROVE FALSE
    BY <1>1
  <2> DEFINE a == v \div g
  <2>2. a * g <= (-1) * g
    <3>1. a \in Int /\ a <= -1
      BY <1>1, <2>1
    <3> HIDE DEF a
    <3>2. QED BY <3>1
  <2>3. QED BY <1>1, <2>2
<1>3. QED BY <1>1, <1>2

\* The sides of two levels differ by the side of the level between them.
LEMMA WidthRatio ==
  ASSUME NEW l \in 0 .. Level, NEW d \in 0 .. l
  PROVE  Width[l] = Width[d] * Width[l - d]
<1> DEFINE Right(k) == Width[d + k] = Width[d] * Width[k]
           T == {k \in 0 .. Level - d : ~Right(k)}
<1>1. Level \in Nat /\ d \in 0 .. Level /\ \A k \in 0 .. Level : Width[k] \in Nat
  BY LevelAssumption, WidthAssumption
<1>2. Right(0)
  <2>1. Width[0] = 1 /\ Width[d] \in Nat /\ d + 0 = d
    BY <1>1, WidthAssumption
  <2>2. QED BY <2>1
<1>3. ASSUME NEW k \in 1 .. Level - d, Right(k - 1) PROVE Right(k)
  <2>1. d + k \in 1 .. Level /\ k \in 1 .. Level /\ d + k - 1 = d + (k - 1)
        /\ k - 1 \in 0 .. Level /\ d + (k - 1) \in 0 .. Level
    BY <1>1
  <2>2. Width[d + k] = 2 * Width[d + (k - 1)] /\ Width[k] = 2 * Width[k - 1]
    BY <2>1, WidthAssumption
  <2>3. Width[d] \in Nat /\ Width[k - 1] \in Nat /\ Width[d + (k - 1)] \in Nat
    BY <1>1, <2>1
  <2>4. Width[d] * (2 * Width[k - 1]) = 2 * (Width[d] * Width[k - 1])
    BY <2>3
  <2>5. QED BY <1>3, <2>2, <2>4
<1> HIDE DEF Right
<1>4. T = {}
  <2>1. SUFFICES ASSUME T # {} PROVE FALSE
    OBVIOUS
  <2>2. T \in SUBSET Nat
    BY <1>1
  <2>3. PICK m \in T : \A k \in T : m <= k
    <3> HIDE DEF T
    <3>1. QED BY <2>1, <2>2, Least
  <2>4. m \in 1 .. Level - d /\ m - 1 \in 0 .. Level - d
    BY <1>1, <1>2
  <2>5. m - 1 \notin T
    <3> HIDE DEF T
    <3>1. QED BY <2>3, <2>4
  <2>6. QED BY <1>3, <2>4, <2>5
<1>5. l - d \in 0 .. Level - d /\ d + (l - d) = l
  BY <1>1
<1>6. QED BY <1>4, <1>5 DEF Right

----------------------------------------------------------------------------
\* The squares of a pitch, numbered by their columns and rows.

\* n is a pitch of m squares by m squares with the side 1 << d.
Squared(n, d, m) ==
  /\ d \in 0 .. Level /\ m \in Nat \ {0}
  /\ n.left \in Nat /\ n.right = n.left + Width[d] * m /\ n.right <= Side
  /\ n.top \in Nat /\ n.bottom = n.top + Width[d] * m /\ n.bottom <= Side

Vertex(x, z) == z * GridLine + x

\* The two halves of the square at (x, z).
Lower(x, z, s) == <<Vertex(x, z), Vertex(x, z + s), Vertex(x + s, z + s)>>
Upper(x, z, s) == <<Vertex(x, z), Vertex(x + s, z + s), Vertex(x + s, z)>>

\* The row and the column of the square whose half the q-th triangle is.
RowOf(m, q) == ((q - 1) \div 2) \div m
ColOf(m, q) == ((q - 1) \div 2) % m

\* Where the c-th square of a row, and the r-th row, begin.
XAt(n, d, c) == n.left + Width[d] * c
ZAt(n, d, r) == n.top + Width[d] * r

HalfAt(n, d, m, q) ==
  LET x == XAt(n, d, ColOf(m, q))
      z == ZAt(n, d, RowOf(m, q))
  IN  IF q % 2 = 1 THEN Lower(x, z, Width[d]) ELSE Upper(x, z, Width[d])

LEMMA SidePositive == Side \in Nat /\ Side > 0 /\ GridLine = Side + 1 /\ GridLine \in Nat
  BY LevelAssumption, WidthGrows DEF Side, GridLine

\* A vertex is on the lines it was made from.
LEMMA VertexLines ==
  ASSUME NEW x \in 0 .. Side, NEW z \in Nat
  PROVE  Vertex(x, z) \in Nat /\ XOf(Vertex(x, z)) = x /\ ZOf(Vertex(x, z)) = z
<1>1. GridLine \in Nat /\ GridLine > 0 /\ x \in 0 .. GridLine - 1
  BY SidePositive
<1>2. (z * GridLine + x) \div GridLine = z /\ (z * GridLine + x) % GridLine = x
  BY <1>1, DivMod
<1>3. QED BY <1>1, <1>2 DEF Vertex, XOf, ZOf

LEMMA StepPositive ==
  ASSUME NEW d \in 0 .. Level
  PROVE  Width[d] \in Nat /\ Width[d] >= 1
  BY WidthGrows

\* Every square lies within the pitch, ...
LEMMA SquareWithin ==
  ASSUME NEW n, NEW d, NEW m, Squared(n, d, m), NEW c \in 0 .. m - 1
  PROVE  /\ XAt(n, d, c) \in Nat /\ n.left <= XAt(n, d, c)
         /\ XAt(n, d, c) + Width[d] <= n.right /\ XAt(n, d, c) + Width[d] <= Side
         /\ ZAt(n, d, c) \in Nat /\ n.top <= ZAt(n, d, c)
         /\ ZAt(n, d, c) + Width[d] <= n.bottom /\ ZAt(n, d, c) + Width[d] <= Side
<1> DEFINE s == Width[d]
<1>1. s \in Nat /\ s >= 1 /\ m \in Nat /\ c \in Nat /\ c + 1 <= m
  BY StepPositive DEF Squared
<1> HIDE DEF s
<1>2. s * c \in Nat /\ s * c + s <= s * m
  <2>1. s * (c + 1) <= s * m
    BY <1>1
  <2>2. s * (c + 1) = s * c + s
    BY <1>1
  <2>3. QED BY <1>1, <2>1, <2>2
<1>3. /\ n.left \in Nat /\ n.right = n.left + s * m /\ n.right <= Side
      /\ n.top \in Nat /\ n.bottom = n.top + s * m /\ n.bottom <= Side
  BY DEF Squared, s
<1>4. s * m \in Nat /\ Side \in Nat
  BY <1>1, SidePositive
<1>5. XAt(n, d, c) = n.left + s * c /\ ZAt(n, d, c) = n.top + s * c
  BY DEF XAt, ZAt, s
<1>6. QED BY <1>1, <1>2, <1>3, <1>4, <1>5 DEF s

\* ... and different columns begin at different lines.
LEMMA ColumnsDiffer ==
  ASSUME NEW n, NEW d, NEW m, Squared(n, d, m), NEW c \in 0 .. m - 1, NEW e \in 0 .. m - 1
  PROVE  /\ XAt(n, d, c) = XAt(n, d, e) => c = e
         /\ ZAt(n, d, c) = ZAt(n, d, e) => c = e
<1> DEFINE s == Width[d]
<1>1. s \in Nat /\ s >= 1 /\ m \in Nat /\ c \in Nat /\ e \in Nat
  BY StepPositive DEF Squared
<1> HIDE DEF s
<1>2. s * c = s * e => c = e
  BY <1>1
<1>3. n.left \in Nat /\ n.top \in Nat
  BY DEF Squared
<1>4. XAt(n, d, c) = n.left + s * c /\ ZAt(n, d, c) = n.top + s * c
      /\ XAt(n, d, e) = n.left + s * e /\ ZAt(n, d, e) = n.top + s * e
  BY DEF XAt, ZAt, s
<1>5. s * c \in Nat /\ s * e \in Nat
  BY <1>1
<1>6. QED BY <1>2, <1>3, <1>4, <1>5

\* Either half begins at the corner of its square.
LEMMA HalfBegins ==
  ASSUME NEW n, NEW d, NEW m, NEW q
  PROVE  HalfAt(n, d, m, q)[1] = Vertex(XAt(n, d, ColOf(m, q)), ZAt(n, d, RowOf(m, q)))
BY DEF HalfAt, Lower, Upper

\* What InitPitchIndices writes: square by square, first the lower half.
LEMMA TrianglesAre ==
  ASSUME NEW n, NEW d, NEW m, Squared(n, d, m)
  PROVE  /\ DOMAIN Triangles(d, n) = 1 .. 2 * m * m
         /\ \A q \in 1 .. 2 * m * m :
              /\ RowOf(m, q) \in 0 .. m - 1 /\ ColOf(m, q) \in 0 .. m - 1
              /\ (q - 1) \div 2 = RowOf(m, q) * m + ColOf(m, q)
              /\ Triangles(d, n)[q] = HalfAt(n, d, m, q)
<1> DEFINE s == Width[d]
<1>1. s \in Nat /\ s >= 1 /\ m \in Nat /\ m > 0 /\ n.left \in Nat /\ n.top \in Nat
      /\ n.right = n.left + s * m /\ n.bottom = n.top + s * m
  BY StepPositive DEF Squared
<1>2. (n.right - n.left) \div s = m /\ (n.bottom - n.top) \div s = m
  <2>1. n.right - n.left = m * s + 0 /\ n.bottom - n.top = m * s + 0
    <3> HIDE DEF s
    <3>1. s * m \in Nat /\ s * m = m * s
      BY <1>1
    <3>2. QED BY <1>1, <3>1
  <2>2. (m * s + 0) \div s = m
    <3> HIDE DEF s
    <3>1. 0 \in 0 .. s - 1
      BY <1>1
    <3>2. QED BY <1>1, <3>1, DivMod
  <2>3. QED BY <2>1, <2>2
<1> DEFINE T == Triangles(d, n)
           Half(q) == LET square == (q - 1) \div 2
                          i == n.top + s * (square \div m)
                          j == n.left + s * (square % m)
                          cur_line == i * GridLine
                          next_line == (i + s) * GridLine
                      IN  IF q % 2 = 1
                          THEN <<cur_line + j, next_line + j, next_line + j + s>>
                          ELSE <<cur_line + j, next_line + j + s, cur_line + j + s>>
<1>3. T = [q \in 1 .. 2 * m * m |-> Half(q)]
  BY <1>2 DEF Triangles
<1>4. ASSUME NEW q \in 1 .. 2 * m * m
      PROVE  /\ RowOf(m, q) \in 0 .. m - 1 /\ ColOf(m, q) \in 0 .. m - 1
             /\ (q - 1) \div 2 = RowOf(m, q) * m + ColOf(m, q)
             /\ T[q] = HalfAt(n, d, m, q)
  <2> DEFINE square == (q - 1) \div 2
             r == square \div m
             c == square % m
             x == XAt(n, d, c)
             z == ZAt(n, d, r)
  <2>1. square \in Nat /\ square < m * m
    <3>1. m * m \in Nat /\ 2 * m * m = 2 * (m * m)
      BY <1>1
    <3>2. QED BY <3>1
  <2>2. r \in Nat /\ c \in 0 .. m - 1 /\ square = r * m + c
    <3> HIDE DEF square
    <3>1. QED BY <1>1, <2>1, DivModOf
  <2>3. r < m
    <3> HIDE DEF square, r, c
    <3>1. SUFFICES ASSUME r >= m PROVE FALSE
      BY <1>1, <2>2
    <3>2. r * m >= m * m
      BY <1>1, <2>2, <3>1
    <3>3. QED BY <1>1, <2>1, <2>2, <3>2
  <2>4. T[q] = Half(q)
    BY <1>3
  <2>5. x \in Nat /\ z \in Nat
    BY <1>1, <2>2, <2>3, SquareWithin
  <2>6. Half(q) = IF q % 2 = 1 THEN Lower(x, z, s) ELSE Upper(x, z, s)
    <3> DEFINE G == GridLine
    <3>1. x = n.left + s * c /\ z = n.top + s * r
      BY DEF XAt, ZAt
    <3> HIDE DEF r, c, s, square, x, z
    <3>2. G \in Nat
      BY SidePositive
    <3>3. Vertex(x, z) = z * G + x /\ Vertex(x, z + s) = (z + s) * G + x
          /\ Vertex(x + s, z + s) = (z + s) * G + (x + s) /\ Vertex(x + s, z) = z * G + (x + s)
      BY DEF Vertex
    <3>4. (z + s) * G \in Nat /\ z * G \in Nat
      BY <1>1, <2>5, <3>2
    <3>5. (z + s) * G + (x + s) = (z + s) * G + x + s /\ z * G + (x + s) = z * G + x + s
      BY <1>1, <2>5, <3>4
    <3>6. Half(q) = IF q % 2 = 1
                    THEN <<z * G + x, (z + s) * G + x, (z + s) * G + x + s>>
                    ELSE <<z * G + x, (z + s) * G + x + s, z * G + x + s>>
      BY <3>1 DEF r, c, square
    <3>7. QED BY <3>3, <3>5, <3>6 DEF Lower, Upper
  <2>7. RowOf(m, q) = r /\ ColOf(m, q) = c
    BY DEF RowOf, ColOf
  <2>8. HalfAt(n, d, m, q) = Half(q)
    BY <2>6, <2>7 DEF HalfAt
  <2>9. r \in 0 .. m - 1
    <3> HIDE DEF r
    <3>1. QED BY <1>1, <2>2, <2>3
  <2> HIDE DEF r, c, T, Half
  <2>10. QED BY <2>2, <2>4, <2>7, <2>8, <2>9
<1>5. DOMAIN T = 1 .. 2 * m * m
  BY <1>3
<1>6. QED BY <1>4, <1>5

----------------------------------------------------------------------------
LEMMA PairSize ==
  ASSUME NEW a, NEW b, a # b
  PROVE  Cardinality({a, b}) = 2
<1>1. IsFiniteSet({a}) /\ Cardinality({a}) = 1
  BY FS_Singleton
<1>2. Cardinality({a} \cup {b}) = Cardinality({a}) + 1
  BY <1>1, FS_AddElement
<1>3. {a} \cup {b} = {a, b}
  OBVIOUS
<1>4. QED BY <1>1, <1>2, <1>3

LEMMA TripleSize ==
  ASSUME NEW a, NEW b, NEW c, a # b, a # c, b # c
  PROVE  Cardinality({a, b, c}) = 3
<1>1. IsFiniteSet({a, b}) /\ Cardinality({a, b}) = 2
  <2>1. IsFiniteSet({a})
    BY FS_Singleton
  <2>2. IsFiniteSet({a} \cup {b})
    BY <2>1, FS_AddElement
  <2>3. {a} \cup {b} = {a, b}
    OBVIOUS
  <2>4. QED BY <2>2, <2>3, PairSize
<1>2. Cardinality({a, b} \cup {c}) = Cardinality({a, b}) + 1
  BY <1>1, FS_AddElement
<1>3. {a, b} \cup {c} = {a, b, c}
  OBVIOUS
<1>4. QED BY <1>1, <1>2, <1>3

\* The halves of a square at (x, z) are two triangles, and have its corners.
LEMMA Halves ==
  ASSUME NEW s \in Nat, s >= 1, NEW x \in Nat, NEW z \in Nat, x + s <= Side
  PROVE  LET H == {Lower(x, z, s), Upper(x, z, s)} IN
         /\ Cardinality(H) = 2
         /\ \A h \in H : Cardinality({h[1], h[2], h[3]}) = 3
         /\ CornersOf(H) = Corners(x, z, s)
<1> DEFINE a == Vertex(x, z)
           b == Vertex(x, z + s)
           c == Vertex(x + s, z + s)
           e == Vertex(x + s, z)
           L == Lower(x, z, s)
           U == Upper(x, z, s)
           H == {L, U}
<1>1. x \in 0 .. Side /\ x + s \in 0 .. Side /\ z + s \in Nat
  BY SidePositive
<1>2. /\ XOf(a) = x /\ ZOf(a) = z /\ XOf(b) = x /\ ZOf(b) = z + s
      /\ XOf(c) = x + s /\ ZOf(c) = z + s /\ XOf(e) = x + s /\ ZOf(e) = z
  BY <1>1, VertexLines
<1>3. L = <<a, b, c>> /\ U = <<a, c, e>>
  BY DEF Lower, Upper
<1> HIDE DEF a, b, c, e, L, U
<1>4. a # b /\ a # c /\ b # c /\ a # e /\ c # e /\ b # e
  BY <1>2
<1>5. /\ L[1] = a /\ L[2] = b /\ L[3] = c
      /\ U[1] = a /\ U[2] = c /\ U[3] = e
  BY <1>3
<1>6. Cardinality(H) = 2
  <2>1. L # U
    BY <1>4, <1>5
  <2>2. QED BY <2>1, PairSize
<1>7. ASSUME NEW h \in H PROVE Cardinality({h[1], h[2], h[3]}) = 3
  <2>1. CASE h = L
    <3>1. {h[1], h[2], h[3]} = {a, b, c}
      BY <1>5, <2>1
    <3>2. Cardinality({a, b, c}) = 3
      BY <1>4, TripleSize
    <3>3. QED BY <3>1, <3>2
  <2>2. CASE h = U
    <3>1. {h[1], h[2], h[3]} = {a, c, e}
      BY <1>5, <2>2
    <3>2. Cardinality({a, c, e}) = 3
      BY <1>4, TripleSize
    <3>3. QED BY <3>1, <3>2
  <2>3. QED BY <2>1, <2>2
<1>8. CornersOf(H) = Corners(x, z, s)
  <2>1. UNION {{t[1], t[2], t[3]} : t \in H} = {a, b, c, e}
    BY <1>5
  <2>2. CornersOf(H) = {<<XOf(v), ZOf(v)>> : v \in {a, b, c, e}}
    BY <2>1 DEF CornersOf
  <2>3. CornersOf(H) = {<<x, z>>, <<x, z + s>>, <<x + s, z + s>>, <<x + s, z>>}
    BY <1>2, <2>2
  <2>4. Corners(x, z, s) = {<<x, z>>, <<x, z + s>>, <<x + s, z + s>>, <<x + s, z>>}
    BY DEF Corners
  <2>5. QED BY <2>3, <2>4
<1>9. QED BY <1>6, <1>7, <1>8 DEF L, U

\* The triangles that begin at a corner are the two halves of one square.
LEMMA AtSquare ==
  ASSUME NEW n, NEW d, NEW m, Squared(n, d, m), NEW c \in 0 .. m - 1, NEW r \in 0 .. m - 1
  PROVE  LET T == Triangles(d, n)
             x == XAt(n, d, c)
             z == ZAt(n, d, r)
             first == 2 * (r * m + c) + 1
         IN  /\ {q \in DOMAIN T : XOf(T[q][1]) = x /\ ZOf(T[q][1]) = z} = {first, first + 1}
             /\ first # first + 1
             /\ T[first] = Lower(x, z, Width[d]) /\ T[first + 1] = Upper(x, z, Width[d])
<1> DEFINE T == Triangles(d, n)
           x == XAt(n, d, c)
           z == ZAt(n, d, r)
           w == r * m + c
           first == 2 * w + 1
<1>1. m \in Nat /\ m > 0 /\ r \in Nat /\ c \in Nat /\ DOMAIN T = 1 .. 2 * m * m
  <2>1. DOMAIN T = 1 .. 2 * m * m
    BY TrianglesAre
  <2>2. QED BY <2>1 DEF Squared
<1>2. w \in Nat /\ w + 1 <= m * m /\ w \div m = r /\ w % m = c
  <2>1. r * m + m <= m * m
    <3>1. (r + 1) * m <= m * m
      BY <1>1
    <3>2. (r + 1) * m = r * m + m
      BY <1>1
    <3>3. QED BY <3>1, <3>2
  <2>2. r * m \in Nat /\ m * m \in Nat
    BY <1>1
  <2>3. QED BY <1>1, <2>1, <2>2, DivMod
<1>3. \A q \in 1 .. 2 * m * m :
        /\ RowOf(m, q) \in 0 .. m - 1 /\ ColOf(m, q) \in 0 .. m - 1
        /\ (q - 1) \div 2 = RowOf(m, q) * m + ColOf(m, q)
        /\ T[q] = HalfAt(n, d, m, q)
  BY TrianglesAre
<1>4. ASSUME NEW q \in 1 .. 2 * m * m
      PROVE  XOf(T[q][1]) = XAt(n, d, ColOf(m, q)) /\ ZOf(T[q][1]) = ZAt(n, d, RowOf(m, q))
  <2>1. RowOf(m, q) \in 0 .. m - 1 /\ ColOf(m, q) \in 0 .. m - 1
    BY <1>3
  <2>2. T[q][1] = Vertex(XAt(n, d, ColOf(m, q)), ZAt(n, d, RowOf(m, q)))
    <3> HIDE DEF T
    <3>1. QED BY <1>3, HalfBegins
  <2> HIDE DEF T
  <2>3. /\ XAt(n, d, ColOf(m, q)) \in Nat /\ XAt(n, d, ColOf(m, q)) + Width[d] <= Side
        /\ ZAt(n, d, RowOf(m, q)) \in Nat /\ Width[d] \in Nat
    BY <2>1, SquareWithin, StepPositive DEF Squared
  <2>4. XAt(n, d, ColOf(m, q)) \in 0 .. Side
    BY <2>3, SidePositive
  <2>5. QED BY <2>2, <2>3, <2>4, VertexLines
<1>5. first \in 1 .. 2 * m * m /\ first + 1 \in 1 .. 2 * m * m
      /\ (first - 1) \div 2 = w /\ (first + 1 - 1) \div 2 = w
      /\ first % 2 = 1 /\ (first + 1) % 2 # 1
  <2>1. m * m \in Nat /\ 2 * m * m = 2 * (m * m)
    BY <1>1
  <2> HIDE DEF w
  <2>2. QED BY <1>2, <2>1
<1>6. RowOf(m, first) = r /\ ColOf(m, first) = c /\ RowOf(m, first + 1) = r /\ ColOf(m, first + 1) = c
  <2> HIDE DEF w, first
  <2>1. QED BY <1>2, <1>5 DEF RowOf, ColOf
<1>7. T[first] = Lower(x, z, Width[d]) /\ T[first + 1] = Upper(x, z, Width[d])
  <2> HIDE DEF T, first
  <2>1. QED BY <1>3, <1>5, <1>6 DEF HalfAt
<1>8. ASSUME NEW q \in 1 .. 2 * m * m
      PROVE  (XOf(T[q][1]) = x /\ ZOf(T[q][1]) = z) <=> q \in {first, first + 1}
  <2>1. q \in {first, first + 1} => XOf(T[q][1]) = x /\ ZOf(T[q][1]) = z
    <3> HIDE DEF T, first
    <3>1. QED BY <1>4, <1>6
  <2>2. ASSUME XOf(T[q][1]) = x, ZOf(T[q][1]) = z PROVE q \in {first, first + 1}
    <3>1. ColOf(m, q) = c /\ RowOf(m, q) = r
      <4> HIDE DEF T
      <4>1. RowOf(m, q) \in 0 .. m - 1 /\ ColOf(m, q) \in 0 .. m - 1
        BY <1>3
      <4>2. XAt(n, d, ColOf(m, q)) = XAt(n, d, c) /\ ZAt(n, d, RowOf(m, q)) = ZAt(n, d, r)
        BY <1>4, <2>2
      <4>3. QED BY <4>1, <4>2, ColumnsDiffer
    <3>2. (q - 1) \div 2 = w
      <4>1. QED BY <1>3, <3>1
    <3> HIDE DEF w
    <3>3. QED BY <1>2, <3>2
  <2>3. QED BY <2>1, <2>2
<1>9. first # first + 1
  <2> HIDE DEF w
  <2>1. QED BY <1>2
<1> HIDE DEF T, x, z, w
<1>10. {q \in DOMAIN T : XOf(T[q][1]) = x /\ ZOf(T[q][1]) = z} = {first, first + 1}
  BY <1>1, <1>5, <1>8
<1>11. QED BY <1>7, <1>9, <1>10 DEF T, x, z, w

\* Where the squares begin.
LEMMA StartsAre ==
  ASSUME NEW n, NEW d, NEW m, Squared(n, d, m)
  PROVE  LET T == Triangles(d, n) IN
         {<<XOf(T[q][1]), ZOf(T[q][1])>> : q \in DOMAIN T}
           = {<<XAt(n, d, c), ZAt(n, d, r)>> : c \in 0 .. m - 1, r \in 0 .. m - 1}
<1> DEFINE T == Triangles(d, n)
<1>1. ASSUME NEW q \in DOMAIN T
      PROVE  \E c \in 0 .. m - 1, r \in 0 .. m - 1 :
               <<XOf(T[q][1]), ZOf(T[q][1])>> = <<XAt(n, d, c), ZAt(n, d, r)>>
  <2>1. /\ q \in 1 .. 2 * m * m
        /\ RowOf(m, q) \in 0 .. m - 1 /\ ColOf(m, q) \in 0 .. m - 1
        /\ T[q] = HalfAt(n, d, m, q)
    BY TrianglesAre
  <2> HIDE DEF T
  <2>2. T[q][1] = Vertex(XAt(n, d, ColOf(m, q)), ZAt(n, d, RowOf(m, q)))
    BY <2>1, HalfBegins
  <2>3. /\ XAt(n, d, ColOf(m, q)) \in Nat /\ XAt(n, d, ColOf(m, q)) + Width[d] <= Side
        /\ ZAt(n, d, RowOf(m, q)) \in Nat /\ Width[d] \in Nat
    BY <2>1, SquareWithin, StepPositive DEF Squared
  <2>4. XAt(n, d, ColOf(m, q)) \in 0 .. Side
    BY <2>3, SidePositive
  <2>5. XOf(T[q][1]) = XAt(n, d, ColOf(m, q)) /\ ZOf(T[q][1]) = ZAt(n, d, RowOf(m, q))
    BY <2>2, <2>3, <2>4, VertexLines
  <2>6. QED BY <2>1, <2>5
<1>2. ASSUME NEW c \in 0 .. m - 1, NEW r \in 0 .. m - 1
      PROVE  \E q \in DOMAIN T :
               <<XOf(T[q][1]), ZOf(T[q][1])>> = <<XAt(n, d, c), ZAt(n, d, r)>>
  <2> DEFINE first == 2 * (r * m + c) + 1
  <2>1. {q \in DOMAIN T : XOf(T[q][1]) = XAt(n, d, c) /\ ZOf(T[q][1]) = ZAt(n, d, r)}
          = {first, first + 1}
    BY AtSquare
  <2> HIDE DEF T, first
  <2>2. QED BY <2>1
<1> HIDE DEF T
<1>3. {<<XOf(T[q][1]), ZOf(T[q][1])>> : q \in DOMAIN T}
        = {<<XAt(n, d, c), ZAt(n, d, r)>> : c \in 0 .. m - 1, r \in 0 .. m - 1}
  <2> DEFINE A == {<<XOf(T[q][1]), ZOf(T[q][1])>> : q \in DOMAIN T}
             B == {<<XAt(n, d, c), ZAt(n, d, r)>> : c \in 0 .. m - 1, r \in 0 .. m - 1}
  <2>1. ASSUME NEW a \in A PROVE a \in B
    <3>1. PICK q \in DOMAIN T : a = <<XOf(T[q][1]), ZOf(T[q][1])>>
      OBVIOUS
    <3>2. QED BY <1>1, <3>1
  <2>2. ASSUME NEW a \in B PROVE a \in A
    <3>1. PICK c \in 0 .. m - 1, r \in 0 .. m - 1 : a = <<XAt(n, d, c), ZAt(n, d, r)>>
      OBVIOUS
    <3>2. QED BY <1>2, <3>1
  <2>3. QED BY <2>1, <2>2
<1>4. QED BY <1>3 DEF T

\* Of m intervals of the length s, one after the other, exactly one has a.
InOne(a, from, s, m) ==
  \E c \in 0 .. m - 1 : \A e \in 0 .. m - 1 : a \in from + s * e .. from + s * e + s - 1 <=> e = c

\* A line of cells lies in one column of squares (and in one row).
LEMMA ColumnOf ==
  ASSUME NEW s \in Nat, s >= 1, NEW m \in Nat, NEW from \in Nat, NEW a \in from .. from + s * m - 1
  PROVE  InOne(a, from, s, m)
<1> DEFINE c == (a - from) \div s
           b == (a - from) % s
<1>1. s * m \in Nat
  OBVIOUS
<1>2. a - from \in Nat /\ a - from < s * m
  BY <1>1
<1>3. c \in Nat /\ b \in 0 .. s - 1 /\ a - from = c * s + b
  BY <1>2, DivModOf
<1> HIDE DEF c, b
<1>4. c \in 0 .. m - 1
  <2>1. SUFFICES ASSUME c >= m PROVE FALSE
    BY <1>3
  <2>2. c * s >= m * s
    BY <1>3, <2>1
  <2>3. QED BY <1>2, <1>3, <2>2
<1>5. ASSUME NEW e \in 0 .. m - 1
      PROVE  a \in from + s * e .. from + s * e + s - 1 <=> e = c
  <2>1. e \in Nat /\ s * e \in Nat /\ s * c \in Nat /\ s * c = c * s
    BY <1>3
  <2>2. ASSUME e = c PROVE a \in from + s * e .. from + s * e + s - 1
    <3>1. a = from + s * e + b
      BY <1>2, <1>3, <2>1, <2>2
    <3>2. QED BY <1>3, <2>1, <3>1
  <2>3. ASSUME a \in from + s * e .. from + s * e + s - 1 PROVE e = c
    <3>1. a - from - s * e \in 0 .. s - 1
      BY <2>1, <2>3
    <3> DEFINE y == a - from - s * e
    <3>2. y \in 0 .. s - 1 /\ a - from = e * s + y
      BY <1>2, <2>1, <3>1
    <3> HIDE DEF y
    <3>3. (e * s + y) \div s = e /\ (c * s + b) \div s = c
      BY <1>3, <2>1, <3>2, DivMod
    <3>4. QED BY <1>3, <3>2, <3>3
  <2>4. QED BY <2>2, <2>3
<1>6. QED BY <1>4, <1>5 DEF InOne

\* Every cell of the pitch lies in one square.
LEMMA CellOnce ==
  ASSUME NEW n, NEW d, NEW m, Squared(n, d, m), NEW cell \in CellsOf(n)
  PROVE  LET starts == {<<XAt(n, d, c), ZAt(n, d, r)>> : c \in 0 .. m - 1, r \in 0 .. m - 1} IN
         Cardinality({c \in starts : /\ cell[1] \in c[1] .. c[1] + Width[d] - 1
                                     /\ cell[2] \in c[2] .. c[2] + Width[d] - 1}) = 1
<1> DEFINE s == Width[d]
           starts == {<<XAt(n, d, c), ZAt(n, d, r)>> : c \in 0 .. m - 1, r \in 0 .. m - 1}
           Holds(c) == cell[1] \in c[1] .. c[1] + s - 1 /\ cell[2] \in c[2] .. c[2] + s - 1
<1>1. s \in Nat /\ s >= 1 /\ m \in Nat /\ n.left \in Nat /\ n.top \in Nat
      /\ n.right = n.left + s * m /\ n.bottom = n.top + s * m
  BY StepPositive DEF Squared
<1>2. cell[1] \in n.left .. n.left + s * m - 1 /\ cell[2] \in n.top .. n.top + s * m - 1
  BY <1>1 DEF CellsOf
<1> HIDE DEF s
<1>3. PICK x \in 0 .. m - 1 :
        \A e \in 0 .. m - 1 : cell[1] \in n.left + s * e .. n.left + s * e + s - 1 <=> e = x
  <2>1. InOne(cell[1], n.left, s, m)
    BY <1>1, <1>2, ColumnOf
  <2>2. QED BY <2>1 DEF InOne
<1>4. PICK z \in 0 .. m - 1 :
        \A e \in 0 .. m - 1 : cell[2] \in n.top + s * e .. n.top + s * e + s - 1 <=> e = z
  <2>1. InOne(cell[2], n.top, s, m)
    BY <1>1, <1>2, ColumnOf
  <2>2. QED BY <2>1 DEF InOne
<1>5. \A e \in 0 .. m - 1 : XAt(n, d, e) = n.left + s * e /\ ZAt(n, d, e) = n.top + s * e
  BY DEF XAt, ZAt, s
<1> DEFINE the == <<XAt(n, d, x), ZAt(n, d, z)>>
<1>6. the \in starts /\ Holds(the)
  BY <1>3, <1>4, <1>5
<1>7. ASSUME NEW c \in starts, Holds(c) PROVE c = the
  <2>1. PICK e \in 0 .. m - 1, f \in 0 .. m - 1 : c = <<XAt(n, d, e), ZAt(n, d, f)>>
    OBVIOUS
  <2>2. c[1] = n.left + s * e /\ c[2] = n.top + s * f
    BY <1>5, <2>1
  <2>3. e = x /\ f = z
    BY <1>3, <1>4, <1>7, <2>2
  <2>4. QED BY <2>1, <2>3
<1>8. {c \in starts : Holds(c)} = {the}
  <2> HIDE DEF the, starts, Holds
  <2>1. QED BY <1>6, <1>7
<1>9. Cardinality({the}) = 1
  BY FS_Singleton
<1>10. Cardinality({c \in starts : Holds(c)}) = 1
  <2> HIDE DEF the, starts, Holds
  <2>1. QED BY <1>8, <1>9
<1>11. QED BY <1>10 DEF s

\* A pitch inside the plane can be cut into the squares of any level up to its own.
LEMMA PitchSquared ==
  ASSUME IInv, NEW i \in final, NEW d \in 0 .. nodes[i].level
  PROVE  \E m : Squared(nodes[i], d, m)
<1> DEFINE n == nodes[i]
           l == n.level
           m == Width[l - d]
<1>1. Level \in Nat
  BY LevelAssumption
<1>2. i \in 0 .. tail - 1
  BY DEF IInv, TypeOK
<1>3. /\ l \in 1 .. Level /\ n.left \in Int /\ n.right \in Int /\ n.top \in Int /\ n.bottom \in Int
      /\ n.right = n.left + Width[l] /\ n.bottom = n.top + Width[l]
  BY <1>2 DEF IInv, TypeOK
<1>4. l \in 0 .. Level /\ d \in 0 .. l /\ d \in 0 .. Level /\ l - d \in 0 .. Level
  BY <1>1, <1>3
<1>5. Width[l] = Width[d] * m /\ m \in Nat \ {0} /\ Width[l] \in Nat /\ Width[l] >= 1
  BY <1>4, WidthRatio, StepPositive
<1>6. CellsOf(n) \subseteq Plane
  <2>1. i \in Leaves
    BY DEF Leaves
  <2>2. QED BY <2>1 DEF IInv, Tiling
<1>7. n.left \in Nat /\ n.right <= Side /\ n.top \in Nat /\ n.bottom <= Side
  <2> DEFINE a == <<n.left, n.top>>
             b == <<n.right - 1, n.bottom - 1>>
  <2>1. a \in CellsOf(n) /\ b \in CellsOf(n)
    BY <1>3, <1>5 DEF CellsOf
  <2>2. a \in Plane /\ b \in Plane
    BY <1>6, <2>1
  <2>3. QED BY <1>3, <2>2, SidePositive DEF Plane
<1> HIDE DEF n, l, m
<1>8. Squared(n, d, m)
  BY <1>3, <1>4, <1>5, <1>7 DEF Squared
<1>9. QED BY <1>8 DEF n

\* Whatever is kept is a pitch of squares.
LEMMA IndicesHold ==
  ASSUME IInv
  PROVE  IndicesCoverKept
<1> SUFFICES ASSUME NEW i \in final, NEW d \in 0 .. nodes[i].level
    PROVE LET n == nodes[i]
              T == Triangles(d, n)
              At(x, z) == {q \in DOMAIN T : XOf(T[q][1]) = x /\ ZOf(T[q][1]) = z}
              starts == {<<XOf(T[q][1]), ZOf(T[q][1])>> : q \in DOMAIN T}
          IN  /\ \A c \in starts :
                   LET halves == {T[q] : q \in At(c[1], c[2])}
                   IN  /\ Cardinality(At(c[1], c[2])) = 2 /\ Cardinality(halves) = 2
                       /\ \A h \in halves : Cardinality({h[1], h[2], h[3]}) = 3
                       /\ CornersOf(halves) = Corners(c[1], c[2], Width[d])
                       /\ Corners(c[1], c[2], Width[d])
                            \subseteq (n.left .. n.right) \X (n.top .. n.bottom)
              /\ \A cell \in CellsOf(n) :
                   Cardinality({c \in starts : /\ cell[1] \in c[1] .. c[1] + Width[d] - 1
                                               /\ cell[2] \in c[2] .. c[2] + Width[d] - 1}) = 1
  BY DEF IndicesCoverKept
<1> DEFINE n == nodes[i]
           T == Triangles(d, n)
           At(x, z) == {q \in DOMAIN T : XOf(T[q][1]) = x /\ ZOf(T[q][1]) = z}
           starts == {<<XOf(T[q][1]), ZOf(T[q][1])>> : q \in DOMAIN T}
<1>1. PICK m : Squared(n, d, m)
  BY PitchSquared
<1>2. starts = {<<XAt(n, d, c), ZAt(n, d, r)>> : c \in 0 .. m - 1, r \in 0 .. m - 1}
  BY <1>1, StartsAre
<1>3. ASSUME NEW c \in starts
      PROVE  LET halves == {T[q] : q \in At(c[1], c[2])}
             IN  /\ Cardinality(At(c[1], c[2])) = 2 /\ Cardinality(halves) = 2
                 /\ \A h \in halves : Cardinality({h[1], h[2], h[3]}) = 3
                 /\ CornersOf(halves) = Corners(c[1], c[2], Width[d])
                 /\ Corners(c[1], c[2], Width[d])
                      \subseteq (n.left .. n.right) \X (n.top .. n.bottom)
  <2>1. PICK e \in 0 .. m - 1, r \in 0 .. m - 1 : c = <<XAt(n, d, e), ZAt(n, d, r)>>
    <3> HIDE DEF starts
    <3>1. QED BY <1>2
  <2> DEFINE x == XAt(n, d, e)
             z == ZAt(n, d, r)
             s == Width[d]
             first == 2 * (r * m + e) + 1
             halves == {T[q] : q \in At(x, z)}
  <2>2. /\ At(x, z) = {first, first + 1} /\ first # first + 1
        /\ T[first] = Lower(x, z, s) /\ T[first + 1] = Upper(x, z, s)
    BY <1>1, AtSquare
  <2>3. /\ x \in Nat /\ n.left <= x /\ x + s <= n.right /\ x + s <= Side
        /\ z \in Nat /\ n.top <= z /\ z + s <= n.bottom /\ s \in Nat /\ s >= 1
        /\ n.left \in Int /\ n.right \in Int /\ n.top \in Int /\ n.bottom \in Int
    <3>1. d \in 0 .. Level
      BY <1>1 DEF Squared
    <3>2. s \in Nat /\ s >= 1
      BY <3>1, StepPositive
    <3>3. n.left \in Int /\ n.right \in Int /\ n.top \in Int /\ n.bottom \in Int
      BY <1>1, <3>2 DEF Squared
    <3> HIDE DEF n
    <3>4. QED BY <1>1, <3>2, <3>3, SquareWithin
  <2> HIDE DEF x, z, s, first, T, n
  <2>4. halves = {Lower(x, z, s), Upper(x, z, s)}
    <3> HIDE DEF At
    <3>1. QED BY <2>2
  <2>5. /\ Cardinality(halves) = 2
        /\ \A h \in halves : Cardinality({h[1], h[2], h[3]}) = 3
        /\ CornersOf(halves) = Corners(x, z, s)
    <3> HIDE DEF halves
    <3>1. QED BY <2>3, <2>4, Halves
  <2>6. Cardinality(At(x, z)) = 2
    <3> HIDE DEF At
    <3>1. Cardinality({first, first + 1}) = 2
      BY <2>2, PairSize
    <3>2. QED BY <2>2, <3>1
  <2>7. Corners(x, z, s) \subseteq (n.left .. n.right) \X (n.top .. n.bottom)
    BY <2>3 DEF Corners
  <2>8. c[1] = x /\ c[2] = z
    BY <2>1 DEF x, z
  <2>9. QED BY <2>5, <2>6, <2>7, <2>8 DEF s
<1>4. ASSUME NEW cell \in CellsOf(n)
      PROVE  Cardinality({c \in starts : /\ cell[1] \in c[1] .. c[1] + Width[d] - 1
                                         /\ cell[2] \in c[2] .. c[2] + Width[d] - 1}) = 1
  <2> HIDE DEF starts
  <2>1. QED BY <1>1, <1>2, CellOnce
<1> HIDE DEF n, At, starts
<1>5. QED BY <1>3, <1>4 DEF n, At, starts

\* InitPitchIndices covers a kept pitch at every coarseness up to its own level: each
\* cell lies in exactly one of the squares it writes, each square within the pitch, and
\* each has exactly two triangles, the halves of the square.
THEOREM KeptAreCovered == Spec => []IndicesCoverKept
<1>1. Spec => []IInv
  BY Paid, PTL
<1>2. IInv => IndicesCoverKept
  BY IndicesHold
<1>3. QED BY <1>1, <1>2, PTL
=============================================================================
