---------------------------- MODULE AstNodeProofs ----------------------------
(***************************************************************************)
(* The links of azer/base/tree_node.h stay consistent in every run of the  *)
(* calls the repository makes, for any set of nodes, until an attached     *)
(* node is attached again.  The invariant that is inductive is TreeInv,    *)
(* unless torn; the properties of AstNode follow from it.                  *)
(*                                                                         *)
(* First come facts about one link of the nodes, seen as a function from   *)
(* nodes to pointers: what Reaches and NoCycle mean when a link is         *)
(* followed, and which rewritings of a link cannot close a ring.  Then     *)
(* TreeInv and what follows from it alone.                                 *)
(*                                                                         *)
(* The second half reads the links as lists, for finitely many nodes: what *)
(* traverse() and find() answer, and that the lists are those of an        *)
(* ordered forest before and after every call.                             *)
(***************************************************************************)
EXTENDS AstNode, NaturalsInduction, WellFoundedInduction, FiniteSetTheorems,
        SequenceTheorems, TLAPS

\* The rewritings: the nodes of M point at p; n is put between the nodes of Q
\* and t, at which they pointed; n is taken out, past it point those of Q.
Redirected(link, M, p) == [x \in Nodes |-> IF x \in M THEN p ELSE link[x]]

Inserted(link, n, t, Q) ==
  [x \in Nodes |-> IF x = n THEN t ELSE IF x \in Q THEN n ELSE link[x]]

Removed(link, n, Q) ==
  [x \in Nodes |-> IF x = n THEN Null ELSE IF x \in Q THEN link[n] ELSE link[x]]

----------------------------------------------------------------------------
\* A node is met on the way from itself.
LEMMA ReachesSelf ==
  ASSUME NEW link, NEW a \in Nodes
  PROVE  Reaches(link, a, a)
BY NullIsNoNode DEF Reaches

\* The way to another node leads over the next node.
LEMMA ReachesNext ==
  ASSUME NEW link \in [Nodes -> Pointer], NEW a \in Nodes, NEW b \in Nodes,
         a # b, Reaches(link, a, b)
  PROVE  link[a] \in Nodes /\ Reaches(link, link[a], b)
<1>1. link[a] # Null
  <2>1. SUFFICES ASSUME link[a] = Null PROVE FALSE
    OBVIOUS
  <2>2. {a} \in SUBSET Nodes /\ Closed(link, {a})
    BY <2>1 DEF Closed
  <2>. QED BY <2>2 DEF Reaches
<1>2. link[a] \in Nodes
  BY <1>1 DEF Pointer
<1>3. ASSUME NEW S \in SUBSET Nodes, link[a] \in S, Closed(link, S)
      PROVE  b \in S
  <2>1. S \cup {a} \in SUBSET Nodes /\ Closed(link, S \cup {a})
    BY <1>3 DEF Closed
  <2>2. b \in S \cup {a}
    BY <2>1 DEF Reaches
  <2>. QED BY <2>2
<1>. QED BY <1>1, <1>2, <1>3 DEF Reaches

\* What is met from the next node is met from the node.
LEMMA ReachesFromNext ==
  ASSUME NEW link \in [Nodes -> Pointer], NEW a \in Nodes, NEW b \in Nodes,
         Reaches(link, link[a], b)
  PROVE  Reaches(link, a, b)
BY NullIsNoNode DEF Reaches, Closed

\* The next node of one that is met is met.
LEMMA ReachesOnward ==
  ASSUME NEW link \in [Nodes -> Pointer], NEW a \in Pointer, NEW b \in Nodes,
         Reaches(link, a, b), link[b] # Null
  PROVE  link[b] \in Nodes /\ Reaches(link, a, link[b])
<1>1. link[b] \in Nodes
  BY DEF Pointer
<1>2. ASSUME NEW S \in SUBSET Nodes, a \in S, Closed(link, S)
      PROVE  link[b] \in S
  <2>1. b \in S
    BY <1>2 DEF Reaches
  <2>. QED BY <1>2, <2>1 DEF Closed
<1>. QED BY <1>1, <1>2 DEF Reaches

\* A node that is met, other than the first, has a predecessor that is met.
LEMMA ReachesBack ==
  ASSUME NEW link \in [Nodes -> Pointer], NEW a \in Nodes, NEW b \in Nodes,
         a # b, Reaches(link, a, b)
  PROVE  \E z \in Nodes : link[z] = b /\ Reaches(link, a, z)
<1>1. SUFFICES ASSUME \A z \in Nodes : link[z] = b => ~Reaches(link, a, z)
               PROVE  FALSE
  OBVIOUS
<1>. DEFINE S == {z \in Nodes : z # b /\ Reaches(link, a, z)}
<1>2. a \in S
  BY ReachesSelf
<1>3. ASSUME NEW z \in S, link[z] # Null
      PROVE  link[z] \in S
  <2>1. link[z] \in Nodes /\ Reaches(link, a, link[z])
    BY <1>3, ReachesOnward DEF Pointer
  <2>. QED BY <1>1, <2>1
<1>4. S \in SUBSET Nodes /\ Closed(link, S)
  BY <1>3 DEF Closed
<1>5. b \in S
  <2>. HIDE DEF S
  <2>. QED BY <1>2, <1>4 DEF Reaches
<1>. QED BY <1>5

\* A set closed under a link holds all that is met from its members.
LEMMA ReachesStays ==
  ASSUME NEW link, NEW S \in SUBSET Nodes, NEW a \in S, NEW b,
         Closed(link, S), Reaches(link, a, b)
  PROVE  b \in S
BY DEF Reaches

\* Without a ring no way leads from a node back to it.
LEMMA NoReturn ==
  ASSUME NEW link \in [Nodes -> Pointer], NoCycle(link),
         NEW a \in Nodes, link[a] \in Nodes
  PROVE  ~Reaches(link, link[a], a)
<1>1. SUFFICES ASSUME Reaches(link, link[a], a) PROVE FALSE
  OBVIOUS
<1>. DEFINE S == {z \in Nodes : Reaches(link, link[a], z) /\ Reaches(link, z, a)}
<1>2. a \in S
  BY <1>1, ReachesSelf
<1>3. ASSUME NEW z \in S
      PROVE  link[z] \in S
  <2>1. CASE z = a
    BY <1>1, <2>1, ReachesSelf
  <2>2. CASE z # a
    <3>1. link[z] \in Nodes /\ Reaches(link, link[z], a)
      BY <2>2, ReachesNext
    <3>2. Reaches(link, link[a], link[z])
      BY <3>1, ReachesOnward, NullIsNoNode DEF Pointer
    <3>. QED BY <3>1, <3>2
  <2>. QED BY <2>1, <2>2
<1>4. S \in (SUBSET Nodes) \ {{}}
  BY <1>2
<1>. HIDE DEF S
<1>. QED BY <1>3, <1>4 DEF NoCycle

\* Pointing the nodes of M at p closes no ring when none of them is met from p.
LEMMA NoCycleRedirect ==
  ASSUME NEW link \in [Nodes -> Pointer], NoCycle(link),
         NEW M \in SUBSET Nodes, NEW p \in Pointer,
         \A m \in M : ~Reaches(link, p, m)
  PROVE  NoCycle(Redirected(link, M, p))
<1>. DEFINE new == Redirected(link, M, p)
<1>1. SUFFICES ASSUME NEW S \in (SUBSET Nodes) \ {{}}, \A x \in S : new[x] \in S
               PROVE  FALSE
  BY DEF NoCycle
<1>0. \A x \in Nodes : new[x] = IF x \in M THEN p ELSE link[x]
  BY DEF Redirected
<1>. HIDE DEF new
<1>. DEFINE T == {x \in S : p \in Nodes /\ Reaches(link, p, x)}
<1>2. CASE S \cap M = {}
  <2>1. \A x \in S : link[x] \in S
    BY <1>0, <1>1, <1>2
  <2>. QED BY <2>1 DEF NoCycle
<1>3. CASE S \cap M # {}
  <2>1. p \in S
    BY <1>0, <1>1, <1>3
  <2>2. p \in T
    BY <2>1, ReachesSelf
  <2>3. ASSUME NEW x \in T
        PROVE  link[x] \in T
    <3>1. x \notin M /\ x \in S
      OBVIOUS
    <3>2. link[x] \in S
      BY <1>0, <1>1, <3>1
    <3>3. Reaches(link, p, link[x])
      BY <3>2, ReachesOnward, NullIsNoNode
    <3>. QED BY <3>2, <3>3
  <2>4. T \in (SUBSET Nodes) \ {{}}
    BY <2>2
  <2>. HIDE DEF T
  <2>. QED BY <2>3, <2>4 DEF NoCycle
<1>. QED BY <1>2, <1>3

\* Putting an unmet node n between Q and t, where Q pointed, closes no ring.
LEMMA NoCycleInsert ==
  ASSUME NEW link \in [Nodes -> Pointer], NoCycle(link),
         NEW n \in Nodes, \A x \in Nodes : link[x] # n,
         NEW t \in Pointer, t # n,
         NEW Q \in SUBSET Nodes, \A x \in Q : link[x] = t
  PROVE  NoCycle(Inserted(link, n, t, Q))
<1>. DEFINE new == Inserted(link, n, t, Q)
<1>1. SUFFICES ASSUME NEW S \in (SUBSET Nodes) \ {{}}, \A x \in S : new[x] \in S
               PROVE  FALSE
  BY DEF NoCycle
<1>0. \A x \in Nodes : new[x] = IF x = n THEN t ELSE IF x \in Q THEN n ELSE link[x]
  BY DEF Inserted
<1>. HIDE DEF new
<1>. DEFINE T == S \ {n}
<1>2. n \in S => t \in S
  BY <1>0, <1>1
<1>3. ASSUME NEW x \in T PROVE link[x] \in T
  <2>1. CASE x \in Q
    BY <1>0, <1>1, <1>2, <2>1
  <2>2. CASE x \notin Q
    BY <1>0, <1>1, <2>2
  <2>. QED BY <2>1, <2>2
<1>4. T \in (SUBSET Nodes) \ {{}}
  BY <1>2
<1>. HIDE DEF T
<1>. QED BY <1>3, <1>4 DEF NoCycle

\* Taking n out of its list closes no ring: those that pointed at n point at
\* what n pointed at, and n points nowhere.
LEMMA NoCycleRemove ==
  ASSUME NEW link \in [Nodes -> Pointer], NoCycle(link), NEW n \in Nodes,
         NEW Q \in SUBSET Nodes, \A x \in Q : link[x] = n
  PROVE  NoCycle(Removed(link, n, Q))
<1>. DEFINE new == Removed(link, n, Q)
<1>1. SUFFICES ASSUME NEW S \in (SUBSET Nodes) \ {{}}, \A x \in S : new[x] \in S
               PROVE  FALSE
  BY DEF NoCycle
<1>0. \A x \in Nodes : new[x] = IF x = n THEN Null ELSE IF x \in Q THEN link[n] ELSE link[x]
  BY DEF Removed
<1>. HIDE DEF new
<1>2. n \notin S
  BY <1>0, <1>1, NullIsNoNode
<1>3. CASE S \cap Q = {}
  <2>1. \A x \in S : link[x] \in S
    BY <1>0, <1>1, <1>2, <1>3
  <2>. QED BY <2>1 DEF NoCycle
<1>4. CASE S \cap Q # {}
  <2>. DEFINE T == S \cup {n}
  <2>1. link[n] \in S
    BY <1>0, <1>1, <1>2, <1>4
  <2>2. \A x \in T : link[x] \in T
    BY <1>0, <1>1, <1>2, <2>1
  <2>3. T \in (SUBSET Nodes) \ {{}}
    OBVIOUS
  <2>. HIDE DEF T
  <2>. QED BY <2>2, <2>3 DEF NoCycle
<1>. QED BY <1>3, <1>4

----------------------------------------------------------------------------
\* The tree.

\* None of the four parts is preserved without the others: a new link closes
\* no ring only because lists have ends, lists have ends only because the
\* neighbours agree, and so on.
TreeInv == LinksTyped /\ LinkedBothWays /\ EndsMeet /\ NoRings

----------------------------------------------------------------------------
\* Facts about the tree that one state gives.

\* No list contains a node that has no previous sibling, except at its head.
LEMMA HeadIsNotMet ==
  ASSUME LinksTyped, LinkedBothWays, NEW n \in Nodes, prev_sibling[n] = Null
  PROVE  \A x \in Nodes : next_sibling[x] # n
BY NullIsNoNode DEF LinksTyped, LinkedBothWays

LEMMA EndIsNotMet ==
  ASSUME LinksTyped, LinkedBothWays, NEW n \in Nodes, next_sibling[n] = Null
  PROVE  \A x \in Nodes : prev_sibling[x] # n
BY NullIsNoNode DEF LinksTyped, LinkedBothWays

\* What stands in a chain is as parentless and as live as its head, and only
\* the head lacks a previous sibling.
LEMMA ChainOfHead ==
  ASSUME TreeInv, NEW h \in Nodes, ChainHead(h),
         NEW x \in Nodes, Reaches(next_sibling, h, x)
  PROVE  /\ parent[x] = Null
         /\ x \notin stale
         /\ x # h => prev_sibling[x] \in Nodes
         /\ x # h => Reaches(next_sibling, h, prev_sibling[x])
<1>. DEFINE S == {y \in Nodes : parent[y] = Null /\ y \notin stale}
<1>1. h \in S
  BY DEF ChainHead
<1>2. Closed(next_sibling, S)
  BY NullIsNoNode DEF TreeInv, LinksTyped, LinkedBothWays, EndsMeet, Closed, Pointer
<1>3. x \in S
  <2>. S \in SUBSET Nodes
    OBVIOUS
  <2>. HIDE DEF S
  <2>. QED BY <1>1, <1>2, ReachesStays
<1>4. ASSUME x # h
      PROVE  prev_sibling[x] \in Nodes /\ Reaches(next_sibling, h, prev_sibling[x])
  <2>1. next_sibling \in [Nodes -> Pointer]
    BY DEF TreeInv, LinksTyped
  <2>2. PICK z \in Nodes : next_sibling[z] = x /\ Reaches(next_sibling, h, z)
    BY <1>4, <2>1, ReachesBack
  <2>3. prev_sibling[x] = z
    BY <2>2, NullIsNoNode DEF TreeInv, LinkedBothWays
  <2>. QED BY <2>2, <2>3
<1>. QED BY <1>3, <1>4

\* Two chains with different heads have no node in common.
LEMMA ChainsApart ==
  ASSUME TreeInv, NEW h \in Nodes, ChainHead(h), NEW k \in Nodes, ChainHead(k),
         h # k, NEW x \in Nodes,
         Reaches(next_sibling, h, x)
  PROVE  ~Reaches(next_sibling, k, x)
<1>1. SUFFICES ASSUME Reaches(next_sibling, k, x) PROVE FALSE
  OBVIOUS
<1>. DEFINE W == {y \in Nodes : Reaches(next_sibling, h, y) /\ Reaches(next_sibling, k, y)}
<1>2. ASSUME NEW y \in W PROVE prev_sibling[y] \in W
  <2>1. CASE y = h
    <3>1. prev_sibling[y] \in Nodes
      BY <2>1, ChainOfHead
    <3>. QED BY <2>1, <3>1, NullIsNoNode DEF ChainHead
  <2>2. CASE y # h
    <3>1. prev_sibling[y] \in Nodes /\ Reaches(next_sibling, h, prev_sibling[y])
      BY <2>2, ChainOfHead
    <3>2. y # k
      BY <3>1, NullIsNoNode DEF ChainHead
    <3>3. Reaches(next_sibling, k, prev_sibling[y])
      BY <3>2, ChainOfHead
    <3>. QED BY <3>1, <3>3
  <2>. QED BY <2>1, <2>2
<1>3. W \in (SUBSET Nodes) \ {{}}
  BY <1>1
<1>. HIDE DEF W
<1>. QED BY <1>2, <1>3 DEF TreeInv, NoRings, NoCycle

\* Going back from a node of a chain one stays in the chain.
LEMMA ChainBackwards ==
  ASSUME TreeInv, NEW h \in Nodes, ChainHead(h), NEW x \in Nodes, NEW y \in Nodes,
         Reaches(next_sibling, h, x), Reaches(prev_sibling, x, y)
  PROVE  Reaches(next_sibling, h, y)
<1>. DEFINE T == {z \in Nodes : Reaches(next_sibling, h, z)}
<1>1. Closed(prev_sibling, T)
  <2>1. ASSUME NEW z \in T PROVE prev_sibling[z] \in T \cup {Null}
    <3>1. CASE z = h
      BY <3>1 DEF ChainHead
    <3>2. CASE z # h
      BY <3>2, ChainOfHead
    <3>. QED BY <3>1, <3>2
  <2>. QED BY <2>1 DEF Closed
<1>2. x \in T /\ T \in SUBSET Nodes
  OBVIOUS
<1>3. y \in T
  <2>. HIDE DEF T
  <2>. QED BY <1>1, <1>2, ReachesStays
<1>. QED BY <1>3

\* A way has one end.
LEMMA OneEnd ==
  ASSUME NEW link \in [Nodes -> Pointer], NEW a \in Nodes,
         NEW e \in Nodes, Reaches(link, a, e), link[e] = Null,
         NEW c \in Nodes, Reaches(link, a, c), link[c] = Null
  PROVE  e = c
<1>1. SUFFICES ASSUME e # c PROVE FALSE
  OBVIOUS
<1>. DEFINE S == {x \in Nodes : Reaches(link, x, e)}
<1>2. ASSUME NEW x \in S, link[x] # Null PROVE link[x] \in S
  <2>1. x # e
    BY <1>2
  <2>. QED BY <2>1, ReachesNext
<1>3. Closed(link, S) /\ a \in S /\ S \in SUBSET Nodes
  BY <1>2 DEF Closed
<1>4. c \in S
  <2>. HIDE DEF S
  <2>. QED BY <1>3, ReachesStays
<1>5. link[c] \in Nodes
  BY <1>1, <1>4, ReachesNext
<1>. QED BY <1>5, NullIsNoNode

----------------------------------------------------------------------------
LEMMA InitInv == TreeInit => TreeInv
<1>. SUFFICES ASSUME TreeInit PROVE TreeInv
  OBVIOUS
<1>1. LinksTyped /\ LinkedBothWays /\ EndsMeet
  BY DEF TreeInit, LinksTyped, LinkedBothWays, EndsMeet, Pointer
<1>2. NoRings
  BY NullIsNoNode DEF TreeInit, NoRings, NoCycle
<1>. QED BY <1>1, <1>2 DEF TreeInv

\* An appended child closes no ring, and its list has a new end.
LEMMA AddChildInv ==
  ASSUME TreeInv, NEW p \in Nodes, NEW n \in Nodes,
         p \notin stale, Loose(n), ~Reaches(parent, p, n), AddChild(p, n)
  PROVE  TreeInv'
<1>. USE NullIsNoNode
<1>1. p # n
  BY ReachesSelf
<1>2. LinksTyped'
  BY <1>1 DEF TreeInv, LinksTyped, AddChild, Pointer
<1>3. /\ parent[n] = Null
      /\ last_child[p] # Null => /\ last_child[p] \in Nodes
                                 /\ parent[last_child[p]] = p
                                 /\ next_sibling[last_child[p]] = Null
                                 /\ last_child[p] \notin stale
  BY DEF TreeInv, LinksTyped, EndsMeet, Loose, Pointer
<1>4. LinkedBothWays'
  BY <1>1, <1>3 DEF TreeInv, LinksTyped, LinkedBothWays, AddChild, Loose, Pointer
<1>5. EndsMeet'
  BY <1>1, <1>3 DEF TreeInv, LinksTyped, LinkedBothWays, EndsMeet, AddChild, Loose, Pointer
<1>6. NoCycle(parent')
  <2>1. parent' = Redirected(parent, {n}, p)
    BY DEF TreeInv, LinksTyped, AddChild, Redirected
  <2>. QED BY <2>1, NoCycleRedirect DEF TreeInv, LinksTyped, NoRings, Pointer
<1>7. NoCycle(next_sibling')
  <2>. DEFINE M == {x \in Nodes : x = last_child[p]}
  <2>1. \A m \in M : ~Reaches(next_sibling, n, m)
    <3>1. \A m \in Nodes : Reaches(next_sibling, n, m) => m = n
      BY ReachesNext DEF TreeInv, LinksTyped, Loose
    <3>. QED BY <1>3, <3>1
  <2>2. M \in SUBSET Nodes /\ next_sibling' = Redirected(next_sibling, M, n)
    BY DEF AddChild, Redirected
  <2>. HIDE DEF M
  <2>. QED BY <2>1, <2>2, NoCycleRedirect DEF TreeInv, LinksTyped, NoRings, Pointer
<1>8. NoCycle(prev_sibling')
  <2>1. ~Reaches(prev_sibling, last_child[p], n)
    <3>1. SUFFICES ASSUME Reaches(prev_sibling, last_child[p], n) PROVE FALSE
      OBVIOUS
    <3>2. last_child[p] \in Nodes /\ last_child[p] # n
      BY <1>3, <3>1 DEF Reaches
    <3>3. PICK z \in Nodes : prev_sibling[z] = n
      BY <3>1, <3>2, ReachesBack DEF TreeInv, LinksTyped
    <3>. QED BY <3>3, EndIsNotMet DEF TreeInv, Loose
  <2>2. prev_sibling' = Redirected(prev_sibling, {n}, last_child[p])
    BY DEF TreeInv, LinksTyped, AddChild, Redirected
  <2>. QED BY <2>1, <2>2, NoCycleRedirect DEF TreeInv, LinksTyped, NoRings
<1>9. NoRings'
  BY <1>6, <1>7, <1>8 DEF NoRings
<1>. QED BY <1>2, <1>4, <1>5, <1>9 DEF TreeInv

\* One chain behind another closes no ring: two chains share no node.
LEMMA AddSiblingInv ==
  ASSUME TreeInv, NEW this \in Nodes, NEW sibling \in Nodes,
         CanAddSibling(this, sibling), AddSibling(this, sibling)
  PROVE  TreeInv'
<1>. USE NullIsNoNode
<1>1. PICK e \in Nodes :
        /\ Reaches(next_sibling, this, e)
        /\ next_sibling[e] = Null
        /\ next_sibling' = [next_sibling EXCEPT ![e] = sibling]
        /\ prev_sibling' = [prev_sibling EXCEPT ![sibling] = e]
  BY DEF AddSibling
<1>2. /\ sibling # this
      /\ UNCHANGED <<parent, first_child, last_child, named, stale>>
      /\ ChainHead(this) /\ ChainHead(sibling)
  BY DEF AddSibling, CanAddSibling
<1>3. /\ parent[e] = Null /\ e \notin stale
      /\ parent[sibling] = Null /\ sibling \notin stale /\ prev_sibling[sibling] = Null
  BY <1>1, <1>2, ChainOfHead DEF ChainHead
<1>4. LinksTyped'
  BY <1>1, <1>2 DEF TreeInv, LinksTyped, Pointer
<1>5. LinkedBothWays'
  BY <1>1, <1>2, <1>3 DEF TreeInv, LinksTyped, LinkedBothWays, Pointer
<1>6. EndsMeet'
  BY <1>1, <1>2, <1>3 DEF TreeInv, LinksTyped, EndsMeet, Pointer
<1>7. NoCycle(parent')
  BY <1>2 DEF TreeInv, NoRings
<1>8. NoCycle(next_sibling')
  <2>1. next_sibling' = Redirected(next_sibling, {e}, sibling)
    BY <1>1 DEF TreeInv, LinksTyped, Redirected
  <2>2. ~Reaches(next_sibling, sibling, e)
    BY <1>1, <1>2, ChainsApart
  <2>. QED BY <2>1, <2>2, NoCycleRedirect DEF TreeInv, LinksTyped, NoRings, Pointer
<1>9. NoCycle(prev_sibling')
  <2>1. prev_sibling' = Redirected(prev_sibling, {sibling}, e)
    BY <1>1 DEF TreeInv, LinksTyped, Redirected
  <2>2. ~Reaches(prev_sibling, e, sibling)
    <3>1. SUFFICES ASSUME Reaches(prev_sibling, e, sibling) PROVE FALSE
      OBVIOUS
    <3>2. Reaches(next_sibling, this, sibling)
      BY <1>1, <1>2, <3>1, ChainBackwards
    <3>. QED BY <1>2, <1>3, <3>2, ChainOfHead
  <2>. QED BY <2>1, <2>2, NoCycleRedirect DEF TreeInv, LinksTyped, NoRings, Pointer
<1>10. NoRings'
  BY <1>7, <1>8, <1>9 DEF NoRings
<1>. QED BY <1>4, <1>5, <1>6, <1>10 DEF TreeInv

\* A whole chain under a parent: all of it changes its parent at once, and only
\* its end becomes the last child.
LEMMA AddChildrenInv ==
  ASSUME TreeInv, NEW p \in Nodes, NEW node \in Nodes,
         CanAddChildren(p, node), AddChildren(p, node)
  PROVE  TreeInv'
<1>. USE NullIsNoNode
<1>. DEFINE chain == {x \in Nodes : Reaches(next_sibling, node, x)}
<1>1. PICK e \in chain :
        /\ next_sibling[e] = Null
        /\ last_child' = [last_child EXCEPT ![p] = e]
  BY DEF AddChildren
<1>2. /\ parent' = [x \in Nodes |-> IF x \in chain THEN p ELSE parent[x]]
      /\ first_child' = [first_child EXCEPT ![p] = IF @ = Null THEN node ELSE @]
      /\ next_sibling' = [x \in Nodes |-> IF x = last_child[p] THEN node ELSE next_sibling[x]]
      /\ prev_sibling' = [prev_sibling EXCEPT ![node] = last_child[p]]
      /\ UNCHANGED <<named, stale>>
  BY DEF AddChildren
<1>3. p \notin stale /\ ChainHead(node) /\ \A x \in chain : ~Reaches(parent, p, x)
  BY DEF CanAddChildren
<1>4. node \in chain /\ p \notin chain
  BY <1>3, ReachesSelf
<1>5. \A x \in chain : /\ parent[x] = Null /\ x \notin stale
                       /\ x # node => prev_sibling[x] \in chain
  BY <1>3, ChainOfHead
<1>6. \A x \in chain : next_sibling[x] # Null => next_sibling[x] \in chain
  BY ReachesOnward DEF TreeInv, LinksTyped, Pointer
<1>7. \A x \in chain : next_sibling[x] = Null => x = e
  BY <1>1, OneEnd DEF TreeInv, LinksTyped
<1>8. last_child[p] # Null => /\ last_child[p] \in Nodes
                              /\ parent[last_child[p]] = p
                              /\ last_child[p] \notin chain
                              /\ next_sibling[last_child[p]] = Null
                              /\ last_child[p] \notin stale
  BY <1>3, <1>5 DEF TreeInv, LinksTyped, EndsMeet, Pointer
<1>9. chain \in SUBSET Nodes
  OBVIOUS
<1>10. prev_sibling[node] = Null
  BY <1>3 DEF ChainHead
<1>. HIDE DEF chain
<1>11. LinksTyped'
  BY <1>1, <1>2, <1>4, <1>9 DEF TreeInv, LinksTyped, Pointer
<1>12. LinkedBothWays'
  BY <1>2, <1>4, <1>5, <1>6, <1>8, <1>9, <1>10 DEF TreeInv, LinksTyped, LinkedBothWays, Pointer
<1>13. EndsMeet'
  BY <1>1, <1>2, <1>3, <1>4, <1>5, <1>6, <1>7, <1>8, <1>9, <1>10
     DEF TreeInv, LinksTyped, LinkedBothWays, EndsMeet, Pointer
<1>14. NoCycle(parent')
  <2>1. parent' = Redirected(parent, chain, p)
    BY <1>2 DEF Redirected
  <2>. QED BY <1>3, <1>9, <2>1, NoCycleRedirect DEF TreeInv, LinksTyped, NoRings, Pointer
<1>15. NoCycle(next_sibling')
  <2>. DEFINE M == {x \in Nodes : x = last_child[p]}
  <2>1. \A m \in M : ~Reaches(next_sibling, node, m)
    BY <1>8 DEF chain
  <2>2. M \in SUBSET Nodes /\ next_sibling' = Redirected(next_sibling, M, node)
    BY <1>2 DEF Redirected
  <2>. HIDE DEF M
  <2>. QED BY <2>1, <2>2, NoCycleRedirect DEF TreeInv, LinksTyped, NoRings, Pointer
<1>16. NoCycle(prev_sibling')
  <2>. DEFINE C == {x \in Nodes : parent[x] = p}
  <2>1. C \in SUBSET Nodes /\ Closed(prev_sibling, C) /\ node \notin C
    BY <1>4, <1>5 DEF TreeInv, LinksTyped, LinkedBothWays, Closed, Pointer
  <2>2. last_child[p] # Null => last_child[p] \in C
    BY <1>8
  <2>3. ~Reaches(prev_sibling, last_child[p], node)
    <3>. HIDE DEF C
    <3>. QED BY <2>1, <2>2 DEF Reaches
  <2>4. prev_sibling' = Redirected(prev_sibling, {node}, last_child[p])
    BY <1>2 DEF TreeInv, LinksTyped, Redirected
  <2>. QED BY <2>3, <2>4, NoCycleRedirect DEF TreeInv, LinksTyped, NoRings
<1>17. NoRings'
  BY <1>14, <1>15, <1>16 DEF NoRings
<1>. QED BY <1>11, <1>12, <1>13, <1>17 DEF TreeInv

\* The expression of a temporary node moves although it is not detached first:
\* it is the temporary's only child, so nothing live still points at it.
LEMMA AppendExpressionInv ==
  ASSUME TreeInv, NEW init \in Nodes, NEW tmp \in Nodes,
         CanAppendExpression(init, tmp), AppendExpression(init, tmp)
  PROVE  TreeInv'
<1>. USE NullIsNoNode
<1>. DEFINE e == first_child[tmp]
<1>1. /\ init # tmp /\ init \notin stale /\ parent[init] = Null
      /\ tmp \notin stale /\ parent[tmp] = Null
      /\ next_sibling[tmp] = Null /\ prev_sibling[tmp] = Null
      /\ last_child[tmp] = e
  BY DEF CanAppendExpression, ChainHead, Loose
<1>2. /\ parent' = [parent EXCEPT ![e] = init]
      /\ first_child' = [first_child EXCEPT ![init] = IF @ = Null THEN e ELSE @]
      /\ next_sibling' = [x \in Nodes |-> IF x = last_child[init] THEN e ELSE next_sibling[x]]
      /\ prev_sibling' = [prev_sibling EXCEPT ![e] = last_child[init]]
      /\ last_child' = [last_child EXCEPT ![init] = e]
      /\ stale' = stale \cup {tmp}
      /\ UNCHANGED named
  BY DEF AppendExpression
<1>3. /\ e \in Nodes /\ e \notin stale /\ parent[e] = tmp
      /\ next_sibling[e] = Null /\ prev_sibling[e] = Null
  BY <1>1 DEF AppendExpression, TreeInv, LinksTyped, EndsMeet, Pointer
<1>4. last_child[init] # Null => /\ last_child[init] \in Nodes
                                 /\ parent[last_child[init]] = init
                                 /\ next_sibling[last_child[init]] = Null
                                 /\ last_child[init] \notin stale
  BY <1>1 DEF TreeInv, LinksTyped, EndsMeet, Pointer
<1>. HIDE DEF e
\* e is the only child of tmp.
<1>5. \A c \in Nodes \ stale : parent[c] = tmp => c = e
  <2>. DEFINE S == {c \in Nodes \ stale : parent[c] = tmp /\ c # e}
  <2>1. \A c \in S : prev_sibling[c] # Null
    BY <1>1 DEF TreeInv, EndsMeet, e
  <2>2. \A c \in S : prev_sibling[c] \in S
    BY <2>1, <1>3 DEF TreeInv, LinksTyped, LinkedBothWays, EndsMeet, Pointer
  <2>3. S = {}
    <3>1. S \in SUBSET Nodes
      OBVIOUS
    <3>. HIDE DEF S
    <3>. QED BY <2>2, <3>1 DEF TreeInv, NoRings, NoCycle
  <2>. QED BY <2>3
<1>6. LinksTyped'
  BY <1>1, <1>2, <1>3 DEF TreeInv, LinksTyped, Pointer
<1>7. LinkedBothWays'
  BY <1>1, <1>2, <1>3, <1>4 DEF TreeInv, LinksTyped, LinkedBothWays, Pointer
<1>8. EndsMeet'
  BY <1>1, <1>2, <1>3, <1>4, <1>5 DEF TreeInv, LinksTyped, LinkedBothWays, EndsMeet, Pointer
<1>9. NoCycle(parent')
  <2>1. parent' = Redirected(parent, {e}, init)
    BY <1>2 DEF TreeInv, LinksTyped, Redirected
  <2>2. ~Reaches(parent, init, e)
    BY <1>1, <1>3, ReachesNext DEF TreeInv, LinksTyped
  <2>. QED BY <1>3, <2>1, <2>2, NoCycleRedirect DEF TreeInv, LinksTyped, NoRings, Pointer
<1>10. NoCycle(next_sibling')
  <2>. DEFINE M == {x \in Nodes : x = last_child[init]}
  <2>1. \A m \in M : ~Reaches(next_sibling, e, m)
    <3>1. \A m \in Nodes : Reaches(next_sibling, e, m) => m = e
      BY <1>3, ReachesNext DEF TreeInv, LinksTyped
    <3>. QED BY <1>1, <1>3, <1>4, <3>1
  <2>2. M \in SUBSET Nodes /\ next_sibling' = Redirected(next_sibling, M, e)
    BY <1>2 DEF Redirected
  <2>. HIDE DEF M
  <2>. QED BY <1>3, <2>1, <2>2, NoCycleRedirect DEF TreeInv, LinksTyped, NoRings, Pointer
<1>11. NoCycle(prev_sibling')
  <2>1. ~Reaches(prev_sibling, last_child[init], e)
    <3>1. SUFFICES ASSUME Reaches(prev_sibling, last_child[init], e) PROVE FALSE
      OBVIOUS
    <3>2. last_child[init] \in Nodes /\ last_child[init] # e
      BY <1>1, <1>3, <1>4, <3>1 DEF Reaches
    <3>3. PICK z \in Nodes : prev_sibling[z] = e
      BY <1>3, <3>1, <3>2, ReachesBack DEF TreeInv, LinksTyped
    <3>. QED BY <1>3, <3>3, EndIsNotMet DEF TreeInv
  <2>2. prev_sibling' = Redirected(prev_sibling, {e}, last_child[init])
    BY <1>2 DEF TreeInv, LinksTyped, Redirected
  <2>. QED BY <1>3, <2>1, <2>2, NoCycleRedirect DEF TreeInv, LinksTyped, NoRings
<1>12. NoRings'
  BY <1>9, <1>10, <1>11 DEF NoRings
<1>. QED BY <1>6, <1>7, <1>8, <1>12 DEF TreeInv

\* A loose node before an attached one.
LEMMA InsertBeforeInv ==
  ASSUME TreeInv, NEW n \in Nodes, NEW at \in Nodes,
         at \notin stale, parent[at] # Null, Loose(n), ~Reaches(parent, at, n),
         InsertBefore(n, at)
  PROVE  TreeInv'
<1>. USE NullIsNoNode
<1>1. /\ n \notin stale /\ parent[n] = Null
      /\ next_sibling[n] = Null /\ prev_sibling[n] = Null
  BY DEF Loose
<1>2. /\ n # at /\ parent[at] \in Nodes
      /\ ~Reaches(parent, parent[at], n)
      /\ parent[at] # n
  BY ReachesSelf, ReachesFromNext DEF TreeInv, LinksTyped, Pointer
<1>3. LinksTyped'
  BY <1>1, <1>2 DEF TreeInv, LinksTyped, EndsMeet, InsertBefore, Pointer
<1>4. LinkedBothWays'
  BY <1>1, <1>2 DEF TreeInv, LinksTyped, LinkedBothWays, InsertBefore, Pointer
<1>5. EndsMeet'
  BY <1>1, <1>2 DEF TreeInv, LinksTyped, LinkedBothWays, EndsMeet, InsertBefore, Pointer
<1>6. NoCycle(parent')
  <2>1. parent' = Redirected(parent, {n}, parent[at])
    BY DEF TreeInv, LinksTyped, InsertBefore, Redirected
  <2>. QED BY <1>2, <2>1, NoCycleRedirect DEF TreeInv, LinksTyped, NoRings
<1>7. NoCycle(next_sibling')
  <2>. DEFINE Q == {x \in Nodes : x = prev_sibling[at]}
  <2>1. /\ Q \in SUBSET Nodes
        /\ \A x \in Q : next_sibling[x] = at
        /\ \A x \in Nodes : next_sibling[x] # n
    BY <1>1 DEF TreeInv, LinksTyped, LinkedBothWays, Pointer
  <2>2. next_sibling' = Inserted(next_sibling, n, at, Q)
    BY DEF InsertBefore, Inserted
  <2>. HIDE DEF Q
  <2>. QED BY <1>2, <2>1, <2>2, NoCycleInsert DEF TreeInv, LinksTyped, NoRings, Pointer
<1>8. NoCycle(prev_sibling')
  <2>1. /\ \A x \in {at} : prev_sibling[x] = prev_sibling[at]
        /\ \A x \in Nodes : prev_sibling[x] # n
        /\ prev_sibling[at] # n
    BY <1>1 DEF TreeInv, LinksTyped, LinkedBothWays, Pointer
  <2>2. prev_sibling' = Inserted(prev_sibling, n, prev_sibling[at], {at})
    BY <1>2 DEF TreeInv, LinksTyped, InsertBefore, Inserted
  <2>. QED BY <2>1, <2>2, NoCycleInsert DEF TreeInv, LinksTyped, NoRings, Pointer
<1>9. NoRings'
  BY <1>6, <1>7, <1>8 DEF NoRings
<1>. QED BY <1>3, <1>4, <1>5, <1>9 DEF TreeInv

\* A loose node behind an attached one.
LEMMA InsertAfterInv ==
  ASSUME TreeInv, NEW n \in Nodes, NEW at \in Nodes,
         at \notin stale, parent[at] # Null, Loose(n), ~Reaches(parent, at, n),
         InsertAfter(n, at)
  PROVE  TreeInv'
<1>. USE NullIsNoNode
<1>1. /\ n \notin stale /\ parent[n] = Null
      /\ next_sibling[n] = Null /\ prev_sibling[n] = Null
  BY DEF Loose
<1>2. /\ n # at /\ parent[at] \in Nodes
      /\ ~Reaches(parent, parent[at], n)
      /\ parent[at] # n
  BY ReachesSelf, ReachesFromNext DEF TreeInv, LinksTyped, Pointer
<1>3. LinksTyped'
  BY <1>1, <1>2 DEF TreeInv, LinksTyped, EndsMeet, InsertAfter, Pointer
<1>4. LinkedBothWays'
  BY <1>1, <1>2 DEF TreeInv, LinksTyped, LinkedBothWays, InsertAfter, Pointer
<1>5. EndsMeet'
  BY <1>1, <1>2 DEF TreeInv, LinksTyped, LinkedBothWays, EndsMeet, InsertAfter, Pointer
<1>6. NoCycle(parent')
  <2>1. parent' = Redirected(parent, {n}, parent[at])
    BY DEF TreeInv, LinksTyped, InsertAfter, Redirected
  <2>. QED BY <1>2, <2>1, NoCycleRedirect DEF TreeInv, LinksTyped, NoRings
<1>7. NoCycle(next_sibling')
  <2>1. /\ \A x \in {at} : next_sibling[x] = next_sibling[at]
        /\ \A x \in Nodes : next_sibling[x] # n
        /\ next_sibling[at] # n
    BY <1>1 DEF TreeInv, LinksTyped, LinkedBothWays, Pointer
  <2>2. next_sibling' = Inserted(next_sibling, n, next_sibling[at], {at})
    BY <1>2 DEF TreeInv, LinksTyped, InsertAfter, Inserted
  <2>. QED BY <2>1, <2>2, NoCycleInsert DEF TreeInv, LinksTyped, NoRings, Pointer
<1>8. NoCycle(prev_sibling')
  <2>. DEFINE Q == {x \in Nodes : x = next_sibling[at]}
  <2>1. /\ Q \in SUBSET Nodes
        /\ \A x \in Q : prev_sibling[x] = at
        /\ \A x \in Nodes : prev_sibling[x] # n
    BY <1>1 DEF TreeInv, LinksTyped, LinkedBothWays, Pointer
  <2>2. prev_sibling' = Inserted(prev_sibling, n, at, Q)
    BY DEF InsertAfter, Inserted
  <2>. HIDE DEF Q
  <2>. QED BY <1>2, <2>1, <2>2, NoCycleInsert DEF TreeInv, LinksTyped, NoRings, Pointer
<1>9. NoRings'
  BY <1>6, <1>7, <1>8 DEF NoRings
<1>. QED BY <1>3, <1>4, <1>5, <1>9 DEF TreeInv

\* Brothers hang below the same nodes.
LEMMA BelowBrothers ==
  ASSUME LinksTyped, NEW n \in Nodes, NEW x \in Nodes, NEW y \in Nodes,
         x # n, y # n, parent[x] = parent[y], x \in Below(n)
  PROVE  y \in Below(n)
<1>1. Reaches(parent, parent[x], n)
  BY ReachesNext DEF LinksTyped, Below
<1>2. Reaches(parent, y, n)
  BY <1>1, ReachesFromNext DEF LinksTyped
<1>. QED BY <1>2 DEF Below

\* A removed node leaves both neighbours linked to each other, and what hung
\* below it is stale as a whole.
LEMMA RemoveChildInv ==
  ASSUME TreeInv, NEW p \in Nodes, NEW n \in Nodes,
         p \notin stale, n \notin stale, RemoveChild(p, n)
  PROVE  TreeInv'
<1>. USE NullIsNoNode
<1>1. /\ parent[n] = p
      /\ first_child' = [first_child EXCEPT
           ![p] = IF prev_sibling[n] = Null THEN next_sibling[n] ELSE @, ![n] = Null]
      /\ last_child' = [last_child EXCEPT
           ![p] = IF @ = n THEN prev_sibling[n] ELSE @, ![n] = Null]
      /\ next_sibling' = [x \in Nodes |->
           IF x = n THEN Null
           ELSE IF x = prev_sibling[n] THEN next_sibling[n] ELSE next_sibling[x]]
      /\ prev_sibling' = [x \in Nodes |->
           IF x = n THEN Null
           ELSE IF x = next_sibling[n] THEN prev_sibling[n] ELSE prev_sibling[x]]
      /\ parent' = [parent EXCEPT ![n] = Null]
      /\ named' = named \ {n}
      /\ stale' = stale \cup Below(n)
  BY DEF RemoveChild
<1>2. n # p /\ p \notin Below(n)
  BY <1>1, NoReturn, ReachesSelf DEF TreeInv, LinksTyped, NoRings, Below
<1>3. \A x \in Nodes \ {n} : parent[x] = p => x \notin Below(n)
  <2>1. SUFFICES ASSUME NEW x \in Nodes \ {n}, parent[x] = p, x \in Below(n)
                 PROVE  FALSE
    OBVIOUS
  <2>2. Reaches(parent, p, n)
    BY <2>1, ReachesNext DEF TreeInv, LinksTyped, Below
  <2>. QED BY <1>2, <2>2 DEF Below
<1>4. /\ \A x \in Nodes : parent[x] = n => x \in Below(n)
      /\ \A x \in Nodes \ {n} : parent[x] \in Below(n) => x \in Below(n)
  BY <1>1, <1>2, ReachesSelf, ReachesFromNext DEF TreeInv, LinksTyped, Below
<1>5. \A x, y \in Nodes \ {n} :
        parent[x] = parent[y] => (x \in Below(n) <=> y \in Below(n))
  BY BelowBrothers DEF TreeInv
<1>6. n \notin Below(n) /\ Below(n) \subseteq Nodes
  BY DEF Below
<1>7. /\ next_sibling[n] # n /\ prev_sibling[n] # n
      /\ next_sibling[n] # Null =>
           /\ next_sibling[n] \in Nodes /\ parent[next_sibling[n]] = p
           /\ prev_sibling[next_sibling[n]] = n /\ next_sibling[n] \notin stale
      /\ prev_sibling[n] # Null =>
           /\ prev_sibling[n] \in Nodes /\ parent[prev_sibling[n]] = p
           /\ next_sibling[prev_sibling[n]] = n /\ prev_sibling[n] \notin stale
  <2>1. \E x \in {n} : next_sibling[x] \notin {n}
    BY DEF TreeInv, NoRings, NoCycle
  <2>2. \E x \in {n} : prev_sibling[x] \notin {n}
    BY DEF TreeInv, NoRings, NoCycle
  <2>. QED BY <1>1, <2>1, <2>2 DEF TreeInv, LinksTyped, LinkedBothWays, EndsMeet, Pointer
<1>8. LinksTyped'
  <2>1. first_child'[p] = Null <=> last_child'[p] = Null
    BY <1>1, <1>2, <1>7 DEF TreeInv, LinksTyped, LinkedBothWays, EndsMeet, Pointer
  <2>. QED BY <1>1, <1>2, <1>6, <2>1 DEF TreeInv, LinksTyped, Pointer
<1>9. LinkedBothWays'
  BY <1>1, <1>7 DEF TreeInv, LinksTyped, LinkedBothWays, Pointer
<1>10. EndsMeet'
  <2>1. ASSUME NEW q \in Nodes, q \notin stale', first_child'[q] # Null
        PROVE  /\ parent'[first_child'[q]] = q
               /\ prev_sibling'[first_child'[q]] = Null
               /\ first_child'[q] \notin stale'
               /\ parent'[last_child'[q]] = q
               /\ next_sibling'[last_child'[q]] = Null
               /\ last_child'[q] \notin stale'
    <3>1. q # n
      BY <1>1, <1>2, <2>1 DEF TreeInv, LinksTyped
    <3>2. CASE q = p
      BY <1>1, <1>2, <1>3, <1>7, <1>8, <2>1, <3>2 DEF TreeInv, LinksTyped, LinkedBothWays, EndsMeet, Pointer
    <3>3. CASE q # p
      <4>1. /\ first_child'[q] = first_child[q] /\ last_child'[q] = last_child[q]
            /\ q \notin stale /\ q \notin Below(n)
            /\ first_child[q] \in Nodes /\ last_child[q] \in Nodes
        BY <1>1, <2>1, <3>1, <3>3 DEF TreeInv, LinksTyped, Pointer
      <4>2. /\ parent[first_child[q]] = q /\ prev_sibling[first_child[q]] = Null
            /\ parent[last_child[q]] = q /\ next_sibling[last_child[q]] = Null
            /\ first_child[q] \notin stale /\ last_child[q] \notin stale
        BY <2>1, <4>1 DEF TreeInv, EndsMeet
      <4>3. first_child[q] # n /\ last_child[q] # n
        BY <1>1, <3>3, <4>2
      <4>4. first_child[q] \notin Below(n) /\ last_child[q] \notin Below(n)
        <5>1. \A x \in Below(n) : Reaches(parent, parent[x], n)
          BY ReachesNext DEF TreeInv, LinksTyped, Below
        <5>. QED BY <3>1, <4>1, <4>2, <5>1 DEF Below
      <4>. QED BY <1>1, <1>7, <3>3, <4>1, <4>2, <4>3, <4>4 DEF TreeInv, LinksTyped
    <3>. QED BY <3>2, <3>3
  <2>2. ASSUME NEW c \in Nodes, c \notin stale', parent'[c] # Null
        PROVE  /\ parent'[c] \notin stale'
               /\ prev_sibling'[c] = Null => first_child'[parent'[c]] = c
               /\ next_sibling'[c] = Null => last_child'[parent'[c]] = c
    <3>1. /\ c # n /\ c \notin stale /\ c \notin Below(n)
          /\ parent'[c] = parent[c] /\ parent[c] \in Nodes
          /\ parent[c] # n /\ parent[c] \notin Below(n)
      BY <1>1, <1>4, <2>2 DEF TreeInv, LinksTyped, Pointer
    <3>2. /\ parent[c] \notin stale
          /\ prev_sibling[c] = Null => first_child[parent[c]] = c
          /\ next_sibling[c] = Null => last_child[parent[c]] = c
      BY <3>1 DEF TreeInv, EndsMeet
    <3>3. prev_sibling[n] = Null => first_child[p] = n
      BY <1>1, <1>2 DEF TreeInv, EndsMeet
    <3>4. next_sibling[n] = Null => last_child[p] = n
      BY <1>1, <1>2 DEF TreeInv, EndsMeet
    <3>5. last_child[p] = n => next_sibling[n] = Null
      BY <1>1 DEF TreeInv, LinksTyped, EndsMeet
    <3>. QED BY <1>1, <1>7, <3>1, <3>2, <3>3, <3>4, <3>5 DEF TreeInv, LinksTyped, Pointer
  <2>3. ASSUME NEW x \in Nodes, next_sibling'[x] # Null
        PROVE  x \in stale' <=> next_sibling'[x] \in stale'
    <3>1. CASE x = prev_sibling[n]
      BY <1>1, <1>3, <1>7, <2>3, <3>1
    <3>2. CASE x # prev_sibling[n]
      <4>1. /\ x # n /\ next_sibling'[x] = next_sibling[x]
            /\ next_sibling[x] \in Nodes /\ next_sibling[x] # n
            /\ parent[next_sibling[x]] = parent[x]
            /\ x \in stale <=> next_sibling[x] \in stale
        BY <1>1, <2>3, <3>2 DEF TreeInv, LinksTyped, LinkedBothWays, EndsMeet, Pointer
      <4>. QED BY <1>1, <1>5, <4>1
    <3>. QED BY <3>1, <3>2
  <2>. QED BY <2>1, <2>2, <2>3 DEF EndsMeet
<1>11. NoCycle(parent')
  <2>1. parent' = Redirected(parent, {n}, Null)
    BY <1>1 DEF TreeInv, LinksTyped, Redirected
  <2>2. ~Reaches(parent, Null, n)
    BY DEF Reaches
  <2>. QED BY <2>1, <2>2, NoCycleRedirect DEF TreeInv, LinksTyped, NoRings, Pointer
<1>12. NoCycle(next_sibling')
  <2>. DEFINE Q == {x \in Nodes : x = prev_sibling[n]}
  <2>1. Q \in SUBSET Nodes /\ \A x \in Q : next_sibling[x] = n
    BY <1>7
  <2>2. next_sibling' = Removed(next_sibling, n, Q)
    BY <1>1 DEF Removed
  <2>. HIDE DEF Q
  <2>. QED BY <2>1, <2>2, NoCycleRemove DEF TreeInv, LinksTyped, NoRings
<1>13. NoCycle(prev_sibling')
  <2>. DEFINE Q == {x \in Nodes : x = next_sibling[n]}
  <2>1. Q \in SUBSET Nodes /\ \A x \in Q : prev_sibling[x] = n
    BY <1>7
  <2>2. prev_sibling' = Removed(prev_sibling, n, Q)
    BY <1>1 DEF Removed
  <2>. HIDE DEF Q
  <2>. QED BY <2>1, <2>2, NoCycleRemove DEF TreeInv, LinksTyped, NoRings
<1>14. NoRings'
  BY <1>11, <1>12, <1>13 DEF NoRings
<1>. QED BY <1>8, <1>9, <1>10, <1>14 DEF TreeInv

----------------------------------------------------------------------------
\* The orderly calls keep TreeInv.
LEMMA CallInv == TreeInv /\ Calls => TreeInv'
<1>. SUFFICES ASSUME TreeInv, Calls PROVE TreeInv'
  OBVIOUS
<1>1. ASSUME NEW p \in Nodes, NEW n \in Nodes,
             p \notin stale, Loose(n), ~Reaches(parent, p, n), AddChild(p, n)
      PROVE  TreeInv'
  BY <1>1, AddChildInv
<1>2. ASSUME NEW p \in Nodes, NEW n \in Nodes,
             p \notin stale, n \notin stale, RemoveChild(p, n)
      PROVE  TreeInv'
  BY <1>2, RemoveChildInv
<1>3. ASSUME NEW n \in Nodes, NEW at \in Nodes,
             at \notin stale, parent[at] # Null, Loose(n), ~Reaches(parent, at, n),
             InsertBefore(n, at) \/ InsertAfter(n, at)
      PROVE  TreeInv'
  BY <1>3, InsertBeforeInv, InsertAfterInv
<1>4. ASSUME NEW this \in Nodes, NEW sibling \in Nodes,
             CanAddSibling(this, sibling), AddSibling(this, sibling)
      PROVE  TreeInv'
  BY <1>4, AddSiblingInv
<1>5. ASSUME NEW p \in Nodes, NEW node \in Nodes,
             CanAddChildren(p, node), AddChildren(p, node)
      PROVE  TreeInv'
  BY <1>5, AddChildrenInv
<1>6. ASSUME NEW init \in Nodes, NEW tmp \in Nodes,
             CanAppendExpression(init, tmp), AppendExpression(init, tmp)
      PROVE  TreeInv'
  BY <1>6, AppendExpressionInv
<1>. QED BY <1>1, <1>2, <1>3, <1>4, <1>5, <1>6 DEF Calls, TreeNext

\* Whatever node is handed over, the links still point to nodes, and a list that
\* gets one end gets both.
LEMMA AddChildrenTypes ==
  ASSUME LinksTyped, NEW p \in Nodes, NEW node \in Nodes, AddChildren(p, node)
  PROVE  LinksTyped'
<1>. USE NullIsNoNode
<1>. DEFINE chain == {x \in Nodes : Reaches(next_sibling, node, x)}
<1>1. PICK e \in chain : last_child' = [last_child EXCEPT ![p] = e]
  BY DEF AddChildren
<1>2. /\ parent' = [x \in Nodes |-> IF x \in chain THEN p ELSE parent[x]]
      /\ first_child' = [first_child EXCEPT ![p] = IF @ = Null THEN node ELSE @]
      /\ next_sibling' = [x \in Nodes |-> IF x = last_child[p] THEN node ELSE next_sibling[x]]
      /\ prev_sibling' = [prev_sibling EXCEPT ![node] = last_child[p]]
      /\ UNCHANGED <<named, stale>>
  BY DEF AddChildren
<1>3. e \in Nodes
  OBVIOUS
<1>. HIDE DEF chain
<1>. QED BY <1>1, <1>2, <1>3 DEF LinksTyped, Pointer

\* What every reachable state satisfies: nothing but the types once an attached node
\* has been attached again, and before that the whole of TreeInv.
AstInv == torn \in BOOLEAN /\ LinksTyped /\ (~torn => TreeInv)

LEMMA AstInitInv == AstInit => AstInv
BY InitInv DEF AstInit, AstInv, TreeInv

LEMMA TreeInvKept == TreeInv /\ UNCHANGED treeVars => TreeInv'
BY DEF treeVars, TreeInv, LinksTyped, LinkedBothWays, EndsMeet, NoRings, NoCycle

LEMMA StepInv == AstInv /\ [AstNext]_astVars => AstInv'
<1>. SUFFICES ASSUME AstInv, [AstNext]_astVars PROVE AstInv'
  OBVIOUS
<1>1. CASE ~torn /\ Calls /\ UNCHANGED torn
  BY <1>1, CallInv DEF AstInv, TreeInv
<1>2. ASSUME NEW f \in Nodes, NEW attr \in Nodes, ShareAttributes(f, attr)
      PROVE  AstInv'
  BY <1>2, AddChildrenTypes DEF AstInv, ShareAttributes
<1>3. ASSUME NEW st \in Nodes, NEW s \in Nodes, DeclareLocally(st, s)
      PROVE  AstInv'
  BY <1>3, AddChildrenTypes DEF AstInv, DeclareLocally
<1>4. CASE UNCHANGED astVars
  BY <1>4, TreeInvKept DEF astVars, treeVars, AstInv, LinksTyped
<1>. QED BY <1>1, <1>2, <1>3, <1>4 DEF AstNext

\* Every run keeps the links of all nodes consistent until an attached node is
\* attached again, by a list of fields with attributes or by a structure in a function.
THEOREM Invariance == AstSpec => []AstInv
BY AstInitInv, StepInv, PTL DEF AstSpec

\* The links are pointers to nodes, and a child list has two ends or none.
THEOREM TypeCorrect == AstSpec => []TypeOK
<1>1. AstInv => TypeOK
  BY DEF AstInv, TypeOK
<1>. QED BY <1>1, Invariance, PTL

\* Neighbours in a list know each other and share their parent, unless an attached
\* node has been attached again.
THEOREM NeighboursAgree == AstSpec => []SiblingLinks
<1>1. AstInv => SiblingLinks
  BY DEF AstInv, TreeInv, SiblingLinks
<1>. QED BY <1>1, Invariance, PTL

\* A parent knows the two ends of its list, and the ends know the parent, unless an
\* attached node has been attached again.
THEOREM EndsAgree == AstSpec => []ListEnds
<1>1. AstInv => ListEnds
  BY DEF AstInv, TreeInv, ListEnds
<1>. QED BY <1>1, Invariance, PTL

\* No call closes a ring, unless an attached node has been attached again: walks along
\* siblings and up to the root end.
THEOREM NeverARing == AstSpec => []Acyclic
<1>1. AstInv => Acyclic
  BY DEF AstInv, TreeInv, Acyclic
<1>. QED BY <1>1, Invariance, PTL

\* A node of p's list is a live child of p.
LEMMA ListedIsChild ==
  ASSUME TreeInv, NEW p \in Nodes \ stale, NEW c \in Listed(p)
  PROVE  c \in Nodes \ stale /\ parent[c] = p
<1>. USE NullIsNoNode
<1>. DEFINE S == {x \in Nodes \ stale : parent[x] = p}
<1>1. Closed(next_sibling, S)
  BY DEF TreeInv, LinksTyped, LinkedBothWays, EndsMeet, Closed, Pointer
<1>2. first_child[p] \in S
  BY DEF TreeInv, LinksTyped, EndsMeet, Listed, Reaches, Pointer
<1>3. c \in S
  <2>1. S \in SUBSET Nodes /\ Reaches(next_sibling, first_child[p], c)
    BY DEF Listed
  <2>. HIDE DEF S
  <2>. QED BY <1>1, <1>2, <2>1, ReachesStays
<1>. QED BY <1>3

\* A live child of p is in p's list: were some missing, each would have a
\* previous sibling that is missing too, and they would form a ring.
LEMMA ChildIsListed ==
  ASSUME TreeInv, NEW p \in Nodes \ stale, NEW c \in Nodes \ stale, parent[c] = p
  PROVE  c \in Listed(p)
<1>. USE NullIsNoNode
<1>. DEFINE Missing == {x \in Nodes \ stale : parent[x] = p /\ x \notin Listed(p)}
<1>1. ASSUME NEW x \in Missing PROVE prev_sibling[x] \in Missing
  <2>1. prev_sibling[x] # Null
    <3>1. SUFFICES ASSUME prev_sibling[x] = Null PROVE FALSE
      OBVIOUS
    <3>2. first_child[p] = x
      BY <3>1 DEF TreeInv, EndsMeet
    <3>. QED BY <3>2, ReachesSelf DEF Listed
  <2>. DEFINE y == prev_sibling[x]
  <2>2. y \in Nodes \ stale /\ parent[y] = p /\ next_sibling[y] = x
    BY <2>1 DEF TreeInv, LinksTyped, LinkedBothWays, EndsMeet, Pointer
  <2>3. y \notin Listed(p)
    <3>1. SUFFICES ASSUME Reaches(next_sibling, first_child[p], y) PROVE FALSE
      BY DEF Listed
    <3>2. next_sibling \in [Nodes -> Pointer] /\ first_child[p] \in Pointer /\ y \in Nodes
      BY <2>2 DEF TreeInv, LinksTyped
    <3>3. next_sibling[y] # Null /\ next_sibling[y] = x
      BY <2>2
    <3> HIDE DEF y
    <3>4. Reaches(next_sibling, first_child[p], x)
      BY <3>1, <3>2, <3>3, ReachesOnward
    <3>. QED BY <3>4 DEF Listed
  <2>. QED BY <2>2, <2>3
<1>2. Missing \in SUBSET Nodes
  OBVIOUS
<1>3. Missing = {}
  <2>. HIDE DEF Missing
  <2>. QED BY <1>1, <1>2 DEF TreeInv, NoRings, NoCycle
<1>. QED BY <1>3

\* Walking down and walking up agree, unless an attached node has been attached again:
\* the loop over p's children visits exactly the nodes whose parent() is p.
THEOREM DownAgreesWithUp == AstSpec => []ChildListsAgree
<1>1. AstInv => ChildListsAgree
  BY ListedIsChild, ChildIsListed DEF AstInv, ChildListsAgree
<1>. QED BY <1>1, Invariance, PTL

\* The assertion of traverse() only fails where an attached node has been attached
\* again; that it does fail there is what TLC finds.
THEOREM TraverseAssertsOnlyTorn == AstSpec => [](~torn => TraverseAssertion)
<1>1. AstInv => (~torn => TraverseAssertion)
  BY ListedIsChild DEF AstInv, TraverseAssertion
<1>. QED BY <1>1, Invariance, PTL

\* The DCHECKs in AddChild and RemoveChild hold as long as no attached node has been
\* attached again: a last child has no next sibling, and a child without a previous
\* sibling is the first one.
THEOREM ListAssertionsHold ==
  AstSpec => [](~torn => \A p, n \in Nodes \ stale :
                  /\ last_child[p] # Null => next_sibling[last_child[p]] = Null
                  /\ parent[n] = p /\ prev_sibling[n] = Null => first_child[p] = n)
<1>. DEFINE Hold == \A p, n \in Nodes \ stale :
                      /\ last_child[p] # Null => next_sibling[last_child[p]] = Null
                      /\ parent[n] = p /\ prev_sibling[n] = Null => first_child[p] = n
<1>1. AstInv => (~torn => Hold)
  BY NullIsNoNode DEF AstInv, TreeInv, LinksTyped, EndsMeet
<1>. QED BY <1>1, Invariance, PTL

----------------------------------------------------------------------------
\* Lists: what following a link from a pointer to the end meets, in order.

\* q is the list that starts at h.
IsList(link, h, q) ==
  /\ q \in Seq(Nodes)
  /\ IF h = Null THEN q = <<>> ELSE Len(q) > 0 /\ q[1] = h /\ link[q[Len(q)]] = Null
  /\ \A i \in 1 .. Len(q) - 1 : link[q[i]] = q[i + 1]

\* A list without its first node is the list of the next one.
LEMMA ListTail ==
  ASSUME NEW link \in [Nodes -> Pointer], NEW h \in Nodes, NEW q, IsList(link, h, q)
  PROVE  /\ Tail(q) \in Seq(Nodes) /\ q = <<h>> \o Tail(q) /\ Len(Tail(q)) = Len(q) - 1
         /\ IsList(link, link[h], Tail(q))
<1>1. q \in Seq(Nodes) /\ Len(q) \in Nat /\ Len(q) > 0 /\ q[1] = h /\ link[q[Len(q)]] = Null
      /\ DOMAIN q = 1 .. Len(q) /\ \A i \in 1 .. Len(q) - 1 : link[q[i]] = q[i + 1]
  BY NullIsNoNode DEF IsList
<1> DEFINE t == Tail(q)
<1>2. /\ t \in Seq(Nodes) /\ Len(t) = Len(q) - 1 /\ Len(t) \in Nat
      /\ \A i \in 1 .. Len(t) : t[i] = q[i + 1]
  <2>1. q # <<>>
    BY <1>1
  <2>2. QED BY <1>1, <2>1, HeadTailProperties
<1> HIDE DEF t
<1>3. q = <<h>> \o t
  <2>1. <<h>> \in Seq(Nodes) /\ Len(<<h>>) = 1 /\ <<h>>[1] = h
    OBVIOUS
  <2>2. /\ <<h>> \o t \in Seq(Nodes) /\ Len(<<h>> \o t) = 1 + Len(t)
        /\ \A i \in 1 .. 1 + Len(t) : (<<h>> \o t)[i] = IF i <= 1 THEN <<h>>[i] ELSE t[i - 1]
    BY <1>2, <2>1, ConcatProperties
  <2>3. ASSUME NEW i \in 1 .. Len(q) PROVE q[i] = (<<h>> \o t)[i]
    <3>1. CASE i = 1
      BY <1>1, <1>2, <2>1, <2>2, <3>1
    <3>2. CASE i # 1
      <4>1. i - 1 \in 1 .. Len(t) /\ ~(i <= 1) /\ i \in 1 .. 1 + Len(t) /\ (i - 1) + 1 = i
        BY <1>1, <1>2, <3>2
      <4>2. QED BY <1>2, <2>2, <4>1
    <3>3. QED BY <3>1, <3>2
  <2>4. Len(<<h>> \o t) = Len(q)
    BY <1>2, <2>2
  <2>5. QED BY <1>1, <2>2, <2>3, <2>4, SeqEqual
<1>4. IsList(link, link[h], t)
  <2>1. ASSUME NEW i \in 1 .. Len(t) - 1 PROVE link[t[i]] = t[i + 1]
    <3>1. i \in 1 .. Len(t) /\ i + 1 \in 1 .. Len(t) /\ i + 1 \in 1 .. Len(q) - 1
      BY <1>2
    <3>2. t[i] = q[i + 1] /\ t[i + 1] = q[(i + 1) + 1]
      BY <1>2, <3>1
    <3>3. QED BY <1>1, <3>1, <3>2
  <2>2. CASE link[h] = Null
    <3>1. Len(q) = 1
      <4>1. SUFFICES ASSUME Len(q) # 1 PROVE FALSE
        OBVIOUS
      <4>2. 1 \in 1 .. Len(q) - 1 /\ 2 \in 1 .. Len(q)
        BY <1>1, <4>1
      <4>3. link[h] = q[2] /\ q[2] \in Nodes
        BY <1>1, <4>2
      <4>4. QED BY <2>2, <4>3, NullIsNoNode
    <3>2. t = <<>>
      BY <1>2, <3>1, EmptySeq
    <3>3. QED BY <1>2, <2>1, <2>2, <3>2 DEF IsList
  <2>3. CASE link[h] # Null
    <3>1. Len(q) # 1
      BY <1>1, <2>3
    <3>2. 1 \in 1 .. Len(t) /\ 1 \in 1 .. Len(q) - 1 /\ Len(t) \in 1 .. Len(t) /\ Len(t) > 0
      BY <1>1, <1>2, <3>1
    <3>3. t[1] = q[2] /\ q[2] = link[h] /\ t[Len(t)] = q[Len(q)]
      BY <1>1, <1>2, <3>2
    <3>4. QED BY <1>1, <1>2, <2>1, <2>3, <3>2, <3>3 DEF IsList
  <2>4. QED BY <2>2, <2>3
<1>5. QED BY <1>2, <1>3, <1>4 DEF t

\* A node before a list is a list.
LEMMA ListCons ==
  ASSUME NEW link \in [Nodes -> Pointer], NEW h \in Nodes, NEW t, IsList(link, link[h], t)
  PROVE  IsList(link, h, <<h>> \o t)
<1> DEFINE q == <<h>> \o t
<1>1. t \in Seq(Nodes) /\ Len(t) \in Nat
  BY DEF IsList
<1>2. <<h>> \in Seq(Nodes) /\ Len(<<h>>) = 1 /\ <<h>>[1] = h
  OBVIOUS
<1>3. /\ q \in Seq(Nodes) /\ Len(q) = 1 + Len(t)
      /\ \A i \in 1 .. 1 + Len(t) : q[i] = IF i <= 1 THEN <<h>>[i] ELSE t[i - 1]
  BY <1>1, <1>2, ConcatProperties
<1> HIDE DEF q
<1>4. q[1] = h /\ \A i \in 1 .. Len(t) : q[i + 1] = t[i]
  <2>1. q[1] = h
    BY <1>1, <1>2, <1>3
  <2>2. ASSUME NEW i \in 1 .. Len(t) PROVE q[i + 1] = t[i]
    <3>1. i + 1 \in 1 .. 1 + Len(t) /\ ~(i + 1 <= 1) /\ (i + 1) - 1 = i
      BY <1>1
    <3>2. QED BY <1>3, <3>1
  <2>3. QED BY <2>1, <2>2
<1>5. CASE link[h] = Null
  <2>1. t = <<>> /\ Len(t) = 0
    BY <1>5 DEF IsList
  <2>2. QED BY <1>3, <1>4, <1>5, <2>1, NullIsNoNode DEF q, IsList
<1>6. CASE link[h] # Null
  <2>1. Len(t) > 0 /\ t[1] = link[h] /\ link[t[Len(t)]] = Null
        /\ \A i \in 1 .. Len(t) - 1 : link[t[i]] = t[i + 1]
    BY <1>6 DEF IsList
  <2>2. q[Len(q)] = t[Len(t)]
    BY <1>1, <1>3, <1>4, <2>1
  <2>3. ASSUME NEW i \in 1 .. Len(q) - 1 PROVE link[q[i]] = q[i + 1]
    <3>1. CASE i = 1
      BY <1>1, <1>3, <1>4, <2>1, <3>1
    <3>2. CASE i # 1
      <4>1. i - 1 \in 1 .. Len(t) - 1 /\ i - 1 \in 1 .. Len(t) /\ i \in 1 .. Len(t)
            /\ (i - 1) + 1 = i
        BY <1>1, <1>3, <3>2
      <4>2. q[i] = t[i - 1] /\ q[i + 1] = t[i] /\ link[t[i - 1]] = t[i]
        BY <1>4, <2>1, <4>1
      <4>3. QED BY <4>2
    <3>3. QED BY <3>1, <3>2
  <2>4. Len(q) > 0
    BY <1>1, <1>3
  <2>5. QED BY <1>3, <1>4, <2>1, <2>2, <2>3, <2>4, NullIsNoNode DEF q, IsList
<1>7. QED BY <1>5, <1>6

\* Without a ring every pointer starts exactly one list: it holds the nodes that are met
\* from there, each once.
LEMMA ListExists ==
  ASSUME NEW link \in [Nodes -> Pointer], NoCycle(link)
  PROVE  \A h \in Pointer : \E q : IsList(link, h, q)
<1>1. IsList(link, Null, <<>>)
  BY DEF IsList
<1> DEFINE S == {x \in Nodes : \A q : ~IsList(link, x, q)}
<1>2. ASSUME NEW x \in S PROVE link[x] \in S
  <2>1. \A q : ~IsList(link, link[x], q)
    BY <1>2, ListCons
  <2>2. QED BY <1>1, <2>1 DEF Pointer
<1>3. S = {}
  <2>1. S \in SUBSET Nodes
    OBVIOUS
  <2> HIDE DEF S
  <2>2. QED BY <1>2, <2>1 DEF NoCycle
<1>4. QED BY <1>1, <1>3 DEF Pointer

\* A pointer has one list.
LEMMA ListUnique ==
  ASSUME NEW link \in [Nodes -> Pointer], NoCycle(link), NEW h \in Pointer,
         NEW q, IsList(link, h, q), NEW r, IsList(link, h, r)
  PROVE  q = r
<1> DEFINE S == {x \in Nodes : \E s, t : IsList(link, x, s) /\ IsList(link, x, t) /\ s # t}
<1>1. ASSUME NEW x \in S PROVE link[x] \in S
  <2>1. PICK s, t : IsList(link, x, s) /\ IsList(link, x, t) /\ s # t
    BY <1>1
  <2>2. /\ s = <<x>> \o Tail(s) /\ IsList(link, link[x], Tail(s))
        /\ t = <<x>> \o Tail(t) /\ IsList(link, link[x], Tail(t))
    BY <2>1, ListTail
  <2>3. Tail(s) # Tail(t)
    BY <2>1, <2>2
  <2>4. link[x] # Null
    BY <2>2, <2>3 DEF IsList
  <2>5. link[x] \in Nodes
    BY <2>4 DEF Pointer
  <2>6. QED BY <2>2, <2>3, <2>5
<1>2. S = {}
  <2>1. S \in SUBSET Nodes
    OBVIOUS
  <2> HIDE DEF S
  <2>2. QED BY <1>1, <2>1 DEF NoCycle
<1>3. CASE h = Null
  BY <1>3 DEF IsList
<1>4. CASE h # Null
  BY <1>2, <1>4 DEF Pointer
<1>5. QED BY <1>3, <1>4

\* One more node in front of a sequence.
LEMMA ConsSet ==
  ASSUME NEW h \in Nodes, NEW t \in Seq(Nodes)
  PROVE  /\ ToSet(<<h>> \o t) = {h} \cup ToSet(t)
         /\ h \notin ToSet(t) /\ IsInjective(t) => IsInjective(<<h>> \o t)
<1>1. <<h>> \in Seq(Nodes) /\ Len(<<h>>) = 1 /\ <<h>>[1] = h /\ Len(t) \in Nat
      /\ DOMAIN t = 1 .. Len(t)
  OBVIOUS
<1> DEFINE q == <<h>> \o t
<1>2. /\ DOMAIN q = 1 .. 1 + Len(t)
      /\ \A i \in 1 .. 1 + Len(t) : q[i] = IF i <= 1 THEN <<h>>[i] ELSE t[i - 1]
  BY <1>1, ConcatProperties
<1> HIDE DEF q
<1>3. q[1] = h /\ 1 \in DOMAIN q /\ \A i \in 1 .. Len(t) : q[i + 1] = t[i] /\ i + 1 \in DOMAIN q
  <2>1. q[1] = h /\ 1 \in DOMAIN q
    BY <1>1, <1>2
  <2>2. ASSUME NEW i \in 1 .. Len(t) PROVE q[i + 1] = t[i] /\ i + 1 \in DOMAIN q
    <3>1. i + 1 \in 1 .. 1 + Len(t) /\ ~(i + 1 <= 1) /\ (i + 1) - 1 = i
      BY <1>1
    <3>2. QED BY <1>2, <3>1
  <2>3. QED BY <2>1, <2>2
<1>4. \A i \in DOMAIN q : i = 1 \/ (i - 1 \in DOMAIN t /\ q[i] = t[i - 1])
  BY <1>1, <1>2
<1>5. ToSet(q) \subseteq {h} \cup ToSet(t)
  BY <1>3, <1>4 DEF ToSet
<1>6. h \in ToSet(q)
  BY <1>3, Zenon DEF ToSet
<1>7. ToSet(t) \subseteq ToSet(q)
  <2>1. \A i \in DOMAIN t : q[i + 1] = t[i] /\ i + 1 \in DOMAIN q
    BY <1>1, <1>3
  <2>2. QED BY <2>1, Zenon DEF ToSet
<1>8. ASSUME h \notin ToSet(t), IsInjective(t), NEW i \in DOMAIN q, NEW j \in DOMAIN q, q[i] = q[j]
      PROVE  i = j
  <2>1. \A k \in DOMAIN t : t[k] # h
    BY <1>8, Zenon DEF ToSet
  <2>2. CASE i = 1 /\ j # 1
    BY <1>3, <1>4, <1>8, <2>1, <2>2
  <2>3. CASE j = 1 /\ i # 1
    BY <1>3, <1>4, <1>8, <2>1, <2>3
  <2>4. CASE i # 1 /\ j # 1
    <3>1. i - 1 \in DOMAIN t /\ j - 1 \in DOMAIN t /\ t[i - 1] = t[j - 1]
      BY <1>4, <1>8, <2>4
    <3>2. i - 1 = j - 1
      BY <1>8, <3>1 DEF IsInjective
    <3>3. QED BY <1>2, <3>2
  <2>5. QED BY <2>2, <2>3, <2>4
<1>9. QED BY <1>5, <1>6, <1>7, <1>8 DEF q, IsInjective

\* A list holds every node on the way, each of them once.
LEMMA ListHolds ==
  ASSUME NEW link \in [Nodes -> Pointer], NoCycle(link), NEW h \in Pointer,
         NEW q, IsList(link, h, q)
  PROVE  /\ IsInjective(q)
         /\ ToSet(q) = {x \in Nodes : Reaches(link, h, x)}
<1> DEFINE Fits(x, s) == IsInjective(s) /\ ToSet(s) = {y \in Nodes : Reaches(link, x, y)}
           S == {x \in Nodes : \E s : IsList(link, x, s) /\ ~Fits(x, s)}
<1>1. Fits(Null, <<>>)
  <2>1. DOMAIN <<>> = {}
    OBVIOUS
  <2>2. QED BY <2>1 DEF IsInjective, ToSet, Reaches
<1>2. ASSUME NEW x \in S PROVE link[x] \in S
  <2>1. PICK s : IsList(link, x, s) /\ ~Fits(x, s)
    BY <1>2
  <2>2. Tail(s) \in Seq(Nodes) /\ s = <<x>> \o Tail(s) /\ IsList(link, link[x], Tail(s))
    BY <2>1, ListTail
  <2>3. ASSUME Fits(link[x], Tail(s)) PROVE FALSE
    <3>1. {y \in Nodes : Reaches(link, x, y)} = {x} \cup {y \in Nodes : Reaches(link, link[x], y)}
      <4>1. ASSUME NEW y \in Nodes PROVE Reaches(link, x, y) <=> y = x \/ Reaches(link, link[x], y)
        <5>1. Reaches(link, x, x)
          BY ReachesSelf
        <5>2. x # y /\ Reaches(link, x, y) => Reaches(link, link[x], y)
          BY ReachesNext
        <5>3. Reaches(link, link[x], y) => Reaches(link, x, y)
          BY ReachesFromNext
        <5>4. QED BY <5>1, <5>2, <5>3
      <4>2. QED BY <4>1
    <3>2. x \notin ToSet(Tail(s))
      <4>1. ASSUME Reaches(link, link[x], x) PROVE FALSE
        <5>1. link[x] \in Nodes
          BY <4>1 DEF Reaches, Pointer
        <5>2. QED BY <4>1, <5>1, NoReturn
      <4>2. QED BY <2>3, <4>1
    <3>3. ToSet(<<x>> \o Tail(s)) = {x} \cup ToSet(Tail(s)) /\ IsInjective(<<x>> \o Tail(s))
      BY <2>2, <2>3, <3>2, ConsSet
    <3>4. Fits(x, s)
      BY <2>2, <2>3, <3>1, <3>3
    <3>5. QED BY <2>1, <3>4
  <2>4. link[x] # Null
    <3>1. link[x] = Null => Tail(s) = <<>>
      BY <2>2 DEF IsList
    <3> HIDE DEF Fits
    <3>2. QED BY <1>1, <2>3, <3>1
  <2>5. link[x] \in Nodes
    BY <2>4 DEF Pointer
  <2> HIDE DEF Fits
  <2>6. QED BY <2>2, <2>3, <2>5
<1> HIDE DEF Fits
<1>3. S = {}
  <2>1. S \in SUBSET Nodes
    OBVIOUS
  <2> HIDE DEF S
  <2>2. QED BY <1>2, <2>1 DEF NoCycle
<1>4. CASE h = Null
  <2>1. q = <<>>
    BY <1>4 DEF IsList
  <2>2. QED BY <1>1, <1>4, <2>1 DEF Fits
<1>5. CASE h # Null
  <2>1. Fits(h, q)
    BY <1>3, <1>5 DEF Pointer
  <2>2. QED BY <2>1 DEF Fits
<1>6. QED BY <1>4, <1>5

----------------------------------------------------------------------------
\* Recursive functions: they exist, and the list they compute is the list.

\* Induction on the numbers: every set of them has a least.
LEMMA Least ==
  ASSUME NEW T \in SUBSET Nat, T # {}
  PROVE  \E m \in T : \A n \in T : m <= n
<1>1. IsWellFoundedOn(OpToRel(<, Nat), Nat)
  BY NatLessThanWellFounded
<1>2. PICK m \in T : \A n \in T : ~(<<n, m>> \in OpToRel(<, Nat))
  BY <1>1, WFMin
<1>3. ASSUME NEW n \in T PROVE m <= n
  <2>1. m \in Nat /\ n \in Nat
    OBVIOUS
  <2>2. ~(n < m)
    BY <1>2, <2>1 DEF OpToRel
  <2>3. QED BY <2>1, <2>2
<1>4. QED BY <1>3

\* g lists what comes of applying F to a up to n times over.
Repeats(g, S, F, a, n) ==
  g \in [0 .. n -> S] /\ g[0] = a /\ \A k \in 1 .. n : g[k] = F[g[k - 1]]

\* F can be applied n times.
LEMMA Repeated ==
  ASSUME NEW S, NEW F \in [S -> S], NEW a \in S, NEW n \in Nat
  PROVE  \E g : Repeats(g, S, F, a, n)
<1> DEFINE Right(g, m) == g[0] = a /\ \A k \in 1 .. m : g[k] = F[g[k - 1]]
           Done(m) == \E g \in [0 .. n -> S] : Right(g, m)
           T == {m \in 0 .. n : ~Done(m)}
<1>1. Done(0)
  <2>1. Right([i \in 0 .. n |-> a], 0)
    OBVIOUS
  <2>2. QED BY <2>1
<1>2. ASSUME NEW m \in 1 .. n, Done(m - 1) PROVE Done(m)
  <2>1. PICK g \in [0 .. n -> S] : Right(g, m - 1)
    BY <1>2
  <2> DEFINE h == [i \in 0 .. n |-> IF i = m THEN F[g[m - 1]] ELSE g[i]]
  <2>2. h \in [0 .. n -> S] /\ \A i \in 0 .. n : h[i] = IF i = m THEN F[g[m - 1]] ELSE g[i]
    OBVIOUS
  <2> HIDE DEF h
  <2>3. h[0] = a
    BY <2>1, <2>2
  <2>4. ASSUME NEW k \in 1 .. m PROVE h[k] = F[h[k - 1]]
    <3>1. k \in 0 .. n /\ k - 1 \in 0 .. n /\ k - 1 # m /\ h[k - 1] = g[k - 1]
      BY <2>2
    <3>2. CASE k = m
      BY <2>2, <3>1, <3>2
    <3>3. CASE k # m
      <4>1. k \in 1 .. m - 1
        BY <3>3
      <4>2. QED BY <2>1, <2>2, <3>1, <3>3, <4>1
    <3>4. QED BY <3>2, <3>3
  <2>5. QED BY <2>2, <2>3, <2>4
<1> HIDE DEF Done
<1>3. T = {}
  <2>1. SUFFICES ASSUME T # {} PROVE FALSE
    OBVIOUS
  <2>2. PICK m \in T : \A k \in T : m <= k
    <3>1. T \in SUBSET Nat
      OBVIOUS
    <3> HIDE DEF T
    <3>2. QED BY <2>1, <3>1, Least
  <2>3. m \in 1 .. n /\ m - 1 \in 0 .. n
    BY <1>1
  <2>4. m - 1 \notin T
    <3> HIDE DEF T
    <3>1. QED BY <2>2, <2>3
  <2>5. QED BY <1>2, <2>3, <2>4
<1>4. Done(n)
  BY <1>3
<1>5. QED BY <1>4 DEF Done, Repeats

\* A list without repetitions has no more places than there are nodes.
LEMMA ListFits ==
  ASSUME IsFiniteSet(Nodes), NEW q \in Seq(Nodes), IsInjective(q)
  PROVE  Len(q) <= Cardinality(Nodes)
<1>1. Len(q) \in Nat /\ q \in [1 .. Len(q) -> Nodes]
  OBVIOUS
<1>2. q \in Injection(1 .. Len(q), Nodes)
  BY <1>1 DEF Injection
<1>3. Cardinality(1 .. Len(q)) <= Cardinality(Nodes)
  BY <1>2, FS_Injection
<1>4. Cardinality(1 .. Len(q)) = Len(q)
  BY <1>1, FS_Interval
<1>5. QED BY <1>3, <1>4

\* ListFrom is the list.
LEMMA ListFromIsList ==
  ASSUME IsFiniteSet(Nodes), NEW link \in [Nodes -> Pointer], NoCycle(link), NEW h \in Pointer
  PROVE  IsList(link, h, ListFrom(link, h))
<1> DEFINE n == Cardinality(Nodes)
           Good(g) == g = [left \in 0 .. n |-> [m \in Pointer |->
                             IF m = Null \/ left = 0 THEN <<>>
                             ELSE <<m>> \o g[left - 1][link[m]]]]
           f == CHOOSE g : Good(g)
<1>1. n \in Nat
  BY FS_CardinalityType
<1>2. ListFrom(link, h) = f[n][h]
  BY DEF ListFrom
<1> HIDE DEF n
<1>3. \E g : Good(g)
  <2> DEFINE S == [Pointer -> Seq(Nodes)]
             Longer(w) == [m \in Pointer |-> IF m = Null THEN <<>> ELSE <<m>> \o w[link[m]]]
             F == [w \in S |-> Longer(w)]
             a == [m \in Pointer |-> <<>>]
  <2>1. a \in S
    OBVIOUS
  <2>2. ASSUME NEW w \in S PROVE Longer(w) \in S
    <3>1. ASSUME NEW m \in Pointer, m # Null PROVE <<m>> \o w[link[m]] \in Seq(Nodes)
      <4>1. m \in Nodes /\ link[m] \in Pointer
        BY <3>1 DEF Pointer
      <4>2. <<m>> \in Seq(Nodes) /\ w[link[m]] \in Seq(Nodes)
        BY <4>1
      <4>3. QED BY <4>2, ConcatProperties
    <3>2. QED BY <3>1
  <2>3. F \in [S -> S] /\ \A w \in S : F[w] = Longer(w)
    BY <2>2
  <2> HIDE DEF F, S, Longer, a
  <2>4. PICK g : Repeats(g, S, F, a, n)
    BY <1>1, <2>1, <2>3, Repeated
  <2> DEFINE r == [left \in 0 .. n |-> [m \in Pointer |->
                     IF m = Null \/ left = 0 THEN <<>> ELSE <<m>> \o g[left - 1][link[m]]]]
  <2>5. ASSUME NEW k \in 0 .. n PROVE r[k] = g[k]
    <3>1. CASE k = 0
      BY <2>4, <3>1 DEF Repeats, a
    <3>2. CASE k # 0
      <4>1. k \in 1 .. n /\ k - 1 \in 0 .. n
        BY <1>1, <3>2
      <4>2. g[k] = Longer(g[k - 1])
        BY <2>3, <2>4, <4>1 DEF Repeats
      <4>3. r[k] = Longer(g[k - 1])
        BY <3>2 DEF Longer
      <4>4. QED BY <4>2, <4>3
    <3>3. QED BY <3>1, <3>2
  <2>6. g = r
    <3>1. r = [k \in 0 .. n |-> r[k]] /\ g = [k \in 0 .. n |-> g[k]]
      BY <2>4 DEF Repeats
    <3> HIDE DEF r
    <3>2. QED BY <2>5, <3>1
  <2>7. Good(g)
    BY <2>6
  <2>8. QED BY <2>7
<1>4. Good(f)
  <2> HIDE DEF Good
  <2>1. QED BY <1>3
<1> HIDE DEF f
<1>5. ASSUME NEW k \in 0 .. n, NEW m \in Pointer
      PROVE  f[k][m] = IF m = Null \/ k = 0 THEN <<>> ELSE <<m>> \o f[k - 1][link[m]]
  <2>1. f = [left \in 0 .. n |-> [x \in Pointer |->
               IF x = Null \/ left = 0 THEN <<>> ELSE <<x>> \o f[left - 1][link[x]]]]
    BY <1>4
  <2>2. f[k] = [x \in Pointer |-> IF x = Null \/ k = 0 THEN <<>> ELSE <<x>> \o f[k - 1][link[x]]]
    BY <2>1
  <2>3. QED BY <2>2
<1> HIDE DEF Good
<1> DEFINE Wrong(k) == \E m \in Pointer : \E q \in Seq(Nodes) :
                         IsList(link, m, q) /\ Len(q) <= k /\ f[k][m] # q
           U == {k \in 0 .. n : Wrong(k)}
<1>6. U = {}
  <2>1. SUFFICES ASSUME U # {} PROVE FALSE
    OBVIOUS
  <2>2. PICK k \in U : \A j \in U : k <= j
    <3>1. U \in SUBSET Nat
      OBVIOUS
    <3> HIDE DEF U
    <3>2. QED BY <2>1, <3>1, Least
  <2>3. PICK m \in Pointer, q \in Seq(Nodes) : IsList(link, m, q) /\ Len(q) <= k /\ f[k][m] # q
    OBVIOUS
  <2>4. k \in 0 .. n /\ Len(q) \in Nat
    OBVIOUS
  <2>5. m # Null
    BY <1>5, <2>3, <2>4 DEF IsList
  <2>6. m \in Nodes
    BY <2>5 DEF Pointer
  <2>7. /\ Tail(q) \in Seq(Nodes) /\ q = <<m>> \o Tail(q) /\ Len(Tail(q)) = Len(q) - 1
        /\ IsList(link, link[m], Tail(q))
    BY <2>3, <2>6, ListTail
  <2>8. Len(q) > 0
    BY <2>3, <2>5 DEF IsList
  <2>9. k # 0 /\ k - 1 \in 0 .. n /\ Len(Tail(q)) <= k - 1
    BY <1>1, <2>3, <2>4, <2>7, <2>8
  <2>10. ~Wrong(k - 1)
    <3>1. k - 1 \notin U
      <4> HIDE DEF U
      <4>1. QED BY <1>1, <2>2, <2>4, <2>9
    <3> HIDE DEF Wrong
    <3>2. QED BY <2>9, <3>1
  <2>11. f[k - 1][link[m]] = Tail(q)
    <3>1. link[m] \in Pointer
      BY <2>6
    <3>2. QED BY <2>7, <2>9, <2>10, <3>1
  <2>12. QED BY <1>5, <2>3, <2>4, <2>5, <2>7, <2>9, <2>11
<1>7. PICK q : IsList(link, h, q)
  BY ListExists
<1>8. q \in Seq(Nodes) /\ Len(q) <= n /\ Len(q) \in Nat
  <2>1. q \in Seq(Nodes) /\ IsInjective(q)
    BY <1>7, ListHolds DEF IsList
  <2>2. QED BY <2>1, ListFits DEF n
<1>9. f[n][h] = q
  <2>1. ~Wrong(n)
    <3> HIDE DEF Wrong
    <3>1. QED BY <1>1, <1>6
  <2>2. QED BY <1>7, <1>8, <2>1
<1>10. QED BY <1>2, <1>7, <1>9

----------------------------------------------------------------------------
\* What FlattenSeq holds.

\* What two lists one behind the other hold.
LEMMA JoinedLists ==
  ASSUME NEW S, NEW q \in Seq(S), NEW r \in Seq(S)
  PROVE  /\ q \o r \in Seq(S)
         /\ ToSet(q \o r) = ToSet(q) \cup ToSet(r)
         /\ IsInjective(q) /\ IsInjective(r) /\ ToSet(q) \cap ToSet(r) = {}
              => IsInjective(q \o r)
<1> DEFINE t == q \o r
<1>1. /\ t \in Seq(S) /\ Len(q) \in Nat /\ Len(r) \in Nat
      /\ DOMAIN t = 1 .. Len(q) + Len(r) /\ DOMAIN q = 1 .. Len(q) /\ DOMAIN r = 1 .. Len(r)
      /\ \A i \in 1 .. Len(q) + Len(r) : t[i] = IF i <= Len(q) THEN q[i] ELSE r[i - Len(q)]
  BY ConcatProperties
<1> HIDE DEF t
<1>2. \A i \in DOMAIN q : i \in DOMAIN t /\ t[i] = q[i]
  BY <1>1
<1>3. \A i \in DOMAIN r : Len(q) + i \in DOMAIN t /\ t[Len(q) + i] = r[i]
  <2>1. SUFFICES ASSUME NEW i \in DOMAIN r PROVE Len(q) + i \in DOMAIN t /\ t[Len(q) + i] = r[i]
    OBVIOUS
  <2>2. Len(q) + i \in 1 .. Len(q) + Len(r) /\ ~(Len(q) + i <= Len(q)) /\ Len(q) + i - Len(q) = i
    BY <1>1
  <2>3. QED BY <1>1, <2>2
<1>4. \A i \in DOMAIN t : \/ i \in DOMAIN q /\ t[i] = q[i]
                          \/ i - Len(q) \in DOMAIN r /\ t[i] = r[i - Len(q)]
  BY <1>1
<1>5. ToSet(t) = ToSet(q) \cup ToSet(r)
  <2>1. ToSet(q) \subseteq ToSet(t)
    BY <1>2, Zenon DEF ToSet
  <2>2. ToSet(r) \subseteq ToSet(t)
    BY <1>3, Zenon DEF ToSet
  <2>3. ToSet(t) \subseteq ToSet(q) \cup ToSet(r)
    BY <1>4 DEF ToSet
  <2>4. QED BY <2>1, <2>2, <2>3
<1>6. ASSUME IsInjective(q), IsInjective(r), ToSet(q) \cap ToSet(r) = {},
             NEW i \in DOMAIN t, NEW j \in DOMAIN t, t[i] = t[j] PROVE i = j
  <2>1. CASE i \in DOMAIN q /\ t[i] = q[i] /\ j \in DOMAIN q /\ t[j] = q[j]
    BY <1>6, <2>1 DEF IsInjective
  <2>2. CASE /\ i - Len(q) \in DOMAIN r /\ t[i] = r[i - Len(q)]
             /\ j - Len(q) \in DOMAIN r /\ t[j] = r[j - Len(q)]
    <3>1. i - Len(q) = j - Len(q)
      BY <1>6, <2>2 DEF IsInjective
    <3>2. QED BY <1>1, <3>1
  <2>3. CASE i \in DOMAIN q /\ t[i] = q[i] /\ j - Len(q) \in DOMAIN r /\ t[j] = r[j - Len(q)]
    <3>1. t[i] \in ToSet(q) /\ t[j] \in ToSet(r)
      BY <2>3, Zenon DEF ToSet
    <3>2. QED BY <1>6, <3>1
  <2>4. CASE j \in DOMAIN q /\ t[j] = q[j] /\ i - Len(q) \in DOMAIN r /\ t[i] = r[i - Len(q)]
    <3>1. t[j] \in ToSet(q) /\ t[i] \in ToSet(r)
      BY <2>4, Zenon DEF ToSet
    <3>2. QED BY <1>6, <3>1
  <2>5. QED BY <1>4, <2>1, <2>2, <2>3, <2>4
<1>7. QED BY <1>1, <1>5, <1>6 DEF t, IsInjective

\* What lists behind each other hold.
LEMMA FlattenedLists ==
  ASSUME NEW X, NEW n \in Nat \ {0}, NEW s \in [1 .. n -> Seq(X)]
  PROVE  /\ FlattenSeq(s) \in Seq(X)
         /\ ToSet(FlattenSeq(s)) = UNION {ToSet(s[i]) : i \in 1 .. n}
         /\ (/\ \A i \in 1 .. n : IsInjective(s[i])
             /\ \A i, j \in 1 .. n : i # j => ToSet(s[i]) \cap ToSet(s[j]) = {})
              => IsInjective(FlattenSeq(s))
<1>1. s \in Seq(Seq(X)) /\ Len(s) = n
  OBVIOUS
<1> DEFINE Good(g) == g = [i \in 1 .. n |-> IF i = 1 THEN s[i] ELSE g[i - 1] \o s[i]]
           Right(g, m) ==
             \A i \in 1 .. n : i <= m => g[i] = IF i = 1 THEN s[i] ELSE g[i - 1] \o s[i]
           Done(m) == \E g : Right(g, m)
           T == {m \in 0 .. n : ~Done(m)}
<1>2. Done(n)
  <2>1. SUFFICES ASSUME T # {} PROVE FALSE
    <3> HIDE DEF Done
    <3>1. QED OBVIOUS
  <2>2. T \in SUBSET Nat
    OBVIOUS
  <2>3. PICK m \in T : \A k \in T : m <= k
    BY <2>1, <2>2, Least
  <2>4. Right(<<>>, 0)
    OBVIOUS
  <2>5. m - 1 \in 0 .. n /\ m \in 1 .. n
    BY <2>3, <2>4
  <2>6. PICK g : Right(g, m - 1)
    <3>1. Done(m - 1)
      <4> HIDE DEF Done
      <4>1. m - 1 \notin T
        <5> HIDE DEF T
        <5>1. QED BY <2>2, <2>3, <2>5
      <4>2. QED BY <2>5, <4>1
    <3>2. QED BY <3>1
  <2> DEFINE h == [i \in 1 .. n |->
                     IF i = m THEN (IF i = 1 THEN s[i] ELSE g[i - 1] \o s[i]) ELSE g[i]]
  <2>7. Right(h, m)
    <3>1. \A i \in 1 .. n : h[i] = IF i = m THEN (IF i = 1 THEN s[i] ELSE g[i - 1] \o s[i])
                                           ELSE g[i]
      OBVIOUS
    <3> HIDE DEF h
    <3>2. ASSUME NEW i \in 1 .. n, i <= m PROVE h[i] = IF i = 1 THEN s[i] ELSE h[i - 1] \o s[i]
      <4>1. i # 1 => i - 1 \in 1 .. n /\ i - 1 # m /\ h[i - 1] = g[i - 1]
        BY <2>5, <3>1, <3>2
      <4>2. i # m => g[i] = IF i = 1 THEN s[i] ELSE g[i - 1] \o s[i]
        <5>1. i # m => i <= m - 1
          BY <2>5, <3>2
        <5>2. QED BY <2>6, <5>1
      <4>3. CASE i = m
        BY <3>1, <4>1, <4>3
      <4>4. CASE i # m
        BY <3>1, <4>1, <4>2, <4>4
      <4>5. QED BY <4>3, <4>4
    <3>3. QED BY <3>2
  <2>8. QED BY <2>7
<1>3. \E g : Good(g)
  <2>1. PICK g : Right(g, n)
    BY <1>2
  <2> DEFINE h == [i \in 1 .. n |-> g[i]]
  <2>2. \A i \in 1 .. n : h[i] = IF i = 1 THEN s[i] ELSE h[i - 1] \o s[i]
    BY <2>1
  <2>3. Good(h)
    <3>1. \A i \in 1 .. n : g[i] = IF i = 1 THEN s[i] ELSE h[i - 1] \o s[i]
      BY <2>2
    <3>2. QED BY <3>1
  <2>4. QED BY <2>3
<1> DEFINE f == CHOOSE g : Good(g)
<1>4. FlattenSeq(s) = f[n] /\ Good(f)
  <2>1. Good(f)
    BY <1>3
  <2>2. FlattenSeq(s) = f[n]
    BY <1>1 DEF FlattenSeq
  <2>3. QED BY <2>1, <2>2
<1>5. \A i \in 1 .. n : f[i] = IF i = 1 THEN s[i] ELSE f[i - 1] \o s[i]
  <2> HIDE DEF f
  <2>1. QED BY <1>4
<1> HIDE DEF f, Good, Right, Done, T
<1> DEFINE Apart == /\ \A i \in 1 .. n : IsInjective(s[i])
                    /\ \A i, j \in 1 .. n : i # j => ToSet(s[i]) \cap ToSet(s[j]) = {}
           Flat(i) == /\ f[i] \in Seq(X)
                      /\ ToSet(f[i]) = UNION {ToSet(s[j]) : j \in 1 .. i}
                      /\ Apart => IsInjective(f[i])
           U == {i \in 1 .. n : ~Flat(i)}
<1>6. U = {}
  <2>1. SUFFICES ASSUME U # {} PROVE FALSE
    OBVIOUS
  <2>2. U \in SUBSET Nat
    OBVIOUS
  <2>3. PICK m \in U : \A i \in U : m <= i
    BY <2>1, <2>2, Least
  <2>4. m # 1
    <3>1. f[1] = s[1] /\ 1 .. 1 = {1} /\ 1 \in 1 .. n
      BY <1>5
    <3>2. Flat(1)
      BY <3>1
    <3>3. QED BY <3>2
  <2>5. /\ m - 1 \in 1 .. n /\ m \in 1 .. n /\ 1 .. m = (1 .. m - 1) \cup {m}
        /\ f[m] = f[m - 1] \o s[m]
    <3>1. m \in 1 .. n
      OBVIOUS
    <3> HIDE DEF U
    <3>2. m - 1 \in 1 .. n /\ 1 .. m = (1 .. m - 1) \cup {m}
      BY <2>4, <3>1
    <3>3. QED BY <1>5, <2>4, <3>1, <3>2
  <2>6. Flat(m - 1)
    <3>1. m - 1 \notin U
      <4> HIDE DEF U
      <4>1. QED BY <2>2, <2>3, <2>5
    <3>2. QED BY <2>5, <3>1
  <2>7. /\ f[m] \in Seq(X)
        /\ ToSet(f[m]) = ToSet(f[m - 1]) \cup ToSet(s[m])
        /\ IsInjective(f[m - 1]) /\ IsInjective(s[m]) /\ ToSet(f[m - 1]) \cap ToSet(s[m]) = {}
             => IsInjective(f[m])
    <3> DEFINE q == f[m - 1]
               r == s[m]
    <3>1. q \in Seq(X) /\ r \in Seq(X) /\ f[m] = q \o r
      BY <2>5, <2>6
    <3> HIDE DEF q, r
    <3>2. /\ q \o r \in Seq(X)
          /\ ToSet(q \o r) = ToSet(q) \cup ToSet(r)
          /\ IsInjective(q) /\ IsInjective(r) /\ ToSet(q) \cap ToSet(r) = {}
               => IsInjective(q \o r)
      BY <3>1, JoinedLists
    <3>3. QED BY <3>1, <3>2 DEF q, r
  <2>8. ASSUME Apart PROVE IsInjective(f[m])
    <3>1. ASSUME NEW x \in ToSet(f[m - 1]), x \in ToSet(s[m]) PROVE FALSE
      <4>1. PICK j \in 1 .. m - 1 : x \in ToSet(s[j])
        BY <2>6, <3>1
      <4>2. j \in 1 .. n /\ j # m
        BY <2>5
      <4>3. QED BY <2>5, <2>8, <3>1, <4>1, <4>2
    <3>2. IsInjective(f[m - 1]) /\ IsInjective(s[m])
      BY <2>5, <2>6, <2>8
    <3>3. QED BY <2>7, <3>1, <3>2
  <2>9. Flat(m)
    <3>1. ToSet(f[m]) = UNION {ToSet(s[j]) : j \in 1 .. m}
      BY <2>5, <2>6, <2>7
    <3>2. QED BY <2>7, <2>8, <3>1
  <2>10. QED BY <2>9
<1>7. Flat(n)
  <2> HIDE DEF Flat
  <2>1. QED BY <1>6
<1>8. QED BY <1>4, <1>7

\* The same for any number of sequences, none included.
LEMMA FlattenedAny ==
  ASSUME NEW X, NEW n \in Nat, NEW s \in [1 .. n -> Seq(X)]
  PROVE  /\ FlattenSeq(s) \in Seq(X)
         /\ ToSet(FlattenSeq(s)) = UNION {ToSet(s[i]) : i \in 1 .. n}
         /\ (/\ \A i \in 1 .. n : IsInjective(s[i])
             /\ \A i, j \in 1 .. n : i # j => ToSet(s[i]) \cap ToSet(s[j]) = {})
              => IsInjective(FlattenSeq(s))
<1>1. CASE n = 0
  <2>1. s \in Seq(Seq(X)) /\ Len(s) = 0
    BY <1>1
  <2>2. s = <<>>
    BY <2>1, EmptySeq
  <2>3. FlattenSeq(s) = <<>>
    BY <2>1, <2>2 DEF FlattenSeq
  <2>4. <<>> \in Seq(X) /\ DOMAIN <<>> = {} /\ 1 .. n = {}
    BY <1>1
  <2>5. QED BY <2>3, <2>4 DEF ToSet, IsInjective
<1>2. CASE n # 0
  <2>1. n \in Nat \ {0}
    BY <1>2
  <2>2. QED BY <2>1, FlattenedLists
<1>3. QED BY <1>1, <1>2

----------------------------------------------------------------------------
\* The children of a live node in their order.
LEMMA ChildChain ==
  ASSUME IsFiniteSet(Nodes), TreeInv, NEW m \in Nodes
  PROVE  /\ Chain(first_child[m]) \in Seq(Nodes)
         /\ IsInjective(Chain(first_child[m]))
         /\ ToSet(Chain(first_child[m])) = Listed(m)
         /\ IsList(next_sibling, first_child[m], Chain(first_child[m]))
<1>1. next_sibling \in [Nodes -> Pointer] /\ NoCycle(next_sibling) /\ first_child[m] \in Pointer
  BY DEF TreeInv, LinksTyped, NoRings
<1> DEFINE h == first_child[m]
<1>2. Chain(h) = ListFrom(next_sibling, h)
  BY DEF Chain
<1>3. IsList(next_sibling, h, ListFrom(next_sibling, h))
  BY <1>1, ListFromIsList
<1> DEFINE q == ListFrom(next_sibling, h)
<1> HIDE DEF q
<1>4. IsInjective(q) /\ ToSet(q) = {x \in Nodes : Reaches(next_sibling, h, x)}
  BY <1>1, <1>3, ListHolds DEF q
<1>5. QED BY <1>2, <1>3, <1>4 DEF IsList, Listed, q

\* What the loop over the children of m collects, given what w says of each of them.
Brood(w, m) == [i \in DOMAIN Chain(first_child[m]) |-> w[Chain(first_child[m])[i]]]

\* What the loop collects holds what w holds of the children, and repeats nothing
\* if w repeats nothing of any child and no two children share anything.
LEMMA BroodFlat ==
  ASSUME IsFiniteSet(Nodes), TreeInv, NEW m \in Nodes, NEW w \in [Nodes -> Seq(Nodes)]
  PROVE  /\ FlattenSeq(Brood(w, m)) \in Seq(Nodes)
         /\ ToSet(FlattenSeq(Brood(w, m))) = UNION {ToSet(w[c]) : c \in Listed(m)}
         /\ (/\ \A c \in Listed(m) : IsInjective(w[c])
             /\ \A c, d \in Listed(m) : c # d => ToSet(w[c]) \cap ToSet(w[d]) = {})
              => IsInjective(FlattenSeq(Brood(w, m)))
<1> DEFINE q == Chain(first_child[m])
           n == Len(q)
           s == Brood(w, m)
<1>1. q \in Seq(Nodes) /\ IsInjective(q) /\ ToSet(q) = Listed(m)
  BY ChildChain
<1>2. n \in Nat /\ DOMAIN q = 1 .. n /\ \A i \in 1 .. n : q[i] \in Nodes
  BY <1>1
<1>3. s = [i \in DOMAIN q |-> w[q[i]]]
  BY DEF Brood
<1> HIDE DEF q, n, s
<1>4. s \in [1 .. n -> Seq(Nodes)] /\ \A i \in 1 .. n : s[i] = w[q[i]]
  BY <1>2, <1>3
<1>5. /\ \A i \in 1 .. n : q[i] \in Listed(m)
      /\ \A c \in Listed(m) : \E i \in 1 .. n : c = q[i]
      /\ \A i, j \in 1 .. n : i # j => q[i] # q[j]
  <2>1. \A i \in 1 .. n : q[i] \in Listed(m)
    BY <1>1, <1>2, Zenon DEF ToSet
  <2>2. \A c \in Listed(m) : \E i \in 1 .. n : c = q[i]
    BY <1>1, <1>2 DEF ToSet
  <2>3. \A i, j \in 1 .. n : i # j => q[i] # q[j]
    BY <1>1, <1>2 DEF IsInjective
  <2>4. QED BY <2>1, <2>2, <2>3
<1>6. /\ FlattenSeq(s) \in Seq(Nodes)
      /\ ToSet(FlattenSeq(s)) = UNION {ToSet(s[i]) : i \in 1 .. n}
      /\ (/\ \A i \in 1 .. n : IsInjective(s[i])
          /\ \A i, j \in 1 .. n : i # j => ToSet(s[i]) \cap ToSet(s[j]) = {})
           => IsInjective(FlattenSeq(s))
  BY <1>2, <1>4, FlattenedAny
<1>7. UNION {ToSet(s[i]) : i \in 1 .. n} = UNION {ToSet(w[c]) : c \in Listed(m)}
  <2>1. ASSUME NEW x, \E i \in 1 .. n : x \in ToSet(s[i])
        PROVE  \E c \in Listed(m) : x \in ToSet(w[c])
    BY <1>4, <1>5, <2>1
  <2>2. ASSUME NEW x, NEW c \in Listed(m), x \in ToSet(w[c])
        PROVE  \E i \in 1 .. n : x \in ToSet(s[i])
    <3>1. PICK i \in 1 .. n : c = q[i]
      BY <1>5
    <3>2. s[i] = w[c]
      BY <1>4, <3>1
    <3>3. QED BY <2>2, <3>2
  <2>3. QED BY <2>1, <2>2
<1>8. ASSUME \A c \in Listed(m) : IsInjective(w[c]),
             \A c, d \in Listed(m) : c # d => ToSet(w[c]) \cap ToSet(w[d]) = {}
      PROVE  IsInjective(FlattenSeq(s))
  <2>1. \A i \in 1 .. n : IsInjective(s[i])
    BY <1>4, <1>5, <1>8
  <2>2. ASSUME NEW i \in 1 .. n, NEW j \in 1 .. n, i # j PROVE ToSet(s[i]) \cap ToSet(s[j]) = {}
    <3>1. q[i] \in Listed(m) /\ q[j] \in Listed(m) /\ q[i] # q[j]
      BY <1>5, <2>2
    <3>2. s[i] = w[q[i]] /\ s[j] = w[q[j]]
      BY <1>4
    <3>3. QED BY <1>8, <3>1, <3>2
  <2>3. QED BY <1>6, <2>1, <2>2
<1>9. QED BY <1>6, <1>7, <1>8 DEF s

----------------------------------------------------------------------------
\* The live nodes from which parent leads to m.
Sub(m) == {x \in Nodes \ stale : Reaches(parent, x, m)}

\* A subtree is its root and, apart from each other, the subtrees of its children.
LEMMA SubParts ==
  ASSUME TreeInv, NEW m \in Nodes \ stale
  PROVE  /\ m \in Sub(m)
         /\ Sub(m) = {m} \cup UNION {Sub(c) : c \in Listed(m)}
         /\ \A c \in Listed(m) : c \in Nodes \ stale /\ Sub(c) \subseteq Sub(m) \ {m}
         /\ \A c, d \in Listed(m) : c # d => Sub(c) \cap Sub(d) = {}
<1>1. parent \in [Nodes -> Pointer] /\ NoCycle(parent)
  BY DEF TreeInv, LinksTyped, NoRings
<1>2. m \in Sub(m)
  BY ReachesSelf DEF Sub
<1>3. \A c \in Listed(m) : c \in Nodes \ stale /\ parent[c] = m
  BY ListedIsChild
<1>4. ASSUME NEW c \in Listed(m), NEW x \in Sub(c) PROVE x \in Sub(m) \ {m}
  <2>1. x \in Nodes \ stale /\ Reaches(parent, x, c) /\ c \in Nodes
    BY <1>3, <1>4 DEF Sub
  <2>2. Reaches(parent, x, m)
    BY <1>1, <1>3, <2>1, ReachesOnward, NullIsNoNode DEF Pointer
  <2>3. x # m
    BY <1>1, <1>3, <2>1, NoReturn
  <2>4. QED BY <2>1, <2>2, <2>3 DEF Sub
<1>5. ASSUME NEW x \in Sub(m), x # m PROVE \E c \in Listed(m) : x \in Sub(c)
  <2>1. x \in Nodes \ stale /\ Reaches(parent, x, m)
    BY <1>5 DEF Sub
  <2>2. PICK z \in Nodes : parent[z] = m /\ Reaches(parent, x, z)
    BY <1>1, <1>5, <2>1, ReachesBack
  <2>3. z \notin stale
    <3> DEFINE S == Nodes \ stale
    <3>1. Closed(parent, S)
      BY <1>1 DEF Closed, TreeInv, EndsMeet, Pointer
    <3>2. S \in SUBSET Nodes /\ x \in S
      BY <2>1
    <3> HIDE DEF S
    <3>3. z \in S
      BY <2>2, <3>1, <3>2, ReachesStays
    <3>4. QED BY <3>3 DEF S
  <2>4. z \in Listed(m)
    BY <2>2, <2>3, ChildIsListed
  <2>5. QED BY <2>1, <2>2, <2>4 DEF Sub
<1>6. ASSUME NEW c \in Listed(m), NEW d \in Listed(m), c # d PROVE Sub(c) \cap Sub(d) = {}
  <2> DEFINE S == {x \in Nodes : Reaches(parent, x, c) /\ Reaches(parent, x, d)}
  <2>1. c \in Nodes /\ d \in Nodes /\ parent[c] = m /\ parent[d] = m
    BY <1>3, <1>6
  <2>2. ~Reaches(parent, m, c) /\ ~Reaches(parent, m, d)
    BY <1>1, <2>1, NoReturn
  <2>3. ~Reaches(parent, c, d) /\ ~Reaches(parent, d, c)
    BY <1>1, <1>6, <2>1, <2>2, ReachesNext
  <2>4. ASSUME NEW x \in S PROVE parent[x] \in S
    <3>1. x # c /\ x # d
      BY <2>3, <2>4
    <3>2. QED BY <1>1, <2>1, <2>4, <3>1, ReachesNext
  <2>5. S = {}
    <3>1. S \in SUBSET Nodes
      OBVIOUS
    <3> HIDE DEF S
    <3>2. QED BY <1>1, <2>4, <3>1 DEF NoCycle
  <2>6. QED BY <2>5 DEF Sub
<1>7. Sub(m) = {m} \cup UNION {Sub(c) : c \in Listed(m)}
  BY <1>2, <1>4, <1>5
<1>8. QED BY <1>2, <1>3, <1>4, <1>6, <1>7

----------------------------------------------------------------------------
\* traverse() and find().

\* What traverse() meets, down to some depth.
LEMMA TraverseUnfolds ==
  ASSUME IsFiniteSet(Nodes), TreeInv
  PROVE  \E f \in [0 .. Cardinality(Nodes) -> [Nodes -> Seq(Nodes)]] :
           /\ \A m \in Nodes : f[0][m] = <<m>>
           /\ \A k \in 1 .. Cardinality(Nodes), m \in Nodes :
                f[k][m] = <<m>> \o FlattenSeq(Brood(f[k - 1], m))
           /\ \A r \in Nodes : Traverse(r) = f[Cardinality(Nodes)][r]
<1> DEFINE n == Cardinality(Nodes)
           Good(g) == g = [depth \in 0 .. n |-> [m \in Nodes |->
                             IF depth = 0 THEN <<m>>
                             ELSE LET below == Chain(first_child[m])
                                  IN  <<m>> \o FlattenSeq([i \in DOMAIN below |->
                                                             g[depth - 1][below[i]]])]]
           f == CHOOSE g : Good(g)
<1>1. n \in Nat
  BY FS_CardinalityType
<1>2. \A r \in Nodes : Traverse(r) = f[n][r]
  BY DEF Traverse
<1> HIDE DEF n
<1> DEFINE S == [Nodes -> Seq(Nodes)]
           Deeper(w) == [m \in Nodes |-> <<m>> \o FlattenSeq(Brood(w, m))]
<1>3. \E g : Good(g) /\ g \in [0 .. n -> S]
  <2> DEFINE F == [w \in S |-> Deeper(w)]
             a == [m \in Nodes |-> <<m>>]
  <2>1. a \in S
    OBVIOUS
  <2>2. ASSUME NEW w \in S PROVE Deeper(w) \in S
    <3>1. ASSUME NEW m \in Nodes PROVE <<m>> \o FlattenSeq(Brood(w, m)) \in Seq(Nodes)
      <4>1. <<m>> \in Seq(Nodes) /\ FlattenSeq(Brood(w, m)) \in Seq(Nodes)
        BY BroodFlat
      <4>2. QED BY <4>1, ConcatProperties
    <3>2. QED BY <3>1
  <2>3. F \in [S -> S] /\ \A w \in S : F[w] = Deeper(w)
    BY <2>2
  <2> HIDE DEF F, S, Deeper, a
  <2>4. PICK g : Repeats(g, S, F, a, n)
    BY <1>1, <2>1, <2>3, Repeated
  <2> DEFINE Row(k) == [m \in Nodes |->
                          IF k = 0 THEN <<m>>
                          ELSE LET below == Chain(first_child[m])
                               IN  <<m>> \o FlattenSeq([i \in DOMAIN below |-> g[k - 1][below[i]]])]
             r == [k \in 0 .. n |-> Row(k)]
  <2>5. ASSUME NEW k \in 0 .. n PROVE r[k] = g[k]
    <3>1. r[k] = Row(k)
      OBVIOUS
    <3>2. CASE k = 0
      <4>1. Row(k) = [m \in Nodes |-> <<m>>]
        BY <3>2
      <4> HIDE DEF Row, r
      <4>2. QED BY <2>4, <3>1, <3>2, <4>1 DEF Repeats, a
    <3>3. CASE k # 0
      <4>1. k \in 1 .. n /\ k - 1 \in 0 .. n
        BY <1>1, <3>3
      <4>2. g[k] = Deeper(g[k - 1])
        BY <2>3, <2>4, <4>1 DEF Repeats
      <4>3. Row(k) = Deeper(g[k - 1])
        BY <3>3 DEF Deeper, Brood
      <4> HIDE DEF Row, r
      <4>4. QED BY <3>1, <4>2, <4>3
    <3>4. QED BY <3>2, <3>3
  <2>6. g = r
    <3>1. r = [k \in 0 .. n |-> r[k]] /\ g = [k \in 0 .. n |-> g[k]]
      BY <2>4 DEF Repeats
    <3> HIDE DEF r
    <3>2. QED BY <2>5, <3>1
  <2>7. Good(g)
    BY <2>6
  <2>8. g \in [0 .. n -> S]
    BY <2>4 DEF Repeats
  <2> HIDE DEF Good, r
  <2>9. QED BY <2>7, <2>8
<1>4. Good(f)
  <2> HIDE DEF Good
  <2>1. QED BY <1>3
<1> HIDE DEF f
<1>5. \A g : Good(g) => g = [depth \in 0 .. n |-> [m \in Nodes |->
                                IF depth = 0 THEN <<m>>
                                ELSE <<m>> \o FlattenSeq(Brood(g[depth - 1], m))]]
  BY DEF Brood
<1>6. f = [depth \in 0 .. n |-> [m \in Nodes |->
             IF depth = 0 THEN <<m>> ELSE <<m>> \o FlattenSeq(Brood(f[depth - 1], m))]]
  <2> HIDE DEF Good
  <2>1. QED BY <1>4, <1>5
<1> HIDE DEF Good, Deeper, S
<1>7. ASSUME NEW k \in 0 .. n
      PROVE  f[k] = [m \in Nodes |->
                       IF k = 0 THEN <<m>> ELSE <<m>> \o FlattenSeq(Brood(f[k - 1], m))]
  BY <1>6
<1>8. /\ \A m \in Nodes : f[0][m] = <<m>>
      /\ \A k \in 1 .. n, m \in Nodes : f[k][m] = <<m>> \o FlattenSeq(Brood(f[k - 1], m))
  <2>1. \A m \in Nodes : f[0][m] = <<m>>
    <3>1. 0 \in 0 .. n
      BY <1>1
    <3>2. QED BY <1>7, <3>1
  <2>2. ASSUME NEW k \in 1 .. n, NEW m \in Nodes
        PROVE  f[k][m] = <<m>> \o FlattenSeq(Brood(f[k - 1], m))
    <3>1. k \in 0 .. n /\ k # 0
      BY <1>1
    <3>2. f[k] = [x \in Nodes |->
                    IF k = 0 THEN <<x>> ELSE <<x>> \o FlattenSeq(Brood(f[k - 1], x))]
      BY <1>7, <3>1
    <3>3. QED BY <3>1, <3>2
  <2>3. QED BY <2>1, <2>2
<1>9. f \in [0 .. n -> [Nodes -> Seq(Nodes)]]
  <2> DEFINE Typed(k) == f[k] \in [Nodes -> Seq(Nodes)]
             U == {k \in 0 .. n : ~Typed(k)}
  <2>1. Typed(0)
    <3>1. f[0] = [m \in Nodes |-> <<m>>]
      <4>1. 0 \in 0 .. n
        BY <1>1
      <4>2. f[0] = [m \in Nodes |->
                       IF 0 = 0 THEN <<m>> ELSE <<m>> \o FlattenSeq(Brood(f[0 - 1], m))]
        BY <1>7, <4>1
      <4>3. QED BY <4>2
    <3>2. QED BY <3>1
  <2>2. ASSUME NEW k \in 1 .. n, Typed(k - 1) PROVE Typed(k)
    <3>1. k \in 0 .. n /\ k # 0
      BY <1>1
    <3>2. ASSUME NEW m \in Nodes PROVE <<m>> \o FlattenSeq(Brood(f[k - 1], m)) \in Seq(Nodes)
      <4>1. <<m>> \in Seq(Nodes) /\ FlattenSeq(Brood(f[k - 1], m)) \in Seq(Nodes)
        BY <2>2, BroodFlat
      <4>2. QED BY <4>1, ConcatProperties
    <3>3. f[k] = [m \in Nodes |-> <<m>> \o FlattenSeq(Brood(f[k - 1], m))]
      BY <1>7, <3>1
    <3>4. QED BY <3>2, <3>3
  <2> HIDE DEF Typed
  <2>3. U = {}
    <3>1. SUFFICES ASSUME U # {} PROVE FALSE
      OBVIOUS
    <3>2. PICK k \in U : \A j \in U : k <= j
      <4>1. U \in SUBSET Nat
        OBVIOUS
      <4> HIDE DEF U
      <4>2. QED BY <3>1, <4>1, Least
    <3>3. k \in 1 .. n /\ k - 1 \in 0 .. n
      BY <1>1, <2>1
    <3>4. k - 1 \notin U
      <4> HIDE DEF U
      <4>1. QED BY <1>1, <3>2, <3>3
    <3>5. QED BY <2>2, <3>3, <3>4
  <2>4. \A k \in 0 .. n : f[k] \in [Nodes -> Seq(Nodes)]
    BY <2>3 DEF Typed
  <2>5. f = [k \in 0 .. n |-> f[k]]
    <3> DEFINE Row(k) == [m \in Nodes |->
                            IF k = 0 THEN <<m>> ELSE <<m>> \o FlattenSeq(Brood(f[k - 1], m))]
               r == [k \in 0 .. n |-> Row(k)]
    <3>1. f = r
      BY <1>6
    <3> HIDE DEF Row
    <3>2. r = [k \in 0 .. n |-> r[k]]
      OBVIOUS
    <3> HIDE DEF r
    <3>3. QED BY <3>1, <3>2
  <2>6. QED BY <2>4, <2>5
<1>10. QED BY <1>2, <1>8, <1>9 DEF n

\* What traverse() meets from a live node.
LEMMA TraverseHolds ==
  ASSUME IsFiniteSet(Nodes), TreeInv, NEW r \in Nodes \ stale
  PROVE  Traverse(r) \in Seq(Nodes) /\ IsInjective(Traverse(r)) /\ ToSet(Traverse(r)) = Sub(r)
<1> DEFINE n == Cardinality(Nodes)
<1>1. n \in Nat
  BY FS_CardinalityType
<1>2. PICK f \in [0 .. n -> [Nodes -> Seq(Nodes)]] :
           /\ \A m \in Nodes : f[0][m] = <<m>>
           /\ \A k \in 1 .. n, m \in Nodes : f[k][m] = <<m>> \o FlattenSeq(Brood(f[k - 1], m))
           /\ \A x \in Nodes : Traverse(x) = f[n][x]
  BY TraverseUnfolds
<1>3. ASSUME NEW m \in Nodes \ stale
      PROVE  IsFiniteSet(Sub(m)) /\ Cardinality(Sub(m)) \in Nat /\ Cardinality(Sub(m)) <= n
  <2>1. Sub(m) \in SUBSET Nodes
    BY DEF Sub
  <2>2. QED BY <2>1, FS_Subset, FS_CardinalityType
<1> HIDE DEF n
<1> DEFINE Met(k, m) == IsInjective(f[k][m]) /\ ToSet(f[k][m]) = Sub(m)
           Right(k) == \A m \in Nodes \ stale : Cardinality(Sub(m)) <= k + 1 => Met(k, m)
           U == {k \in 0 .. n : ~Right(k)}
<1>4. Right(0)
  <2>1. ASSUME NEW m \in Nodes \ stale, Cardinality(Sub(m)) <= 0 + 1 PROVE Met(0, m)
    <3>1. m \in Sub(m)
      BY SubParts
    <3>2. Sub(m) = {m}
      <4>1. {m} \in SUBSET Sub(m) /\ Cardinality({m}) = 1
        BY <3>1, FS_Singleton
      <4>2. Cardinality({m}) <= Cardinality(Sub(m)) /\ (Cardinality(Sub(m)) = Cardinality({m}) => Sub(m) = {m})
        BY <1>3, <4>1, FS_Subset
      <4>3. QED BY <1>3, <2>1, <4>1, <4>2
    <3>3. f[0][m] = <<m>> /\ IsInjective(<<m>>) /\ ToSet(<<m>>) = {m}
      BY <1>2 DEF IsInjective, ToSet
    <3>4. QED BY <3>2, <3>3
  <2>2. QED BY <2>1
<1>5. ASSUME NEW k \in 1 .. n, Right(k - 1) PROVE Right(k)
  <2>1. ASSUME NEW m \in Nodes \ stale, Cardinality(Sub(m)) <= k + 1 PROVE Met(k, m)
    <3> DEFINE w == f[k - 1]
    <3>1. w \in [Nodes -> Seq(Nodes)] /\ f[k][m] = <<m>> \o FlattenSeq(Brood(w, m))
      <4>1. k - 1 \in 0 .. n
        BY <1>1
      <4>2. w \in [Nodes -> Seq(Nodes)]
        BY <4>1
      <4>3. f[k][m] = <<m>> \o FlattenSeq(Brood(f[k - 1], m))
        BY <1>2
      <4>4. QED BY <4>2, <4>3
    <3>2. /\ m \in Sub(m)
          /\ Sub(m) = {m} \cup UNION {Sub(c) : c \in Listed(m)}
          /\ \A c \in Listed(m) : c \in Nodes \ stale /\ Sub(c) \subseteq Sub(m) \ {m}
          /\ \A c, d \in Listed(m) : c # d => Sub(c) \cap Sub(d) = {}
      BY SubParts
    <3>3. ASSUME NEW c \in Listed(m) PROVE IsInjective(w[c]) /\ ToSet(w[c]) = Sub(c)
      <4>1. c \in Nodes \ stale /\ Sub(c) \in SUBSET (Sub(m) \ {m})
        BY <3>2
      <4>2. IsFiniteSet(Sub(m) \ {m}) /\ Cardinality(Sub(m) \ {m}) = Cardinality(Sub(m)) - 1
        BY <1>3, <3>2, FS_RemoveElement
      <4>3. Cardinality(Sub(c)) <= Cardinality(Sub(m) \ {m})
        BY <4>1, <4>2, FS_Subset
      <4>4. Cardinality(Sub(c)) <= (k - 1) + 1
        <5>1. Cardinality(Sub(c)) \in Nat /\ Cardinality(Sub(m)) \in Nat
          BY <1>3, <4>1
        <5>2. QED BY <2>1, <4>2, <4>3, <5>1
      <4>5. Met(k - 1, c)
        <5> HIDE DEF Met
        <5>1. QED BY <1>5, <4>1, <4>4
      <4>6. QED BY <4>5
    <3> DEFINE t == FlattenSeq(Brood(w, m))
    <3> HIDE DEF w
    <3>4. /\ t \in Seq(Nodes)
          /\ ToSet(t) = UNION {ToSet(w[c]) : c \in Listed(m)}
          /\ (/\ \A c \in Listed(m) : IsInjective(w[c])
              /\ \A c, d \in Listed(m) : c # d => ToSet(w[c]) \cap ToSet(w[d]) = {})
               => IsInjective(t)
      BY <3>1, BroodFlat
    <3> HIDE DEF t
    <3>5. IsInjective(t)
      BY <3>2, <3>3, <3>4
    <3>6. ToSet(t) = UNION {Sub(c) : c \in Listed(m)}
      <4>1. {ToSet(w[c]) : c \in Listed(m)} = {Sub(c) : c \in Listed(m)}
        BY <3>3
      <4>2. QED BY <3>4, <4>1
    <3>7. m \notin ToSet(t)
      BY <3>2, <3>6
    <3>8. ToSet(<<m>> \o t) = {m} \cup ToSet(t) /\ IsInjective(<<m>> \o t)
      BY <3>4, <3>5, <3>7, ConsSet
    <3>9. f[k][m] = <<m>> \o t
      BY <3>1 DEF t
    <3>10. QED BY <3>2, <3>6, <3>8, <3>9
  <2>2. QED BY <2>1
<1> HIDE DEF Right
<1>6. U = {}
  <2>1. SUFFICES ASSUME U # {} PROVE FALSE
    OBVIOUS
  <2>2. PICK k \in U : \A j \in U : k <= j
    <3>1. U \in SUBSET Nat
      OBVIOUS
    <3> HIDE DEF U
    <3>2. QED BY <2>1, <3>1, Least
  <2>3. k \in 1 .. n /\ k - 1 \in 0 .. n
    BY <1>1, <1>4
  <2>4. k - 1 \notin U
    <3> HIDE DEF U
    <3>1. QED BY <1>1, <2>2, <2>3
  <2>5. QED BY <1>5, <2>3, <2>4
<1>7. Right(n)
  <2>1. n \in 0 .. n
    BY <1>1
  <2>2. n \notin U
    BY <1>6
  <2>3. QED BY <2>1, <2>2
<1>8. Met(n, r)
  <2>1. Cardinality(Sub(r)) <= n + 1
    BY <1>1, <1>3
  <2> HIDE DEF Met
  <2>2. QED BY <1>7, <2>1 DEF Right
<1>9. Traverse(r) = f[n][r] /\ f[n][r] \in Seq(Nodes)
  BY <1>1, <1>2
<1>10. QED BY <1>8, <1>9

\* Unless an attached node has been attached again, traverse() meets the root and what
\* hangs below it, each node once, and nothing that has been left behind.
THEOREM VisitedOnce ==
  ASSUME IsFiniteSet(Nodes)
  PROVE  AstSpec => []TraversalExact
<1>1. AstInv => TraversalExact
  BY TraverseHolds DEF AstInv, TraversalExact, Sub
<1>2. QED BY <1>1, Invariance, PTL

\* What find() answers, given the order in which it asks.
LEMMA FirstNamedIs ==
  ASSUME NEW q \in Seq(Nodes), IsInjective(q), NEW x \in Nodes
  PROVE  FirstNamed(q, x) = x <=> x \in named /\ x \in ToSet(q)
<1> DEFINE hits == {i \in DOMAIN q : x = IF q[i] \in named THEN q[i] ELSE Null}
<1>1. \A i \in DOMAIN q : i \in hits <=> q[i] = x /\ x \in named
  BY NullIsNoNode
<1>2. FirstNamed(q, x) = IF hits = {} THEN Null ELSE q[Min(hits)]
  BY DEF FirstNamed
<1>3. \A i \in hits : i \in DOMAIN q
  OBVIOUS
<1>4. DOMAIN q \subseteq Nat
  OBVIOUS
<1> HIDE DEF hits
<1>5. CASE hits = {}
  <2>1. FirstNamed(q, x) # x
    BY <1>2, <1>5, NullIsNoNode
  <2>2. ~(x \in named /\ x \in ToSet(q))
    BY <1>1, <1>5 DEF ToSet
  <2>3. QED BY <2>1, <2>2
<1>6. CASE hits # {}
  <2>1. PICK i \in hits : TRUE
    BY <1>6
  <2>2. i \in DOMAIN q /\ i \in Nat /\ q[i] = x /\ x \in named
    BY <1>1, <1>3, <1>4, <2>1
  <2>3. hits = {i}
    BY <1>1, <1>3, <2>1, <2>2 DEF IsInjective
  <2>4. Min(hits) = i
    BY <2>2, <2>3 DEF Min
  <2>5. FirstNamed(q, x) = x
    BY <1>2, <1>6, <2>2, <2>4
  <2>6. x \in ToSet(q)
    BY <2>2, Zenon DEF ToSet
  <2>7. QED BY <2>2, <2>5, <2>6
<1>7. QED BY <1>5, <1>6

\* A named node is found from its ancestors and from itself, and from nowhere else,
\* unless an attached node has been attached again.
THEOREM FoundFromAbove ==
  ASSUME IsFiniteSet(Nodes)
  PROVE  AstSpec => []FindByName
<1>1. ASSUME TreeInv, NEW r \in Nodes \ stale, NEW x \in Nodes \ stale
      PROVE  Find(r, x) = x <=> x \in named /\ Reaches(parent, x, r)
  <2>1. Traverse(r) \in Seq(Nodes) /\ IsInjective(Traverse(r)) /\ ToSet(Traverse(r)) = Sub(r)
    BY <1>1, TraverseHolds
  <2>2. FirstNamed(Traverse(r), x) = x <=> x \in named /\ x \in ToSet(Traverse(r))
    BY <2>1, FirstNamedIs
  <2>3. QED BY <2>1, <2>2 DEF Find, Sub
<1>2. AstInv => FindByName
  BY <1>1 DEF AstInv, FindByName
<1>3. QED BY <1>2, Invariance, PTL

----------------------------------------------------------------------------
\* The ordered forest the links stand for.

\* The list that starts at a pointer.
LEMMA ChainIs ==
  ASSUME IsFiniteSet(Nodes), TreeInv, NEW h \in Pointer
  PROVE  /\ IsList(next_sibling, h, Chain(h))
         /\ Chain(h) \in Seq(Nodes)
         /\ IsInjective(Chain(h))
         /\ ToSet(Chain(h)) = {x \in Nodes : Reaches(next_sibling, h, x)}
         /\ Len(Chain(h)) \in Nat /\ Len(Chain(h)) <= Cardinality(Nodes)
         /\ DOMAIN Chain(h) = 1 .. Len(Chain(h))
<1>1. next_sibling \in [Nodes -> Pointer] /\ NoCycle(next_sibling)
  BY DEF TreeInv, LinksTyped, NoRings
<1> DEFINE q == ListFrom(next_sibling, h)
<1>2. Chain(h) = q
  BY DEF Chain
<1>3. IsList(next_sibling, h, q)
  BY <1>1, ListFromIsList
<1> HIDE DEF q
<1>4. IsInjective(q) /\ ToSet(q) = {x \in Nodes : Reaches(next_sibling, h, x)}
  BY <1>1, <1>3, ListHolds
<1>5. q \in Seq(Nodes)
  BY <1>3 DEF IsList
<1>6. Len(q) <= Cardinality(Nodes)
  BY <1>4, <1>5, ListFits
<1>7. QED BY <1>2, <1>3, <1>4, <1>5, <1>6

\* A live node without a parent stands in a chain.
LEMMA HeadOf ==
  ASSUME TreeInv, NEW x \in Nodes \ stale, parent[x] = Null
  PROVE  \E h \in Nodes : ChainHead(h) /\ Reaches(next_sibling, h, x)
<1> DEFINE Has(y) == \E h \in Nodes : ChainHead(h) /\ Reaches(next_sibling, h, y)
           S == {y \in Nodes \ stale : parent[y] = Null /\ ~Has(y)}
<1>1. ASSUME NEW y \in S PROVE prev_sibling[y] \in S
  <2>1. y \in Nodes \ stale /\ parent[y] = Null /\ ~Has(y)
    OBVIOUS
  <2>2. prev_sibling[y] # Null
    <3>1. SUFFICES ASSUME prev_sibling[y] = Null PROVE FALSE
      OBVIOUS
    <3>2. ChainHead(y) /\ Reaches(next_sibling, y, y)
      BY <2>1, <3>1, ReachesSelf DEF ChainHead
    <3>3. QED BY <2>1, <3>2
  <2> DEFINE z == prev_sibling[y]
  <2>3. z \in Nodes /\ next_sibling[z] = y
    BY <2>1, <2>2 DEF TreeInv, LinksTyped, LinkedBothWays, Pointer
  <2>4. z \notin stale /\ parent[z] = Null
    BY <2>1, <2>3, NullIsNoNode DEF TreeInv, EndsMeet, LinkedBothWays
  <2>5. ~Has(z)
    <3>1. SUFFICES ASSUME NEW h \in Nodes, ChainHead(h), Reaches(next_sibling, h, z) PROVE FALSE
      OBVIOUS
    <3>2. next_sibling \in [Nodes -> Pointer] /\ h \in Pointer
      BY DEF TreeInv, LinksTyped, Pointer
    <3>3. Reaches(next_sibling, h, next_sibling[z])
      BY <2>1, <2>3, <3>1, <3>2, ReachesOnward, NullIsNoNode
    <3>4. Has(y)
      BY <2>3, <3>1, <3>3
    <3> HIDE DEF Has
    <3>5. QED BY <2>1, <3>4
  <2> HIDE DEF Has
  <2>6. QED BY <2>3, <2>4, <2>5
<1> HIDE DEF Has
<1>2. S = {}
  <2>1. S \in SUBSET Nodes
    OBVIOUS
  <2> HIDE DEF S
  <2>2. QED BY <1>1, <2>1 DEF TreeInv, NoRings, NoCycle
<1>3. Has(x)
  BY <1>2
<1>4. QED BY <1>3 DEF Has

\* The children of every node and the chains the callers hold.
Kids == [p \in Nodes |-> IF p \in stale THEN <<>> ELSE Chain(first_child[p])]

Chains == {Chain(h) : h \in {n \in Nodes : ChainHead(n)}}

\* OrderedForest has its own copy of the library.
LEMMA SameCard ==
  ASSUME NEW S PROVE Forest!Cardinality(S) = Cardinality(S)
BY DEF Forest!Cardinality, Cardinality

LEMMA SameToSet ==
  ASSUME NEW s PROVE Forest!ToSet(s) = ToSet(s)
BY DEF Forest!ToSet, ToSet

LEMMA SameInsert ==
  ASSUME NEW s, NEW i, NEW x PROVE Forest!InsertAt(s, i, x) = InsertAt(s, i, x)
BY DEF Forest!InsertAt, InsertAt

LEMMA SameRemove ==
  ASSUME NEW s, NEW i PROVE Forest!RemoveAt(s, i) = RemoveAt(s, i)
BY DEF Forest!RemoveAt, RemoveAt

\* Where a node stands in a list without repetitions.
LEMMA OnePlace ==
  ASSUME NEW q \in Seq(Nodes), IsInjective(q), NEW x \in ToSet(q)
  PROVE  \E i \in DOMAIN q : Forest!Places(q, x) = {i}
<1>1. PICK i \in DOMAIN q : q[i] = x
  BY DEF ToSet
<1>2. \A j \in DOMAIN q : q[j] = x => j = i
  BY <1>1 DEF IsInjective
<1>3. QED BY <1>1, <1>2 DEF Forest!Places

LEMMA NoPlace ==
  ASSUME NEW q \in Seq(Nodes), NEW x, x \notin ToSet(q)
  PROVE  Forest!Places(q, x) = {}
BY Zenon DEF Forest!Places, ToSet

\* The children of a live node, as the list holds them.
LEMMA KidsAre ==
  ASSUME IsFiniteSet(Nodes), TreeInv, NEW p \in Nodes
  PROVE  /\ Kids[p] \in Seq(Nodes) /\ IsInjective(Kids[p])
         /\ ToSet(Kids[p]) = {x \in Nodes \ stale : parent[x] = p /\ p \notin stale}
         /\ DOMAIN Kids[p] \subseteq 1 .. Cardinality(Nodes)
<1>1. CASE p \in stale
  <2>1. Kids[p] = <<>>
    BY <1>1 DEF Kids
  <2>2. <<>> \in Seq(Nodes) /\ DOMAIN <<>> = {}
    OBVIOUS
  <2>3. QED BY <1>1, <2>1, <2>2 DEF IsInjective, ToSet
<1>2. CASE p \notin stale
  <2>1. Kids[p] = Chain(first_child[p])
    BY <1>2 DEF Kids
  <2>2. /\ Chain(first_child[p]) \in Seq(Nodes) /\ IsInjective(Chain(first_child[p]))
        /\ ToSet(Chain(first_child[p])) = Listed(p)
    BY ChildChain
  <2>3. Listed(p) = {x \in Nodes \ stale : parent[x] = p}
    <3>1. \A c \in Listed(p) : c \in Nodes \ stale /\ parent[c] = p
      BY <1>2, ListedIsChild
    <3>2. \A c \in Nodes \ stale : parent[c] = p => c \in Listed(p)
      BY <1>2, ChildIsListed
    <3>3. QED BY <3>1, <3>2
  <2>4. DOMAIN Chain(first_child[p]) \subseteq 1 .. Cardinality(Nodes)
    <3> DEFINE q == Chain(first_child[p])
    <3>1. first_child[p] \in Pointer
      BY DEF TreeInv, LinksTyped
    <3>2. Len(q) \in Nat /\ Len(q) <= Cardinality(Nodes) /\ DOMAIN q = 1 .. Len(q)
      BY <3>1, ChainIs
    <3>3. Cardinality(Nodes) \in Nat
      BY FS_CardinalityType
    <3> HIDE DEF q
    <3>4. DOMAIN q \subseteq 1 .. Cardinality(Nodes)
      BY <3>2, <3>3
    <3>5. QED BY <3>4 DEF q
  <2>5. QED BY <1>2, <2>1, <2>2, <2>3, <2>4
<1>3. QED BY <1>1, <1>2

\* The nodes of a chain.
LEMMA ChainsAre ==
  ASSUME IsFiniteSet(Nodes), TreeInv, NEW h \in Nodes, ChainHead(h)
  PROVE  /\ Chain(h) \in Seq(Nodes) /\ IsInjective(Chain(h))
         /\ ToSet(Chain(h)) = {x \in Nodes : Reaches(next_sibling, h, x)}
         /\ \A x \in ToSet(Chain(h)) : x \in Nodes \ stale /\ parent[x] = Null
         /\ h \in ToSet(Chain(h))
         /\ DOMAIN Chain(h) \subseteq 1 .. Cardinality(Nodes)
<1> DEFINE q == Chain(h)
<1>1. h \in Pointer
  BY DEF Pointer
<1>2. /\ q \in Seq(Nodes) /\ IsInjective(q)
      /\ ToSet(q) = {x \in Nodes : Reaches(next_sibling, h, x)}
      /\ Len(q) \in Nat /\ Len(q) <= Cardinality(Nodes) /\ DOMAIN q = 1 .. Len(q)
  BY <1>1, ChainIs
<1> HIDE DEF q
<1>3. Cardinality(Nodes) \in Nat
  BY FS_CardinalityType
<1>4. \A x \in ToSet(q) : x \in Nodes \ stale /\ parent[x] = Null
  BY <1>2, ChainOfHead
<1>5. h \in ToSet(q)
  BY <1>2, ReachesSelf
<1>6. DOMAIN q \subseteq 1 .. Cardinality(Nodes)
  BY <1>2, <1>3
<1>7. QED BY <1>2, <1>4, <1>5, <1>6 DEF q

\* The links put every node callers own in one place.
LEMMA PlacedOnce ==
  ASSUME IsFiniteSet(Nodes), TreeInv
  PROVE  EachNodeOnce
<1> DEFINE index == 1 .. Cardinality(Nodes)
           InLists(n) == {q \in Nodes \X index : q[2] \in Forest!Places(Kids[q[1]], n)}
           InChains(n) == {q \in Chains \X index : q[2] \in Forest!Places(q[1], n)}
<1>1. SUFFICES ASSUME NEW n \in Nodes
               PROVE  Cardinality(InLists(n)) + Cardinality(InChains(n))
                        = IF n \in stale THEN 0 ELSE 1
  BY SameCard DEF EachNodeOnce, Forest!EachNodeOnce, Kids, Chains
<1>2. Cardinality({}) = 0
  BY FS_EmptySet
<1>3. \A q \in Chains : \E h \in Nodes : ChainHead(h) /\ q = Chain(h)
  BY DEF Chains
<1>4. CASE n \in stale
  <2>1. InLists(n) = {}
    <3>1. \A p \in Nodes : Forest!Places(Kids[p], n) = {}
      BY <1>4, KidsAre, NoPlace
    <3>2. QED BY <3>1
  <2>2. InChains(n) = {}
    <3>1. \A q \in Chains : Forest!Places(q, n) = {}
      BY <1>3, <1>4, ChainsAre, NoPlace
    <3>2. QED BY <3>1
  <2> HIDE DEF InLists, InChains
  <2>3. QED BY <1>2, <1>4, <2>1, <2>2
<1>5. CASE n \notin stale /\ parent[n] # Null
  <2>1. parent[n] \in Nodes \ stale
    BY <1>5 DEF TreeInv, LinksTyped, EndsMeet, Pointer
  <2>2. n \in ToSet(Kids[parent[n]])
    BY <1>5, <2>1, KidsAre
  <2>3. PICK i \in DOMAIN Kids[parent[n]] : Forest!Places(Kids[parent[n]], n) = {i}
    BY <2>1, <2>2, KidsAre, OnePlace
  <2>4. i \in index
    BY <2>1, <2>3, KidsAre
  <2>5. \A p \in Nodes : p # parent[n] => Forest!Places(Kids[p], n) = {}
    <3>1. ASSUME NEW p \in Nodes, p # parent[n] PROVE Forest!Places(Kids[p], n) = {}
      <4>1. Kids[p] \in Seq(Nodes) /\ n \notin ToSet(Kids[p])
        BY <3>1, KidsAre
      <4>2. QED BY <4>1, NoPlace
    <3>2. QED BY <3>1
  <2>6. InLists(n) = {<<parent[n], i>>}
    BY <2>1, <2>3, <2>4, <2>5
  <2>7. InChains(n) = {}
    <3>1. ASSUME NEW q \in Chains PROVE Forest!Places(q, n) = {}
      <4>1. q \in Seq(Nodes) /\ n \notin ToSet(q)
        BY <1>3, <1>5, ChainsAre
      <4>2. QED BY <4>1, NoPlace
    <3>2. QED BY <3>1
  <2>8. Cardinality({<<parent[n], i>>}) = 1
    BY FS_Singleton
  <2> HIDE DEF InLists, InChains
  <2>9. QED BY <1>2, <1>5, <2>6, <2>7, <2>8
<1>6. CASE n \notin stale /\ parent[n] = Null
  <2>1. PICK h \in Nodes : ChainHead(h) /\ Reaches(next_sibling, h, n)
    BY <1>6, HeadOf
  <2> DEFINE c == Chain(h)
  <2>2. c \in Chains /\ c \in Seq(Nodes) /\ IsInjective(c) /\ n \in ToSet(c) /\ DOMAIN c \subseteq index
    <3>1. c \in Seq(Nodes) /\ IsInjective(c) /\ n \in ToSet(c) /\ DOMAIN c \subseteq index
      BY <2>1, ChainsAre
    <3>2. c \in Chains
      BY <2>1 DEF Chains
    <3>3. QED BY <3>1, <3>2
  <2> HIDE DEF c
  <2>3. PICK i \in DOMAIN c : Forest!Places(c, n) = {i}
    BY <2>2, OnePlace
  <2>4. ASSUME NEW q \in Chains, q # c PROVE Forest!Places(q, n) = {}
    <3>1. PICK k \in Nodes : ChainHead(k) /\ q = Chain(k)
      BY <1>3
    <3>2. k # h
      BY <2>4, <3>1 DEF c
    <3>3. ~Reaches(next_sibling, k, n)
      BY <2>1, <3>1, <3>2, ChainsApart
    <3>4. q \in Seq(Nodes) /\ n \notin ToSet(q)
      BY <3>1, <3>3, ChainsAre
    <3>5. QED BY <3>4, NoPlace
  <2>5. InChains(n) = {<<c, i>>}
    BY <2>2, <2>3, <2>4
  <2>6. InLists(n) = {}
    <3>1. ASSUME NEW p \in Nodes PROVE Forest!Places(Kids[p], n) = {}
      <4>1. Kids[p] \in Seq(Nodes) /\ n \notin ToSet(Kids[p])
        BY <1>6, KidsAre, NullIsNoNode
      <4>2. QED BY <4>1, NoPlace
    <3>2. QED BY <3>1
  <2>7. Cardinality({<<c, i>>}) = 1
    BY FS_Singleton
  <2> HIDE DEF InLists, InChains
  <2>8. QED BY <1>2, <1>6, <2>5, <2>6, <2>7
<1>7. QED BY <1>4, <1>5, <1>6

\* Unless an attached node has been attached again, a node callers own stands in one
\* place of the forest, and a node that is left behind in none.
THEOREM OnePlaceEach ==
  ASSUME IsFiniteSet(Nodes)
  PROVE  AstSpec => []EachNodeOnce
<1>1. AstInv => EachNodeOnce
  <2>1. CASE torn
    BY <2>1 DEF EachNodeOnce, Forest!EachNodeOnce
  <2>2. CASE ~torn
    BY <2>2, PlacedOnce DEF AstInv
  <2>3. QED BY <2>1, <2>2
<1>2. QED BY <1>1, Invariance, PTL

----------------------------------------------------------------------------
\* Ways: lists that may end anywhere, to be cut and joined.

\* q is the way from h along the link up to e, without e.
IsWay(link, h, q, e) ==
  /\ q \in Seq(Nodes)
  /\ IF Len(q) = 0 THEN h = e ELSE q[1] = h /\ link[q[Len(q)]] = e
  /\ \A i \in 1 .. Len(q) - 1 : link[q[i]] = q[i + 1]

\* A list is a way that ends nowhere.
LEMMA ListIsWay ==
  ASSUME NEW link, NEW h \in Pointer, NEW q
  PROVE  IsList(link, h, q) <=> IsWay(link, h, q, Null)
<1>1. ASSUME IsList(link, h, q) PROVE IsWay(link, h, q, Null)
  <2>1. CASE h = Null
    BY <1>1, <2>1 DEF IsList, IsWay
  <2>2. CASE h # Null
    BY <1>1, <2>2 DEF IsList, IsWay
  <2>3. QED BY <2>1, <2>2
<1>2. ASSUME IsWay(link, h, q, Null) PROVE IsList(link, h, q)
  <2>1. q \in Seq(Nodes) /\ Len(q) \in Nat
    BY <1>2 DEF IsWay
  <2>2. CASE Len(q) = 0
    <3>1. q = <<>> /\ h = Null
      BY <1>2, <2>1, <2>2, EmptySeq DEF IsWay
    <3>2. QED BY <1>2, <3>1 DEF IsList, IsWay
  <2>3. CASE Len(q) # 0
    <3>1. 1 \in 1 .. Len(q) /\ q[1] \in Nodes /\ q[1] = h
      BY <1>2, <2>1, <2>3 DEF IsWay
    <3>2. h # Null
      BY <3>1, NullIsNoNode
    <3>3. QED BY <1>2, <2>1, <2>3, <3>2 DEF IsList, IsWay
  <2>4. QED BY <2>2, <2>3
<1>3. QED BY <1>1, <1>2

\* Two ways, the second from where the first one ends, make one.
LEMMA WayOn ==
  ASSUME NEW link, NEW h, NEW q, NEW m, NEW r, NEW e,
         IsWay(link, h, q, m), IsWay(link, m, r, e)
  PROVE  IsWay(link, h, q \o r, e)
<1> DEFINE t == q \o r
<1>1. q \in Seq(Nodes) /\ Len(q) \in Nat /\ r \in Seq(Nodes) /\ Len(r) \in Nat
  BY DEF IsWay
<1>2. /\ t \in Seq(Nodes) /\ Len(t) = Len(q) + Len(r)
      /\ \A i \in 1 .. Len(q) + Len(r) : t[i] = IF i <= Len(q) THEN q[i] ELSE r[i - Len(q)]
  BY <1>1, ConcatProperties
<1> HIDE DEF t
<1>3. CASE Len(q) = 0
  <2>1. q = <<>> /\ h = m
    BY <1>1, <1>3, EmptySeq DEF IsWay
  <2>2. t = r
    BY <1>1, <2>1, ConcatEmptySeq DEF t
  <2>3. QED BY <2>1, <2>2 DEF t
<1>4. CASE Len(r) = 0
  <2>1. r = <<>> /\ m = e
    BY <1>1, <1>4, EmptySeq DEF IsWay
  <2>2. t = q
    BY <1>1, <2>1, ConcatEmptySeq DEF t
  <2>3. QED BY <2>1, <2>2 DEF t
<1>5. CASE Len(q) # 0 /\ Len(r) # 0
  <2>1. q[1] = h /\ link[q[Len(q)]] = r[1] /\ link[r[Len(r)]] = e
    BY <1>5 DEF IsWay
  <2>2. /\ 1 \in 1 .. Len(q) + Len(r) /\ 1 <= Len(q)
        /\ Len(t) \in 1 .. Len(q) + Len(r) /\ ~(Len(t) <= Len(q)) /\ Len(t) - Len(q) = Len(r)
    BY <1>1, <1>2, <1>5
  <2>3. t[1] = h /\ link[t[Len(t)]] = e
    BY <1>2, <2>1, <2>2
  <2>4. ASSUME NEW i \in 1 .. Len(t) - 1 PROVE link[t[i]] = t[i + 1]
    <3>1. i \in 1 .. Len(q) + Len(r) /\ i + 1 \in 1 .. Len(q) + Len(r)
      BY <1>1, <1>2
    <3>2. CASE i < Len(q)
      <4>1. i \in 1 .. Len(q) - 1 /\ i <= Len(q) /\ i + 1 <= Len(q)
        BY <1>1, <3>1, <3>2
      <4>2. link[q[i]] = q[i + 1]
        BY <4>1 DEF IsWay
      <4>3. QED BY <1>2, <3>1, <4>1, <4>2
    <3>3. CASE i = Len(q)
      <4>1. i <= Len(q) /\ ~(i + 1 <= Len(q)) /\ (i + 1) - Len(q) = 1
        BY <1>1, <3>3
      <4>2. t[i] = q[Len(q)] /\ t[i + 1] = r[1]
        BY <1>2, <3>1, <3>3, <4>1
      <4>3. QED BY <2>1, <4>2
    <3>4. CASE i > Len(q)
      <4>1. /\ ~(i <= Len(q)) /\ ~(i + 1 <= Len(q)) /\ i - Len(q) \in 1 .. Len(r) - 1
            /\ (i + 1) - Len(q) = (i - Len(q)) + 1
        BY <1>1, <1>2, <3>1, <3>4
      <4>2. link[r[i - Len(q)]] = r[(i - Len(q)) + 1]
        BY <4>1 DEF IsWay
      <4>3. t[i] = r[i - Len(q)] /\ t[i + 1] = r[(i - Len(q)) + 1]
        BY <1>2, <3>1, <4>1
      <4>4. QED BY <4>2, <4>3
    <3>5. QED BY <1>1, <3>1, <3>2, <3>3, <3>4
  <2>5. QED BY <1>1, <1>2, <1>5, <2>3, <2>4 DEF IsWay, t
<1>6. QED BY <1>3, <1>4, <1>5

\* What is cut from a sequence.
LEMMA Cut ==
  ASSUME NEW q \in Seq(Nodes), NEW i \in 0 .. Len(q)
  PROVE  /\ SubSeq(q, 1, i) \in Seq(Nodes) /\ Len(SubSeq(q, 1, i)) = i
         /\ \A j \in 1 .. i : SubSeq(q, 1, i)[j] = q[j]
         /\ SubSeq(q, i + 1, Len(q)) \in Seq(Nodes)
         /\ Len(SubSeq(q, i + 1, Len(q))) = Len(q) - i
         /\ \A j \in 1 .. Len(q) - i : SubSeq(q, i + 1, Len(q))[j] = q[i + j]
<1>1. Len(q) \in Nat /\ i \in Nat /\ i <= Len(q) /\ \A j \in 1 .. Len(q) : q[j] \in Nodes
  OBVIOUS
<1> DEFINE a == SubSeq(q, 1, i)
           b == SubSeq(q, i + 1, Len(q))
<1>2. a \in Seq(Nodes) /\ Len(a) = i /\ \A j \in 1 .. i : a[j] = q[j]
  <2>1. 1 \in Int /\ i \in Int /\ \A j \in 1 .. i : q[j] \in Nodes
    BY <1>1
  <2>2. /\ a \in Seq(Nodes) /\ Len(a) = (IF 1 <= i THEN i - 1 + 1 ELSE 0)
        /\ \A j \in 1 .. i - 1 + 1 : a[j] = q[1 + j - 1]
    BY <2>1, SubSeqProperties
  <2> HIDE DEF a
  <2>3. Len(a) = i
    BY <1>1, <2>2
  <2>4. ASSUME NEW j \in 1 .. i PROVE a[j] = q[j]
    <3>1. j \in 1 .. i - 1 + 1 /\ 1 + j - 1 = j
      BY <1>1
    <3>2. QED BY <2>2, <3>1
  <2>5. QED BY <2>2, <2>3, <2>4
<1>3. b \in Seq(Nodes) /\ Len(b) = Len(q) - i /\ \A j \in 1 .. Len(q) - i : b[j] = q[i + j]
  <2>1. i + 1 \in Int /\ Len(q) \in Int /\ \A j \in i + 1 .. Len(q) : q[j] \in Nodes
    BY <1>1
  <2>2. /\ b \in Seq(Nodes) /\ Len(b) = (IF i + 1 <= Len(q) THEN Len(q) - (i + 1) + 1 ELSE 0)
        /\ \A j \in 1 .. Len(q) - (i + 1) + 1 : b[j] = q[(i + 1) + j - 1]
    BY <2>1, SubSeqProperties
  <2> HIDE DEF b
  <2>3. Len(b) = Len(q) - i
    BY <1>1, <2>2
  <2>4. ASSUME NEW j \in 1 .. Len(q) - i PROVE b[j] = q[i + j]
    <3>1. j \in 1 .. Len(q) - (i + 1) + 1 /\ (i + 1) + j - 1 = i + j
      BY <1>1
    <3>2. QED BY <2>2, <3>1
  <2>5. QED BY <2>2, <2>3, <2>4
<1>4. QED BY <1>2, <1>3

\* A way can be cut at any place.
LEMMA WayCut ==
  ASSUME NEW link, NEW h, NEW q, NEW e, NEW i \in 0 .. Len(q), IsWay(link, h, q, e)
  PROVE  /\ IsWay(link, h, SubSeq(q, 1, i), IF i = Len(q) THEN e ELSE q[i + 1])
         /\ IsWay(link, IF i = Len(q) THEN e ELSE q[i + 1], SubSeq(q, i + 1, Len(q)), e)
<1> DEFINE a == SubSeq(q, 1, i)
           b == SubSeq(q, i + 1, Len(q))
           m == IF i = Len(q) THEN e ELSE q[i + 1]
<1>1. q \in Seq(Nodes) /\ Len(q) \in Nat /\ i \in Nat /\ i <= Len(q)
  BY DEF IsWay
<1>2. /\ a \in Seq(Nodes) /\ Len(a) = i /\ \A j \in 1 .. i : a[j] = q[j]
      /\ b \in Seq(Nodes) /\ Len(b) = Len(q) - i /\ \A j \in 1 .. Len(q) - i : b[j] = q[i + j]
  BY <1>1, Cut
<1> HIDE DEF a, b
<1>3. IsWay(link, h, a, m)
  <2>1. ASSUME NEW j \in 1 .. Len(a) - 1 PROVE link[a[j]] = a[j + 1]
    <3>1. j \in 1 .. i /\ j + 1 \in 1 .. i /\ j \in 1 .. Len(q) - 1
      BY <1>1, <1>2
    <3>2. QED BY <1>2, <3>1 DEF IsWay
  <2>2. CASE i = 0
    <3>1. h = m
      BY <1>1, <2>2 DEF IsWay
    <3>2. QED BY <1>2, <2>1, <2>2, <3>1 DEF IsWay
  <2>3. CASE i # 0
    <3>1. 1 \in 1 .. i /\ i \in 1 .. i /\ Len(q) # 0
      BY <1>1, <2>3
    <3>2. a[1] = h /\ a[Len(a)] = q[i]
      BY <1>2, <3>1 DEF IsWay
    <3>3. link[q[i]] = m
      <4>1. CASE i = Len(q)
        BY <3>1, <4>1 DEF IsWay
      <4>2. CASE i # Len(q)
        <5>1. i \in 1 .. Len(q) - 1
          BY <1>1, <3>1, <4>2
        <5>2. QED BY <4>2, <5>1 DEF IsWay
      <4>3. QED BY <4>1, <4>2
    <3>4. QED BY <1>2, <2>1, <2>3, <3>2, <3>3 DEF IsWay
  <2>4. QED BY <2>2, <2>3
<1>4. IsWay(link, m, b, e)
  <2>1. ASSUME NEW j \in 1 .. Len(b) - 1 PROVE link[b[j]] = b[j + 1]
    <3>1. /\ j \in 1 .. Len(q) - i /\ j + 1 \in 1 .. Len(q) - i /\ i + j \in 1 .. Len(q) - 1
          /\ i + (j + 1) = (i + j) + 1
      BY <1>1, <1>2
    <3>2. b[j] = q[i + j] /\ b[j + 1] = q[(i + j) + 1]
      BY <1>2, <3>1
    <3>3. QED BY <3>1, <3>2 DEF IsWay
  <2>2. CASE i = Len(q)
    <3>1. Len(b) = 0 /\ m = e
      BY <1>1, <1>2, <2>2
    <3>2. QED BY <1>2, <2>1, <3>1 DEF IsWay
  <2>3. CASE i # Len(q)
    <3>1. /\ 1 \in 1 .. Len(q) - i /\ Len(b) \in 1 .. Len(q) - i /\ i + Len(b) = Len(q)
          /\ Len(b) # 0 /\ Len(q) # 0
      BY <1>1, <1>2, <2>3
    <3>2. b[1] = m /\ b[Len(b)] = q[Len(q)]
      BY <1>2, <2>3, <3>1
    <3>3. link[q[Len(q)]] = e
      BY <3>1 DEF IsWay
    <3>4. QED BY <1>2, <2>1, <3>1, <3>2, <3>3 DEF IsWay
  <2>4. QED BY <2>2, <2>3
<1>5. QED BY <1>3, <1>4 DEF a, b

\* A way stays one when only its last link, or what starts it if it is empty,
\* is rewritten.
LEMMA WayTurned ==
  ASSUME NEW link, NEW h, NEW q, NEW e, NEW new, NEW g, NEW d,
         IsWay(link, h, q, e),
         \A i \in 1 .. Len(q) - 1 : new[q[i]] = link[q[i]],
         IF Len(q) = 0 THEN g = d ELSE g = h /\ new[q[Len(q)]] = d
  PROVE  IsWay(new, g, q, d)
BY DEF IsWay

\* The list a rewritten link makes, when a way is known.
LEMMA ListKnown ==
  ASSUME IsFiniteSet(Nodes), NEW link \in [Nodes -> Pointer], NoCycle(link), NEW h \in Pointer,
         NEW q, IsWay(link, h, q, Null)
  PROVE  ListFrom(link, h) = q
BY ListFromIsList, ListUnique, ListIsWay

----------------------------------------------------------------------------
\* What a step leaves of lists, children and chains.

\* The forest after a step.
LEMMA NextForest ==
  /\ Kids' = [p \in Nodes |-> IF p \in stale' THEN <<>> ELSE ListFrom(next_sibling', first_child'[p])]
  /\ Chains' = {ListFrom(next_sibling', h) : h \in {n \in Nodes : ChainHead(n)'}}
BY DEF Kids, Chains, Chain

LEMMA NextLinks ==
  ASSUME TreeInv'
  PROVE  /\ next_sibling' \in [Nodes -> Pointer] /\ NoCycle(next_sibling')
         /\ first_child' \in [Nodes -> Pointer]
BY DEF TreeInv, LinksTyped, NoRings, NoCycle

\* A list whose links are not rewritten stays.
LEMMA ListKept ==
  ASSUME IsFiniteSet(Nodes), TreeInv, TreeInv', NEW h \in Pointer,
         \A x \in ToSet(Chain(h)) : next_sibling'[x] = next_sibling[x]
  PROVE  ListFrom(next_sibling', h) = Chain(h)
<1> DEFINE q == Chain(h)
<1>1. IsWay(next_sibling, h, q, Null) /\ q \in Seq(Nodes)
  BY ChainIs, ListIsWay
<1>2. \A i \in 1 .. Len(q) : next_sibling'[q[i]] = next_sibling[q[i]]
  <2>1. \A i \in 1 .. Len(q) : q[i] \in ToSet(q)
    <3>1. DOMAIN q = 1 .. Len(q)
      BY <1>1
    <3>2. QED BY <3>1, Zenon DEF ToSet
  <2>2. QED BY <2>1
<1> HIDE DEF q
<1>3. IF Len(q) = 0 THEN h = Null ELSE h = h /\ next_sibling'[q[Len(q)]] = Null
  <2>1. Len(q) \in Nat
    BY <1>1
  <2>2. Len(q) # 0 => Len(q) \in 1 .. Len(q)
    BY <2>1
  <2>3. QED BY <1>1, <1>2, <2>2 DEF IsWay
<1>4. \A i \in 1 .. Len(q) - 1 : next_sibling'[q[i]] = next_sibling[q[i]]
  <2>1. \A i \in 1 .. Len(q) - 1 : i \in 1 .. Len(q)
    BY <1>1
  <2>2. QED BY <1>2, <2>1
<1>5. IsWay(next_sibling', h, q, Null)
  BY <1>1, <1>3, <1>4, WayTurned
<1>6. ListFrom(next_sibling', h) = q
  BY <1>5, NextLinks, ListKnown
<1>7. QED BY <1>6 DEF q

LEMMA KidsKept ==
  ASSUME IsFiniteSet(Nodes), TreeInv, TreeInv', NEW p \in Nodes \ stale, p \notin stale',
         first_child'[p] = first_child[p],
         \A x \in Nodes \ stale : parent[x] = p => next_sibling'[x] = next_sibling[x]
  PROVE  Kids'[p] = Kids[p]
<1>1. first_child[p] \in Pointer
  BY DEF TreeInv, LinksTyped
<1>2. Kids[p] = Chain(first_child[p])
  BY DEF Kids
<1>3. \A x \in ToSet(Chain(first_child[p])) : next_sibling'[x] = next_sibling[x]
  BY <1>2, KidsAre
<1>4. ListFrom(next_sibling', first_child[p]) = Chain(first_child[p])
  BY <1>1, <1>3, ListKept
<1>5. Kids'[p] = ListFrom(next_sibling', first_child'[p])
  BY NextForest
<1>6. QED BY <1>2, <1>4, <1>5

LEMMA ChainKept ==
  ASSUME IsFiniteSet(Nodes), TreeInv, TreeInv', NEW h \in Nodes,
         \A x \in Nodes : Reaches(next_sibling, h, x) => next_sibling'[x] = next_sibling[x]
  PROVE  ListFrom(next_sibling', h) = Chain(h)
<1>1. h \in Pointer
  BY DEF Pointer
<1>2. \A x \in ToSet(Chain(h)) : next_sibling'[x] = next_sibling[x]
  BY <1>1, ChainIs
<1>3. QED BY <1>1, <1>2, ListKept

\* Different heads have different chains.
LEMMA ChainsDiffer ==
  ASSUME IsFiniteSet(Nodes), TreeInv, NEW h \in Nodes, ChainHead(h),
         NEW k \in Nodes, ChainHead(k), Chain(h) = Chain(k)
  PROVE  h = k
<1>1. h \in ToSet(Chain(k))
  BY ChainsAre
<1>2. Reaches(next_sibling, k, h) /\ Reaches(next_sibling, h, h)
  BY <1>1, ChainsAre, ReachesSelf
<1>3. QED BY <1>2, ChainsApart

\* The last of a list is where it ends.
LEMMA LastOf ==
  ASSUME NEW link, NEW h \in Pointer, NEW q, IsList(link, h, q),
         NEW e \in ToSet(q), link[e] = Null
  PROVE  Len(q) \in Nat /\ Len(q) # 0 /\ q[Len(q)] = e
<1>1. q \in Seq(Nodes) /\ Len(q) \in Nat /\ DOMAIN q = 1 .. Len(q)
  BY DEF IsList
<1>2. PICK i \in DOMAIN q : q[i] = e
  BY DEF ToSet
<1>3. i \in 1 .. Len(q)
  BY <1>1
<1>4. CASE i = Len(q)
  BY <1>1, <1>2, <1>3, <1>4
<1>5. CASE i # Len(q)
  <2>1. i \in 1 .. Len(q) - 1 /\ i + 1 \in 1 .. Len(q)
    BY <1>1, <1>3, <1>5
  <2>2. link[q[i]] = q[i + 1] /\ q[i + 1] \in Nodes
    BY <1>1, <2>1 DEF IsList
  <2>3. QED BY <1>2, <2>2, NullIsNoNode
<1>6. QED BY <1>4, <1>5

\* What comes of putting the list of r behind a list that ends at e: the two,
\* one behind the other.
LEMMA ListsJoined ==
  ASSUME IsFiniteSet(Nodes), TreeInv, TreeInv', NEW h \in Pointer, NEW r \in Nodes, NEW e \in Nodes,
         e \in ToSet(Chain(h)), next_sibling[e] = Null, e \notin ToSet(Chain(r)),
         next_sibling' = [x \in Nodes |-> IF x = e THEN r ELSE next_sibling[x]]
  PROVE  ListFrom(next_sibling', h) = Chain(h) \o Chain(r)
<1> DEFINE q == Chain(h)
           s == Chain(r)
           new == next_sibling'
<1>1. r \in Pointer
  BY DEF Pointer
<1>2. /\ IsList(next_sibling, h, q) /\ IsWay(next_sibling, h, q, Null)
      /\ q \in Seq(Nodes) /\ IsInjective(q)
  BY ChainIs, ListIsWay
<1>3. IsWay(next_sibling, r, s, Null) /\ s \in Seq(Nodes)
  BY <1>1, ChainIs, ListIsWay
<1>4. \A x \in Nodes : new[x] = IF x = e THEN r ELSE next_sibling[x]
  OBVIOUS
<1> HIDE DEF q, s, new
<1>5. Len(q) \in Nat /\ Len(q) # 0 /\ q[Len(q)] = e
  BY <1>2, LastOf DEF q
<1>6. IsWay(new, h, q, r)
  <2>1. \A i \in 1 .. Len(q) - 1 : new[q[i]] = next_sibling[q[i]]
    <3>1. \A i \in 1 .. Len(q) - 1 : i \in DOMAIN q /\ Len(q) \in DOMAIN q /\ i # Len(q) /\ q[i] \in Nodes
      BY <1>2, <1>5
    <3>2. \A i \in 1 .. Len(q) - 1 : q[i] # e
      BY <1>2, <1>5, <3>1 DEF IsInjective
    <3>3. QED BY <1>4, <3>1, <3>2
  <2>2. IF Len(q) = 0 THEN h = r ELSE h = h /\ new[q[Len(q)]] = r
    BY <1>4, <1>5
  <2>3. QED BY <1>2, <2>1, <2>2, WayTurned
<1>7. IsWay(new, r, s, Null)
  <2>1. \A i \in 1 .. Len(s) : s[i] \in Nodes /\ s[i] # e
    <3>1. DOMAIN s = 1 .. Len(s)
      BY <1>3
    <3>2. \A i \in 1 .. Len(s) : s[i] \in ToSet(s)
      BY <3>1, Zenon DEF ToSet
    <3>3. QED BY <1>3, <3>2 DEF s
  <2>2. \A i \in 1 .. Len(s) : new[s[i]] = next_sibling[s[i]]
    BY <1>4, <2>1
  <2>3. Len(s) \in Nat
    BY <1>3
  <2>4. \A i \in 1 .. Len(s) - 1 : new[s[i]] = next_sibling[s[i]]
    <3>1. \A i \in 1 .. Len(s) - 1 : i \in 1 .. Len(s)
      BY <2>3
    <3>2. QED BY <2>2, <3>1
  <2>5. IF Len(s) = 0 THEN r = Null ELSE r = r /\ new[s[Len(s)]] = Null
    <3>1. Len(s) # 0 => Len(s) \in 1 .. Len(s)
      BY <2>3
    <3>2. QED BY <1>3, <2>2, <3>1 DEF IsWay
  <2>6. QED BY <1>3, <2>4, <2>5, WayTurned
<1>8. IsWay(new, h, q \o s, Null)
  BY <1>6, <1>7, WayOn
<1>9. new \in [Nodes -> Pointer] /\ NoCycle(new)
  BY NextLinks DEF new
<1>10. ListFrom(new, h) = q \o s
  BY <1>8, <1>9, ListKnown
<1>11. QED BY <1>10 DEF q, s, new

\* The children of p after the chain of r has been put behind them.
LEMMA KidsExtended ==
  ASSUME IsFiniteSet(Nodes), TreeInv, TreeInv',
         NEW p \in Nodes \ stale, p \notin stale', NEW r \in Nodes,
         \A x \in Nodes : Reaches(next_sibling, r, x) => parent[x] # p,
         first_child' = [first_child EXCEPT ![p] = IF @ = Null THEN r ELSE @],
         next_sibling' = [x \in Nodes |-> IF x = last_child[p] THEN r ELSE next_sibling[x]]
  PROVE  Kids'[p] = Kids[p] \o Chain(r)
<1> DEFINE h == first_child[p]
           e == last_child[p]
<1>1. /\ h \in Pointer /\ e \in Pointer /\ (h = Null <=> e = Null)
      /\ first_child'[p] = (IF h = Null THEN r ELSE h)
      /\ r \in Pointer
  BY DEF TreeInv, LinksTyped, Pointer
<1>2. Kids[p] = Chain(h) /\ Kids'[p] = ListFrom(next_sibling', first_child'[p])
  BY NextForest DEF Kids
<1>3. CASE h = Null
  <2>1. Chain(h) = <<>>
    <3>1. IsList(next_sibling, h, Chain(h))
      BY <1>1, ChainIs
    <3>2. QED BY <1>3, <3>1 DEF IsList
  <2>2. \A x \in Nodes : next_sibling'[x] = next_sibling[x]
    BY <1>1, <1>3, NullIsNoNode
  <2>3. ListFrom(next_sibling', r) = Chain(r)
    BY <2>2, ChainKept
  <2>4. Chain(r) \in Seq(Nodes)
    BY <1>1, ChainIs
  <2>5. <<>> \o Chain(r) = Chain(r)
    BY <2>4, ConcatEmptySeq
  <2>6. QED BY <1>1, <1>2, <1>3, <2>1, <2>3, <2>5
<1>4. CASE h # Null
  <2>1. e \in Nodes \ stale /\ parent[e] = p /\ next_sibling[e] = Null
    BY <1>1, <1>4 DEF TreeInv, EndsMeet, Pointer
  <2>2. e \in ToSet(Chain(h))
    BY <1>2, <2>1, KidsAre
  <2>3. e \notin ToSet(Chain(r))
    BY <1>1, <2>1, ChainIs
  <2>4. next_sibling' = [x \in Nodes |-> IF x = e THEN r ELSE next_sibling[x]]
    OBVIOUS
  <2> HIDE DEF h, e
  <2>5. ListFrom(next_sibling', h) = Chain(h) \o Chain(r)
    BY <1>1, <2>1, <2>2, <2>3, <2>4, ListsJoined
  <2>6. QED BY <1>1, <1>2, <1>4, <2>5
<1>5. QED BY <1>3, <1>4

----------------------------------------------------------------------------
\* Every operation is a step of the ordered forest.

\* What the forest has under a live node: the nodes that parent leads to it from.
LEMMA UnderIs ==
  ASSUME IsFiniteSet(Nodes), TreeInv, NEW n \in Nodes \ stale
  PROVE  Forest!Under(n) = Sub(n) \ {n}
<1> DEFINE Full(S) == ToSet(Kids[n]) \subseteq S /\ \A y \in S : ToSet(Kids[y]) \subseteq S
<1>1. Forest!Under(n) = {x \in Nodes : \A S \in SUBSET Nodes : Full(S) => x \in S}
  BY DEF Forest!Under, Forest!ToSet, ToSet, Kids
<1>2. parent \in [Nodes -> Pointer] /\ NoCycle(parent)
  BY DEF TreeInv, LinksTyped, NoRings
<1>3. \A p \in Nodes : ToSet(Kids[p]) = {x \in Nodes \ stale : parent[x] = p /\ p \notin stale}
  BY KidsAre
<1>4. ASSUME NEW x \in Forest!Under(n) PROVE x \in Sub(n) \ {n}
  <2> DEFINE S == Sub(n) \ {n}
  <2>1. \A y \in Nodes \ stale : parent[y] = n => y \in S
    <3>1. ASSUME NEW y \in Nodes \ stale, parent[y] = n PROVE y \in S
      <4>1. Reaches(parent, y, y) /\ y \in Pointer
        BY ReachesSelf DEF Pointer
      <4>2. Reaches(parent, y, n)
        BY <1>2, <3>1, <4>1, ReachesOnward, NullIsNoNode
      <4>3. y # n
        BY <1>2, <3>1, <4>1, NoReturn
      <4>4. QED BY <4>2, <4>3 DEF Sub
    <3>2. QED BY <3>1
  <2>2. ASSUME NEW y \in S, NEW z \in ToSet(Kids[y]) PROVE z \in S
    <3>1. y \in Nodes \ stale /\ Reaches(parent, y, n) /\ y # n
      BY DEF Sub
    <3>2. z \in Nodes \ stale /\ parent[z] = y
      BY <1>3, <2>2, <3>1
    <3>3. Reaches(parent, z, n)
      BY <1>2, <3>1, <3>2, ReachesFromNext
    <3>4. z # n
      BY <1>2, <3>1, <3>2, NoReturn
    <3>5. QED BY <3>2, <3>3, <3>4 DEF Sub
  <2>3. S \in SUBSET Nodes
    BY DEF Sub
  <2>4. ToSet(Kids[n]) \subseteq S
    BY <1>3, <2>1
  <2> HIDE DEF S
  <2>5. Full(S)
    BY <2>2, <2>4
  <2> HIDE DEF Full
  <2>6. x \in S
    BY <1>1, <1>4, <2>3, <2>5
  <2>7. QED BY <2>6 DEF S
<1>5. ASSUME NEW x \in Sub(n) \ {n} PROVE x \in Forest!Under(n)
  <2>1. x \in Nodes
    BY DEF Sub
  <2>2. ASSUME NEW S \in SUBSET Nodes, Full(S) PROVE x \in S
    <3> DEFINE Out == {z \in Nodes \ stale : Reaches(parent, z, n) /\ z # n /\ z \notin S}
    <3>1. ASSUME NEW z \in Out PROVE parent[z] \in Out
      <4>1. z \in Nodes \ stale /\ Reaches(parent, z, n) /\ z # n /\ z \notin S
        OBVIOUS
      <4>2. parent[z] \in Nodes /\ Reaches(parent, parent[z], n)
        BY <1>2, <4>1, ReachesNext
      <4>3. parent[z] \notin stale
        BY <4>1, <4>2, NullIsNoNode DEF TreeInv, EndsMeet
      <4>4. z \in ToSet(Kids[parent[z]])
        BY <1>3, <4>1, <4>2, <4>3
      <4>5. parent[z] # n /\ parent[z] \notin S
        BY <2>2, <4>1, <4>4
      <4>6. QED BY <4>2, <4>3, <4>5
    <3>2. Out = {}
      <4>1. Out \in SUBSET Nodes
        OBVIOUS
      <4> HIDE DEF Out
      <4>2. QED BY <1>2, <3>1, <4>1 DEF NoCycle
    <3>3. QED BY <3>2 DEF Sub
  <2>3. QED BY <1>1, <2>1, <2>2
<1>6. QED BY <1>4, <1>5

\* p is not in the forest under a node it does not hang below.
LEMMA NotUnder ==
  ASSUME IsFiniteSet(Nodes), TreeInv, NEW n \in Nodes \ stale, NEW p \in Nodes,
         ~Reaches(parent, p, n)
  PROVE  p # n /\ p \notin Forest!Under(n)
BY UnderIs, ReachesSelf DEF Sub

----------------------------------------------------------------------------
\* Steps that hand a chain to a parent.
LEMMA AdoptStep ==
  ASSUME IsFiniteSet(Nodes), TreeInv, TreeInv',
         NEW p \in Nodes, p \notin stale, NEW r \in Nodes, ChainHead(r),
         \A x \in Nodes : Reaches(next_sibling, r, x) => ~Reaches(parent, p, x),
         first_child' = [first_child EXCEPT ![p] = IF @ = Null THEN r ELSE @],
         next_sibling' = [x \in Nodes |-> IF x = last_child[p] THEN r ELSE next_sibling[x]],
         stale' = stale,
         \A x \in Nodes : ChainHead(x)' <=> ChainHead(x) /\ x # r
  PROVE  Forest!Rearrange
<1> DEFINE c == Chain(r)
<1>1. c \in Chains
  BY DEF Chains
<1>2. /\ \A x \in ToSet(c) : x \in Nodes \ stale /\ parent[x] = Null
      /\ ToSet(c) = {x \in Nodes : Reaches(next_sibling, r, x)}
  BY ChainsAre
<1>3. \A n \in ToSet(c) : p # n /\ p \notin Forest!Under(n)
  BY <1>2, NotUnder
<1>4. last_child[p] # Null => parent[last_child[p]] = p
  BY DEF TreeInv, LinksTyped, EndsMeet
<1>5. Kids' = [Kids EXCEPT ![p] = @ \o c]
  <2>1. Kids'[p] = Kids[p] \o c
    <3>1. p \notin stale' /\ \A x \in Nodes : Reaches(next_sibling, r, x) => parent[x] # p
      BY <1>2, NullIsNoNode
    <3>2. QED BY <3>1, KidsExtended
  <2>2. ASSUME NEW x \in Nodes, x # p PROVE Kids'[x] = Kids[x]
    <3>1. CASE x \in stale
      BY <3>1, NextForest DEF Kids
    <3>2. CASE x \notin stale
      <4>1. x \notin stale' /\ first_child'[x] = first_child[x]
        BY <2>2, <3>2 DEF TreeInv, LinksTyped
      <4>2. ASSUME NEW y \in Nodes \ stale, parent[y] = x PROVE next_sibling'[y] = next_sibling[y]
        BY <1>4, <2>2, <4>2, NullIsNoNode
      <4>3. QED BY <3>2, <4>1, <4>2, KidsKept
    <3>3. QED BY <3>1, <3>2
  <2>3. Kids' = [x \in Nodes |-> Kids'[x]] /\ Kids = [x \in Nodes |-> Kids[x]]
    BY NextForest DEF Kids
  <2> HIDE DEF c
  <2>4. QED BY <2>1, <2>2, <2>3
<1>6. Chains' = Chains \ {c}
  <2>1. ASSUME NEW h \in Nodes, ChainHead(h) PROVE ListFrom(next_sibling', h) = Chain(h)
    <3>1. \A x \in Nodes : Reaches(next_sibling, h, x) => parent[x] = Null
      BY <2>1, ChainOfHead
    <3>2. \A x \in Nodes : Reaches(next_sibling, h, x) => next_sibling'[x] = next_sibling[x]
      BY <1>4, <3>1, NullIsNoNode
    <3>3. QED BY <3>2, ChainKept
  <2>2. \A h \in Nodes : ChainHead(h) /\ h # r => Chain(h) # c
    BY ChainsDiffer
  <2>3. Chains' = {ListFrom(next_sibling', h) : h \in {n \in Nodes : ChainHead(n) /\ n # r}}
    BY NextForest
  <2>4. ASSUME NEW q \in Chains' PROVE q \in Chains \ {c}
    BY <2>1, <2>2, <2>3 DEF Chains
  <2>5. ASSUME NEW q \in Chains \ {c} PROVE q \in Chains'
    <3>1. PICK h \in Nodes : ChainHead(h) /\ q = Chain(h)
      BY DEF Chains
    <3>2. h # r
      BY <3>1
    <3>3. QED BY <2>1, <2>3, <3>1, <3>2
  <2>6. QED BY <2>4, <2>5
<1> HIDE DEF c
<1>7. PICK q : q = c
  OBVIOUS
<1>8. Forest!Adopt(p, q)
  <2>1. \A n \in Forest!ToSet(q) : p # n /\ p \notin Forest!Under(n)
    BY <1>3, <1>7, SameToSet
  <2>2. QED BY <1>5, <1>6, <1>7, <2>1 DEF Forest!Adopt, Kids, Chains
<1>9. \E n \in Nodes : \E d \in Chains : Forest!Adopt(n, d)
  BY <1>1, <1>7, <1>8
<1>10. QED BY <1>9, Zenon DEF Forest!Rearrange, Chains

\* AddSibling makes two chains one.
LEMMA JoinStep ==
  ASSUME IsFiniteSet(Nodes), TreeInv, TreeInv', NEW this \in Nodes, NEW sibling \in Nodes,
         CanAddSibling(this, sibling), AddSibling(this, sibling)
  PROVE  Forest!Rearrange
<1> DEFINE c == Chain(this)
           d == Chain(sibling)
<1>1. PICK e \in Nodes :
        /\ Reaches(next_sibling, this, e)
        /\ next_sibling[e] = Null
        /\ next_sibling' = [next_sibling EXCEPT ![e] = sibling]
        /\ prev_sibling' = [prev_sibling EXCEPT ![sibling] = e]
  BY DEF AddSibling
<1>2. /\ this # sibling /\ ChainHead(this) /\ ChainHead(sibling)
      /\ first_child' = first_child /\ stale' = stale /\ parent' = parent
  BY DEF AddSibling, CanAddSibling
<1>3. /\ next_sibling \in [Nodes -> Pointer] /\ prev_sibling \in [Nodes -> Pointer]
      /\ this \in Pointer /\ sibling \in Pointer
  BY DEF TreeInv, LinksTyped, Pointer
<1>4. c \in Chains /\ d \in Chains /\ c # d
  BY <1>2, ChainsDiffer DEF Chains
<1>5. next_sibling' = [x \in Nodes |-> IF x = e THEN sibling ELSE next_sibling[x]]
  BY <1>1, <1>3
<1>6. parent[e] = Null
  BY <1>1, <1>2, ChainOfHead
<1>7. Kids' = Kids
  <2>1. ASSUME NEW x \in Nodes PROVE Kids'[x] = Kids[x]
    <3>1. CASE x \in stale
      BY <1>2, <3>1, NextForest DEF Kids
    <3>2. CASE x \notin stale
      <4>1. x \notin stale' /\ first_child'[x] = first_child[x]
        BY <1>2, <3>2
      <4>2. ASSUME NEW y \in Nodes \ stale, parent[y] = x PROVE next_sibling'[y] = next_sibling[y]
        BY <1>5, <1>6, <4>2, NullIsNoNode
      <4>3. QED BY <3>2, <4>1, <4>2, KidsKept
    <3>3. QED BY <3>1, <3>2
  <2>2. Kids' = [x \in Nodes |-> Kids'[x]] /\ Kids = [x \in Nodes |-> Kids[x]]
    BY NextForest DEF Kids
  <2>3. QED BY <2>1, <2>2
<1>8. ListFrom(next_sibling', this) = c \o d
  <2>1. e \in ToSet(Chain(this))
    BY <1>1, <1>2, ChainsAre
  <2>2. e \notin ToSet(Chain(sibling))
    <3>1. ~Reaches(next_sibling, sibling, e)
      BY <1>1, <1>2, ChainsApart
    <3>2. QED BY <1>2, <3>1, ChainsAre
  <2>3. QED BY <1>1, <1>3, <1>5, <2>1, <2>2, ListsJoined
<1>9. \A x \in Nodes : ChainHead(x)' <=> ChainHead(x) /\ x # sibling
  <2>1. ASSUME NEW x \in Nodes
        PROVE  prev_sibling'[x] = Null <=> prev_sibling[x] = Null /\ x # sibling
    BY <1>1, <1>2, <1>3, NullIsNoNode DEF ChainHead
  <2>2. QED BY <1>2, <2>1 DEF ChainHead
<1>10. ASSUME NEW h \in Nodes, ChainHead(h), h # this, h # sibling
       PROVE  ListFrom(next_sibling', h) = Chain(h) /\ Chain(h) # c /\ Chain(h) # d
  <2>1. ~Reaches(next_sibling, h, e)
    BY <1>1, <1>2, <1>10, ChainsApart
  <2>2. \A x \in Nodes : Reaches(next_sibling, h, x) => next_sibling'[x] = next_sibling[x]
    BY <1>5, <2>1
  <2>3. QED BY <1>2, <1>10, <2>2, ChainKept, ChainsDiffer
<1>11. Chains' = (Chains \ {c, d}) \cup {c \o d}
  <2>1. Chains' = {ListFrom(next_sibling', h) : h \in {n \in Nodes : ChainHead(n) /\ n # sibling}}
    BY <1>9, NextForest
  <2>2. ASSUME NEW q \in Chains' PROVE q \in (Chains \ {c, d}) \cup {c \o d}
    <3>1. PICK h \in Nodes : ChainHead(h) /\ h # sibling /\ q = ListFrom(next_sibling', h)
      BY <2>1
    <3>2. CASE h = this
      BY <1>8, <3>1, <3>2
    <3>3. CASE h # this
      <4>1. q = Chain(h) /\ Chain(h) # c /\ Chain(h) # d
        BY <1>10, <3>1, <3>3
      <4>2. q \in Chains
        BY <3>1, <4>1 DEF Chains
      <4>3. QED BY <4>1, <4>2
    <3>4. QED BY <3>2, <3>3
  <2>3. ASSUME NEW q \in Chains \ {c, d} PROVE q \in Chains'
    <3>1. PICK h \in Nodes : ChainHead(h) /\ q = Chain(h)
      BY DEF Chains
    <3>2. h # this /\ h # sibling
      BY <3>1
    <3>3. QED BY <1>10, <2>1, <3>1, <3>2
  <2>4. c \o d \in Chains'
    BY <1>2, <1>8, <2>1
  <2>5. QED BY <2>2, <2>3, <2>4
<1> HIDE DEF c, d
<1>12. Forest!Join(c, d)
  BY <1>2, <1>4, <1>7, <1>11 DEF Forest!Join, Kids, Chains
<1>13. \E q, r \in Chains : Forest!Join(q, r)
  BY <1>4, <1>12
<1>14. QED BY <1>13, Zenon DEF Forest!Rearrange, Chains

\* The links of the children, by their places.
LEMMA KidsLinks ==
  ASSUME IsFiniteSet(Nodes), TreeInv, NEW p \in Nodes, p \notin stale, NEW i \in DOMAIN Kids[p]
  PROVE  /\ Len(Kids[p]) \in Nat /\ i \in 1 .. Len(Kids[p]) /\ DOMAIN Kids[p] = 1 .. Len(Kids[p])
         /\ Kids[p][i] \in Nodes \ stale /\ parent[Kids[p][i]] = p
         /\ next_sibling[Kids[p][i]] = IF i = Len(Kids[p]) THEN Null ELSE Kids[p][i + 1]
         /\ prev_sibling[Kids[p][i]] = IF i = 1 THEN Null ELSE Kids[p][i - 1]
         /\ first_child[p] = Kids[p][1]
         /\ IsWay(next_sibling, first_child[p], Kids[p], Null)
<1> DEFINE q == Kids[p]
           h == first_child[p]
<1>1. h \in Pointer /\ q = Chain(h)
  BY DEF TreeInv, LinksTyped, Kids
<1>2. q \in Seq(Nodes) /\ ToSet(q) = {x \in Nodes \ stale : parent[x] = p}
  BY KidsAre
<1>3. IsWay(next_sibling, h, q, Null)
  BY <1>1, ChainIs, ListIsWay
<1> HIDE DEF q
<1>4. Len(q) \in Nat /\ i \in 1 .. Len(q) /\ DOMAIN q = 1 .. Len(q) /\ Len(q) # 0
  <2>1. Len(q) \in Nat /\ DOMAIN q = 1 .. Len(q)
    BY <1>2
  <2>2. i \in 1 .. Len(q)
    BY <2>1 DEF q
  <2>3. QED BY <2>1, <2>2
<1>5. \A j \in 1 .. Len(q) : q[j] \in Nodes \ stale /\ parent[q[j]] = p
  <2>1. \A j \in 1 .. Len(q) : q[j] \in ToSet(q)
    BY <1>4, Zenon DEF ToSet
  <2>2. QED BY <1>2, <2>1
<1>6. h = q[1] /\ \A j \in 1 .. Len(q) : next_sibling[q[j]] = IF j = Len(q) THEN Null ELSE q[j + 1]
  <2>1. ASSUME NEW j \in 1 .. Len(q), j # Len(q) PROVE next_sibling[q[j]] = q[j + 1]
    <3>1. Len(q) \in Nat
      BY <1>4
    <3>2. j \in 1 .. Len(q) - 1
      BY <2>1, <3>1
    <3>3. QED BY <1>3, <3>2 DEF IsWay
  <2>2. h = q[1] /\ next_sibling[q[Len(q)]] = Null
    BY <1>3, <1>4 DEF IsWay
  <2>3. QED BY <2>1, <2>2
<1>7. prev_sibling[q[i]] = IF i = 1 THEN Null ELSE q[i - 1]
  <2>1. CASE i = 1
    <3>1. h # Null
      BY <1>4, <1>5, <1>6, <2>1, NullIsNoNode
    <3>2. QED BY <1>6, <2>1, <3>1 DEF TreeInv, EndsMeet
  <2>2. CASE i # 1
    <3>1. i - 1 \in 1 .. Len(q) /\ i - 1 # Len(q) /\ (i - 1) + 1 = i
      BY <1>4, <2>2
    <3>2. next_sibling[q[i - 1]] = q[i] /\ q[i - 1] \in Nodes /\ q[i] # Null
      BY <1>4, <1>5, <1>6, <3>1, NullIsNoNode
    <3>3. prev_sibling[q[i]] = q[i - 1]
      BY <3>2 DEF TreeInv, LinkedBothWays
    <3>4. QED BY <2>2, <3>3
  <2>3. QED BY <2>1, <2>2
<1>8. QED BY <1>3, <1>4, <1>5, <1>6, <1>7 DEF q

\* A node put between the first k children and the others.
LEMMA KidsInserted ==
  ASSUME IsFiniteSet(Nodes), TreeInv, TreeInv', NEW p \in Nodes, p \notin stale, p \notin stale',
         NEW n \in Nodes, NEW k \in 0 .. Len(Kids[p]),
         IsWay(next_sibling, first_child[p], Kids[p], Null),
         first_child'[p] = IF k = 0 THEN n ELSE first_child[p],
         next_sibling'[n] = IF k = Len(Kids[p]) THEN Null ELSE Kids[p][k + 1],
         \A j \in 1 .. Len(Kids[p]) :
           next_sibling'[Kids[p][j]] = IF j = k THEN n ELSE next_sibling[Kids[p][j]]
  PROVE  Kids'[p] = InsertAt(Kids[p], k + 1, n)
<1> DEFINE q == Kids[p]
           a == SubSeq(q, 1, k)
           b == SubSeq(q, k + 1, Len(q))
           m == IF k = Len(q) THEN Null ELSE q[k + 1]
           new == next_sibling'
           h == first_child[p]
           g == first_child'[p]
<1>1. q \in Seq(Nodes) /\ Len(q) \in Nat /\ k \in Nat /\ k <= Len(q)
  BY DEF IsWay
<1>2. /\ a \in Seq(Nodes) /\ Len(a) = k /\ \A j \in 1 .. k : a[j] = q[j]
      /\ b \in Seq(Nodes) /\ Len(b) = Len(q) - k /\ \A j \in 1 .. Len(q) - k : b[j] = q[k + j]
  BY <1>1, Cut
<1>3. IsWay(next_sibling, h, a, m) /\ IsWay(next_sibling, m, b, Null)
  BY <1>1, WayCut
<1>4. /\ g = IF k = 0 THEN n ELSE h
      /\ new[n] = m
      /\ \A j \in 1 .. Len(q) : new[q[j]] = IF j = k THEN n ELSE next_sibling[q[j]]
  OBVIOUS
<1> HIDE DEF q, a, b, m, new, h, g
<1>5. IsWay(new, g, a, n)
  <2>1. \A j \in 1 .. Len(a) - 1 : new[a[j]] = next_sibling[a[j]]
    <3>1. ASSUME NEW j \in 1 .. Len(a) - 1 PROVE new[a[j]] = next_sibling[a[j]]
      <4>1. j \in 1 .. k /\ j \in 1 .. Len(q) /\ j # k
        BY <1>1, <1>2
      <4>2. QED BY <1>2, <1>4, <4>1
    <3>2. QED BY <3>1
  <2>2. IF Len(a) = 0 THEN g = n ELSE g = h /\ new[a[Len(a)]] = n
    <3>1. k # 0 => k \in 1 .. k /\ k \in 1 .. Len(q)
      BY <1>1
    <3>2. QED BY <1>2, <1>4, <3>1
  <2>3. QED BY <1>3, <2>1, <2>2, WayTurned
<1>6. IsWay(new, n, <<n>>, m)
  BY <1>4 DEF IsWay
<1>7. IsWay(new, m, b, Null)
  <2>1. \A j \in 1 .. Len(b) : new[b[j]] = next_sibling[b[j]]
    <3>1. ASSUME NEW j \in 1 .. Len(b) PROVE new[b[j]] = next_sibling[b[j]]
      <4>1. j \in 1 .. Len(q) - k /\ k + j \in 1 .. Len(q) /\ k + j # k
        BY <1>1, <1>2
      <4>2. QED BY <1>2, <1>4, <4>1
    <3>2. QED BY <3>1
  <2>2. Len(b) \in Nat
    BY <1>2
  <2>3. \A j \in 1 .. Len(b) - 1 : new[b[j]] = next_sibling[b[j]]
    BY <2>1, <2>2
  <2>4. IF Len(b) = 0 THEN m = Null ELSE m = m /\ new[b[Len(b)]] = Null
    <3>1. Len(b) # 0 => Len(b) \in 1 .. Len(b)
      BY <2>2
    <3>2. QED BY <1>3, <2>1, <3>1 DEF IsWay
  <2>5. QED BY <1>3, <2>3, <2>4, WayTurned
<1>8. IsWay(new, g, (a \o <<n>>) \o b, Null)
  <2>1. IsWay(new, g, a \o <<n>>, m)
    BY <1>5, <1>6, WayOn
  <2>2. QED BY <1>7, <2>1, WayOn
<1>9. new \in [Nodes -> Pointer] /\ NoCycle(new) /\ g \in Pointer
  BY NextLinks DEF new, g
<1>10. ListFrom(new, g) = a \o <<n>> \o b
  BY <1>8, <1>9, ListKnown
<1>11. InsertAt(q, k + 1, n) = a \o <<n>> \o b
  <2>1. (k + 1) - 1 = k
    BY <1>1
  <2>2. QED BY <2>1 DEF InsertAt, a, b
<1>12. Kids'[p] = ListFrom(new, g)
  BY NextForest DEF new, g
<1>13. QED BY <1>10, <1>11, <1>12 DEF q

\* A child taken out.
LEMMA KidsWithout ==
  ASSUME IsFiniteSet(Nodes), TreeInv, TreeInv', NEW p \in Nodes, p \notin stale, p \notin stale',
         NEW i \in DOMAIN Kids[p],
         first_child'[p] = IF i = 1 THEN next_sibling[Kids[p][i]] ELSE first_child[p],
         \A j \in DOMAIN Kids[p] : j # i =>
           next_sibling'[Kids[p][j]] =
             IF j = i - 1 THEN next_sibling[Kids[p][i]] ELSE next_sibling[Kids[p][j]]
  PROVE  Kids'[p] = RemoveAt(Kids[p], i)
<1> DEFINE q == Kids[p]
           k == i - 1
           a == SubSeq(q, 1, k)
           b == SubSeq(q, i + 1, Len(q))
           m == IF i = Len(q) THEN Null ELSE q[i + 1]
           new == next_sibling'
           h == first_child[p]
           g == first_child'[p]
<1>1. /\ Len(q) \in Nat /\ i \in 1 .. Len(q) /\ DOMAIN q = 1 .. Len(q)
      /\ next_sibling[q[i]] = m
      /\ IsWay(next_sibling, h, q, Null)
  BY KidsLinks
<1>2. q \in Seq(Nodes) /\ k \in 0 .. Len(q) /\ i \in 0 .. Len(q) /\ k # Len(q) /\ k + 1 = i
  BY <1>1 DEF IsWay
<1>3. /\ a \in Seq(Nodes) /\ Len(a) = k /\ \A j \in 1 .. k : a[j] = q[j]
      /\ b \in Seq(Nodes) /\ Len(b) = Len(q) - i /\ \A j \in 1 .. Len(q) - i : b[j] = q[i + j]
  BY <1>2, Cut
<1>4. /\ IsWay(next_sibling, h, a, IF k = Len(q) THEN Null ELSE q[k + 1])
      /\ IsWay(next_sibling, m, b, Null)
  <2> HIDE DEF q, k
  <2>1. QED BY <1>1, <1>2, WayCut
<1>5. /\ g = IF i = 1 THEN m ELSE h
      /\ \A j \in 1 .. Len(q) : j # i => new[q[j]] = IF j = k THEN m ELSE next_sibling[q[j]]
  BY <1>1
<1> HIDE DEF q, a, b, m, new, h, g
<1>6. IsWay(new, g, a, m)
  <2>1. \A j \in 1 .. Len(a) - 1 : new[a[j]] = next_sibling[a[j]]
    <3>1. ASSUME NEW j \in 1 .. Len(a) - 1 PROVE new[a[j]] = next_sibling[a[j]]
      <4>1. j \in 1 .. k /\ j \in 1 .. Len(q) /\ j # k /\ j # i
        BY <1>1, <1>3
      <4>2. QED BY <1>3, <1>5, <4>1
    <3>2. QED BY <3>1
  <2>2. IF Len(a) = 0 THEN g = m ELSE g = h /\ new[a[Len(a)]] = m
    <3>1. (k = 0 <=> i = 1) /\ (k # 0 => k \in 1 .. k /\ k \in 1 .. Len(q) /\ k # i)
      BY <1>1
    <3>2. QED BY <1>3, <1>5, <3>1
  <2>3. QED BY <1>4, <2>1, <2>2, WayTurned
<1>7. IsWay(new, m, b, Null)
  <2>1. \A j \in 1 .. Len(b) : new[b[j]] = next_sibling[b[j]]
    <3>1. ASSUME NEW j \in 1 .. Len(b) PROVE new[b[j]] = next_sibling[b[j]]
      <4>1. j \in 1 .. Len(q) - i /\ i + j \in 1 .. Len(q) /\ i + j # i /\ i + j # k
        BY <1>1, <1>3
      <4>2. QED BY <1>3, <1>5, <4>1
    <3>2. QED BY <3>1
  <2>2. Len(b) \in Nat
    BY <1>3
  <2>3. \A j \in 1 .. Len(b) - 1 : new[b[j]] = next_sibling[b[j]]
    BY <2>1, <2>2
  <2>4. IF Len(b) = 0 THEN m = Null ELSE m = m /\ new[b[Len(b)]] = Null
    <3>1. Len(b) # 0 => Len(b) \in 1 .. Len(b)
      BY <2>2
    <3>2. QED BY <1>4, <2>1, <3>1 DEF IsWay
  <2>5. QED BY <1>4, <2>3, <2>4, WayTurned
<1>8. IsWay(new, g, a \o b, Null)
  BY <1>6, <1>7, WayOn
<1>9. new \in [Nodes -> Pointer] /\ NoCycle(new) /\ g \in Pointer
  BY NextLinks DEF new, g
<1>10. ListFrom(new, g) = a \o b
  BY <1>8, <1>9, ListKnown
<1>11. RemoveAt(q, i) = a \o b
  BY DEF RemoveAt, a, b
<1>12. Kids'[p] = ListFrom(new, g)
  BY NextForest DEF new, g
<1>13. QED BY <1>10, <1>11, <1>12 DEF q

\* A loose node is a chain of its own.
LEMMA LooseChain ==
  ASSUME IsFiniteSet(Nodes), TreeInv, NEW n \in Nodes, Loose(n)
  PROVE  ChainHead(n) /\ Chain(n) = <<n>> /\ <<n>> \in Chains
<1>1. ChainHead(n)
  BY DEF Loose, ChainHead
<1>2. IsWay(next_sibling, n, <<n>>, Null)
  BY DEF IsWay, Loose
<1>3. next_sibling \in [Nodes -> Pointer] /\ NoCycle(next_sibling) /\ n \in Pointer
  BY DEF TreeInv, LinksTyped, NoRings, Pointer
<1>4. Chain(n) = <<n>>
  BY <1>2, <1>3, ListKnown DEF Chain
<1>5. QED BY <1>1, <1>4 DEF Chains

\* A step that makes one head none and leaves the chains of the others alone.
LEMMA ChainsWithout ==
  ASSUME IsFiniteSet(Nodes), TreeInv, TreeInv', NEW r \in Nodes, ChainHead(r),
         \A x \in Nodes : ChainHead(x)' <=> ChainHead(x) /\ x # r,
         \A y \in Nodes \ stale : parent[y] = Null /\ y # r => next_sibling'[y] = next_sibling[y]
  PROVE  Chains' = Chains \ {Chain(r)}
<1>1. ASSUME NEW h \in Nodes, ChainHead(h), h # r
      PROVE  ListFrom(next_sibling', h) = Chain(h) /\ Chain(h) # Chain(r)
  <2>1. ASSUME NEW x \in Nodes, Reaches(next_sibling, h, x)
        PROVE  next_sibling'[x] = next_sibling[x]
    <3>1. parent[x] = Null /\ x \notin stale
      BY <1>1, <2>1, ChainOfHead
    <3>2. x # r
      BY <1>1, <2>1, ChainsApart, ReachesSelf
    <3>3. QED BY <3>1, <3>2
  <2>2. QED BY <1>1, <2>1, ChainKept, ChainsDiffer
<1>2. Chains' = {ListFrom(next_sibling', h) : h \in {n \in Nodes : ChainHead(n) /\ n # r}}
  BY NextForest
<1>3. ASSUME NEW q \in Chains' PROVE q \in Chains \ {Chain(r)}
  <2>1. PICK h \in Nodes : ChainHead(h) /\ h # r /\ q = ListFrom(next_sibling', h)
    BY <1>2
  <2>2. q = Chain(h) /\ q # Chain(r)
    BY <1>1, <2>1
  <2>3. QED BY <2>1, <2>2 DEF Chains
<1>4. ASSUME NEW q \in Chains \ {Chain(r)} PROVE q \in Chains'
  <2>1. PICK h \in Nodes : ChainHead(h) /\ q = Chain(h)
    BY DEF Chains
  <2>2. h # r
    BY <2>1
  <2>3. QED BY <1>1, <1>2, <2>1, <2>2
<1>5. QED BY <1>3, <1>4

\* The forest's children as functions.
LEMMA KidsAreFunctions ==
  /\ Kids = [x \in Nodes |-> Kids[x]]
  /\ Kids' = [x \in Nodes |-> Kids'[x]]
BY NextForest DEF Kids

\* The children of a parent whose links no assignment touches.
LEMMA KidsOfOthers ==
  ASSUME IsFiniteSet(Nodes), TreeInv, TreeInv', NEW x \in Nodes,
         x \in stale' <=> x \in stale,
         first_child'[x] = first_child[x],
         \A y \in Nodes \ stale : parent[y] = x => next_sibling'[y] = next_sibling[y]
  PROVE  Kids'[x] = Kids[x]
<1>1. CASE x \in stale
  BY <1>1, NextForest DEF Kids
<1>2. CASE x \notin stale
  BY <1>2, KidsKept
<1>3. QED BY <1>1, <1>2

\* A step that puts a loose node beside an attached one.
LEMMA PlaceStep ==
  ASSUME IsFiniteSet(Nodes), TreeInv, TreeInv',
         NEW p \in Nodes, p \notin stale, NEW n \in Nodes, Loose(n), ~Reaches(parent, p, n),
         NEW i \in DOMAIN Kids[p], NEW shift \in {0, 1},
         Kids'[p] = InsertAt(Kids[p], i + shift, n),
         \A x \in Nodes : x # p => first_child'[x] = first_child[x],
         \A y \in Nodes : y # n /\ parent[y] # p => next_sibling'[y] = next_sibling[y],
         stale' = stale,
         \A x \in Nodes : ChainHead(x)' <=> ChainHead(x) /\ x # n
  PROVE  Forest!Rearrange
<1>1. ChainHead(n) /\ Chain(n) = <<n>> /\ <<n>> \in Chains
  BY LooseChain
<1>2. n \in Nodes \ stale /\ parent[n] = Null
  BY DEF Loose
<1>3. p # n /\ p \notin Forest!Under(n)
  BY <1>2, NotUnder
<1>4. ASSUME NEW x \in Nodes, x # p PROVE Kids'[x] = Kids[x]
  <2>1. x \in stale' <=> x \in stale
    OBVIOUS
  <2>2. \A y \in Nodes \ stale : parent[y] = x => next_sibling'[y] = next_sibling[y]
    BY <1>2, <1>4, NullIsNoNode
  <2>3. QED BY <1>4, <2>1, <2>2, KidsOfOthers
<1>5. Kids' = [Kids EXCEPT ![p] = Forest!InsertAt(Kids[p], i + shift, n)]
  <2>1. Kids'[p] = Forest!InsertAt(Kids[p], i + shift, n)
    BY SameInsert
  <2>2. QED BY <1>4, <2>1, KidsAreFunctions
<1>6. Chains' = Chains \ {<<n>>}
  <2>1. \A y \in Nodes \ stale : parent[y] = Null /\ y # n => next_sibling'[y] = next_sibling[y]
    BY NullIsNoNode
  <2>2. QED BY <1>1, <2>1, ChainsWithout
<1>7. Forest!Place(p, n, i, shift)
  BY <1>1, <1>3, <1>5, <1>6 DEF Forest!Place, Kids, Chains
<1>8. \E q, m \in Nodes : \E j \in DOMAIN Kids[q], s \in {0, 1} : Forest!Place(q, m, j, s)
  BY <1>7
<1>9. QED BY <1>8, Zenon DEF Forest!Rearrange, Kids

\* The place of an attached node.
LEMMA PlaceOf ==
  ASSUME IsFiniteSet(Nodes), TreeInv, NEW at \in Nodes, at \notin stale, parent[at] # Null
  PROVE  /\ parent[at] \in Nodes /\ parent[at] \notin stale
         /\ \E i \in DOMAIN Kids[parent[at]] : Kids[parent[at]][i] = at
<1>1. parent[at] \in Nodes /\ parent[at] \notin stale
  BY DEF TreeInv, LinksTyped, EndsMeet, Pointer
<1>2. at \in ToSet(Kids[parent[at]])
  BY <1>1, KidsAre
<1>3. QED BY <1>1, <1>2, Zenon DEF ToSet

\* InsertBefore places the node where at stood.
LEMMA InsertBeforeStep ==
  ASSUME IsFiniteSet(Nodes), TreeInv, TreeInv', NEW n \in Nodes, NEW at \in Nodes,
         at \notin stale, parent[at] # Null, Loose(n), ~Reaches(parent, at, n),
         InsertBefore(n, at)
  PROVE  Forest!Rearrange
<1>1. PICK p \in Nodes : p = parent[at]
  BY PlaceOf
<1>2. p \notin stale
  BY <1>1, PlaceOf
<1>3. PICK i \in DOMAIN Kids[p] : Kids[p][i] = at
  BY <1>1, PlaceOf
<1>4. PICK q : q = Kids[p]
  OBVIOUS
<1>5. /\ Len(q) \in Nat /\ i \in 1 .. Len(q) /\ DOMAIN q = 1 .. Len(q)
      /\ prev_sibling[at] = IF i = 1 THEN Null ELSE q[i - 1]
      /\ IsWay(next_sibling, first_child[p], q, Null)
  BY <1>2, <1>3, <1>4, KidsLinks
<1>6. q \in Seq(Nodes) /\ IsInjective(q) /\ \A j \in 1 .. Len(q) : q[j] \in Nodes
  <2>1. q \in Seq(Nodes) /\ IsInjective(q)
    BY <1>4, KidsAre
  <2>2. QED BY <2>1
<1>7. \A j \in 1 .. Len(q) : parent[q[j]] = p
  BY <1>2, <1>4, <1>5, KidsLinks
<1>8. /\ parent \in [Nodes -> Pointer] /\ next_sibling \in [Nodes -> Pointer]
      /\ prev_sibling \in [Nodes -> Pointer] /\ first_child \in [Nodes -> Pointer]
  BY DEF TreeInv, LinksTyped
<1>9. n \notin stale /\ parent[n] = Null /\ prev_sibling[n] = Null /\ n # at /\ n # p
  <2>1. n # at
    BY ReachesSelf
  <2>2. n # p
    BY <1>1, <1>8, ReachesSelf, ReachesFromNext
  <2>3. QED BY <2>1, <2>2 DEF Loose
<1>10. /\ first_child' = [first_child EXCEPT ![p] = IF prev_sibling[at] = Null THEN n ELSE @]
       /\ next_sibling' = [x \in Nodes |->
            IF x = n THEN at
            ELSE IF x = prev_sibling[at] THEN n ELSE next_sibling[x]]
       /\ prev_sibling' = [prev_sibling EXCEPT ![n] = prev_sibling[at], ![at] = n]
       /\ parent' = [parent EXCEPT ![n] = p]
       /\ stale' = stale
  BY <1>1 DEF InsertBefore
<1>11. Kids'[p] = InsertAt(q, i + 0, n)
  <2> DEFINE k == i - 1
  <2>1. k \in 0 .. Len(q) /\ (k = 0 <=> i = 1) /\ k # Len(q) /\ k + 1 = i /\ i + 0 = i
    BY <1>5
  <2>2. first_child'[p] = IF k = 0 THEN n ELSE first_child[p]
    <3>1. prev_sibling[at] = Null <=> i = 1
      <4>1. i # 1 => i - 1 \in 1 .. Len(q)
        BY <1>5
      <4>2. QED BY <1>5, <1>6, <4>1, NullIsNoNode
    <3>2. first_child'[p] = IF prev_sibling[at] = Null THEN n ELSE first_child[p]
      BY <1>8, <1>10
    <3>3. QED BY <2>1, <3>1, <3>2
  <2>3. next_sibling'[n] = IF k = Len(q) THEN Null ELSE q[k + 1]
    BY <1>3, <1>4, <1>10, <2>1
  <2>4. ASSUME NEW j \in 1 .. Len(q)
        PROVE  next_sibling'[q[j]] = IF j = k THEN n ELSE next_sibling[q[j]]
    <3>1. q[j] \in Nodes /\ q[j] # n
      BY <1>6, <1>7, <1>9, NullIsNoNode
    <3>2. q[j] = prev_sibling[at] <=> j = k
      <4>1. CASE i = 1
        <5>1. j # k
          BY <2>1, <4>1
        <5>2. QED BY <1>5, <3>1, <4>1, <5>1, NullIsNoNode
      <4>2. CASE i # 1
        <5>1. k \in 1 .. Len(q) /\ prev_sibling[at] = q[k]
          BY <1>5, <4>2
        <5>2. QED BY <1>5, <1>6, <5>1 DEF IsInjective
      <4>3. QED BY <4>1, <4>2
    <3>3. QED BY <1>10, <3>1, <3>2
  <2> HIDE DEF k
  <2>5. p \notin stale'
    BY <1>2, <1>10
  <2>6. /\ k \in 0 .. Len(Kids[p])
        /\ IsWay(next_sibling, first_child[p], Kids[p], Null)
        /\ next_sibling'[n] = IF k = Len(Kids[p]) THEN Null ELSE Kids[p][k + 1]
    BY <1>4, <1>5, <2>1, <2>3
  <2>7. \A j \in 1 .. Len(Kids[p]) :
          next_sibling'[Kids[p][j]] = IF j = k THEN n ELSE next_sibling[Kids[p][j]]
    BY <1>4, <2>4
  <2>8. Kids'[p] = InsertAt(Kids[p], k + 1, n)
    BY <1>2, <2>2, <2>5, <2>6, <2>7, KidsInserted
  <2>9. QED BY <1>4, <2>1, <2>8
<1>12. ~Reaches(parent, p, n)
  BY <1>1, <1>8, ReachesFromNext
<1>13. \A x \in Nodes : x # p => first_child'[x] = first_child[x]
  BY <1>8, <1>10
<1>14. \A y \in Nodes : y # n /\ parent[y] # p => next_sibling'[y] = next_sibling[y]
  <2>1. prev_sibling[at] # Null => parent[prev_sibling[at]] = p
    <3>1. i # 1 => i - 1 \in 1 .. Len(q)
      BY <1>5
    <3>2. QED BY <1>5, <1>7, <3>1
  <2>2. QED BY <1>10, <2>1, NullIsNoNode
<1>15. \A x \in Nodes : ChainHead(x)' <=> ChainHead(x) /\ x # n
  <2>1. ASSUME NEW x \in Nodes
        PROVE  parent'[x] = Null /\ prev_sibling'[x] = Null
                 <=> parent[x] = Null /\ prev_sibling[x] = Null /\ x # n
    BY <1>1, <1>8, <1>9, <1>10, NullIsNoNode
  <2>2. QED BY <1>10, <2>1 DEF ChainHead
<1>16. PICK shift \in {0, 1} : shift = 0
  OBVIOUS
<1>17. Kids'[p] = InsertAt(Kids[p], i + shift, n)
  BY <1>4, <1>11, <1>16
<1>18. stale' = stale
  BY <1>10
<1>19. QED BY <1>2, <1>12, <1>13, <1>14, <1>15, <1>17, <1>18, PlaceStep, ZenonT(30)

\* InsertAfter places the node behind at.
LEMMA InsertAfterStep ==
  ASSUME IsFiniteSet(Nodes), TreeInv, TreeInv', NEW n \in Nodes, NEW at \in Nodes,
         at \notin stale, parent[at] # Null, Loose(n), ~Reaches(parent, at, n),
         InsertAfter(n, at)
  PROVE  Forest!Rearrange
<1>1. PICK p \in Nodes : p = parent[at]
  BY PlaceOf
<1>2. p \notin stale
  BY <1>1, PlaceOf
<1>3. PICK i \in DOMAIN Kids[p] : Kids[p][i] = at
  BY <1>1, PlaceOf
<1>4. PICK q : q = Kids[p]
  OBVIOUS
<1>5. /\ Len(q) \in Nat /\ i \in 1 .. Len(q) /\ DOMAIN q = 1 .. Len(q)
      /\ next_sibling[at] = IF i = Len(q) THEN Null ELSE q[i + 1]
      /\ IsWay(next_sibling, first_child[p], q, Null)
  BY <1>2, <1>3, <1>4, KidsLinks
<1>6. q \in Seq(Nodes) /\ IsInjective(q) /\ \A j \in 1 .. Len(q) : q[j] \in Nodes
  <2>1. q \in Seq(Nodes) /\ IsInjective(q)
    BY <1>4, KidsAre
  <2>2. QED BY <2>1
<1>7. \A j \in 1 .. Len(q) : parent[q[j]] = p
  BY <1>2, <1>4, <1>5, KidsLinks
<1>8. /\ parent \in [Nodes -> Pointer] /\ next_sibling \in [Nodes -> Pointer]
      /\ prev_sibling \in [Nodes -> Pointer] /\ first_child \in [Nodes -> Pointer]
  BY DEF TreeInv, LinksTyped
<1>9. n \notin stale /\ parent[n] = Null /\ prev_sibling[n] = Null /\ n # at /\ n # p
  <2>1. n # at
    BY ReachesSelf
  <2>2. n # p
    BY <1>1, <1>8, ReachesSelf, ReachesFromNext
  <2>3. QED BY <2>1, <2>2 DEF Loose
<1>10. /\ first_child' = first_child
       /\ prev_sibling' = [x \in Nodes |->
            IF x = n THEN at
            ELSE IF x = next_sibling[at] THEN n ELSE prev_sibling[x]]
       /\ next_sibling' = [next_sibling EXCEPT ![n] = next_sibling[at], ![at] = n]
       /\ parent' = [parent EXCEPT ![n] = p]
       /\ stale' = stale
  BY <1>1 DEF InsertAfter
<1>11. Kids'[p] = InsertAt(q, i + 1, n)
  <2>1. i \in 0 .. Len(q) /\ i # 0
    BY <1>5
  <2>2. first_child'[p] = IF i = 0 THEN n ELSE first_child[p]
    BY <1>10, <2>1
  <2>3. next_sibling'[n] = IF i = Len(q) THEN Null ELSE q[i + 1]
    BY <1>5, <1>8, <1>9, <1>10
  <2>4. ASSUME NEW j \in 1 .. Len(q)
        PROVE  next_sibling'[q[j]] = IF j = i THEN n ELSE next_sibling[q[j]]
    <3>1. q[j] \in Nodes /\ q[j] # n
      BY <1>6, <1>7, <1>9, NullIsNoNode
    <3>2. q[j] = at <=> j = i
      BY <1>3, <1>4, <1>5, <1>6 DEF IsInjective
    <3>3. QED BY <1>8, <1>10, <3>1, <3>2
  <2>5. p \notin stale'
    BY <1>2, <1>10
  <2>6. /\ i \in 0 .. Len(Kids[p])
        /\ IsWay(next_sibling, first_child[p], Kids[p], Null)
        /\ next_sibling'[n] = IF i = Len(Kids[p]) THEN Null ELSE Kids[p][i + 1]
    BY <1>4, <1>5, <2>1, <2>3
  <2>7. \A j \in 1 .. Len(Kids[p]) :
          next_sibling'[Kids[p][j]] = IF j = i THEN n ELSE next_sibling[Kids[p][j]]
    BY <1>4, <2>4
  <2>8. Kids'[p] = InsertAt(Kids[p], i + 1, n)
    BY <1>2, <2>2, <2>5, <2>6, <2>7, KidsInserted
  <2>9. QED BY <1>4, <2>8
<1>12. ~Reaches(parent, p, n)
  BY <1>1, <1>8, ReachesFromNext
<1>13. \A x \in Nodes : x # p => first_child'[x] = first_child[x]
  BY <1>10
<1>14. \A y \in Nodes : y # n /\ parent[y] # p => next_sibling'[y] = next_sibling[y]
  BY <1>1, <1>8, <1>10
<1>15. \A x \in Nodes : ChainHead(x)' <=> ChainHead(x) /\ x # n
  <2>1. next_sibling[at] # Null => parent[next_sibling[at]] = p
    BY <1>1 DEF TreeInv, LinkedBothWays
  <2>2. ASSUME NEW x \in Nodes
        PROVE  parent'[x] = Null /\ prev_sibling'[x] = Null
                 <=> parent[x] = Null /\ prev_sibling[x] = Null /\ x # n
    BY <1>8, <1>9, <1>10, <2>1, NullIsNoNode
  <2>3. QED BY <1>10, <2>2 DEF ChainHead
<1>16. PICK shift \in {0, 1} : shift = 1
  OBVIOUS
<1>17. Kids'[p] = InsertAt(Kids[p], i + shift, n)
  BY <1>4, <1>11, <1>16
<1>18. stale' = stale
  BY <1>10
<1>19. QED BY <1>2, <1>12, <1>13, <1>14, <1>15, <1>17, <1>18, PlaceStep, ZenonT(30)

\* RemoveChild takes the node out, and what hung under it is gone.
LEMMA RemoveChildStep ==
  ASSUME IsFiniteSet(Nodes), TreeInv, TreeInv', NEW p \in Nodes, NEW n \in Nodes,
         p \notin stale, n \notin stale, RemoveChild(p, n)
  PROVE  Forest!Rearrange
<1>1. /\ parent[n] = p
      /\ first_child' = [first_child EXCEPT
           ![p] = IF prev_sibling[n] = Null THEN next_sibling[n] ELSE @, ![n] = Null]
      /\ next_sibling' = [x \in Nodes |->
           IF x = n THEN Null
           ELSE IF x = prev_sibling[n] THEN next_sibling[n] ELSE next_sibling[x]]
      /\ prev_sibling' = [x \in Nodes |->
           IF x = n THEN Null
           ELSE IF x = next_sibling[n] THEN prev_sibling[n] ELSE prev_sibling[x]]
      /\ parent' = [parent EXCEPT ![n] = Null]
      /\ stale' = stale \cup Below(n)
  BY DEF RemoveChild
<1>2. /\ parent \in [Nodes -> Pointer] /\ next_sibling \in [Nodes -> Pointer]
      /\ prev_sibling \in [Nodes -> Pointer] /\ first_child \in [Nodes -> Pointer]
      /\ NoCycle(parent)
  BY DEF TreeInv, LinksTyped, NoRings
<1>3. ~Reaches(parent, p, n) /\ p # n
  BY <1>1, <1>2, NoReturn, ReachesSelf
<1>4. p \notin stale' /\ n \notin stale'
  BY <1>1, <1>3 DEF Below
<1>5. PICK i \in DOMAIN Kids[p] : Kids[p][i] = n
  BY <1>1, PlaceOf, NullIsNoNode
<1>6. PICK q : q = Kids[p]
  OBVIOUS
<1>7. /\ Len(q) \in Nat /\ i \in 1 .. Len(q) /\ DOMAIN q = 1 .. Len(q)
      /\ prev_sibling[n] = IF i = 1 THEN Null ELSE q[i - 1]
  BY <1>5, <1>6, KidsLinks
<1>8. q \in Seq(Nodes) /\ IsInjective(q) /\ \A j \in 1 .. Len(q) : q[j] \in Nodes
  <2>1. q \in Seq(Nodes) /\ IsInjective(q)
    BY <1>6, KidsAre
  <2>2. QED BY <2>1
<1>9. \A j \in 1 .. Len(q) : parent[q[j]] = p
  BY <1>6, <1>7, KidsLinks
<1>10. prev_sibling[n] # Null => parent[prev_sibling[n]] = p
  <2>1. i # 1 => i - 1 \in 1 .. Len(q)
    BY <1>7
  <2>2. QED BY <1>7, <1>9, <2>1
<1>11. next_sibling[n] # Null => parent[next_sibling[n]] = p
  BY <1>1 DEF TreeInv, LinkedBothWays
<1>12. Kids'[p] = RemoveAt(q, i)
  <2>1. first_child'[p] = IF i = 1 THEN next_sibling[q[i]] ELSE first_child[p]
    <3>1. prev_sibling[n] = Null <=> i = 1
      <4>1. i # 1 => i - 1 \in 1 .. Len(q)
        BY <1>7
      <4>2. QED BY <1>7, <1>8, <4>1, NullIsNoNode
    <3>2. first_child'[p] = IF prev_sibling[n] = Null THEN next_sibling[n] ELSE first_child[p]
      BY <1>1, <1>2, <1>3
    <3>3. QED BY <1>5, <1>6, <3>1, <3>2
  <2>2. ASSUME NEW j \in DOMAIN q, j # i
        PROVE  next_sibling'[q[j]] = IF j = i - 1 THEN next_sibling[q[i]] ELSE next_sibling[q[j]]
    <3>1. q[j] \in Nodes /\ q[j] # n
      BY <1>5, <1>6, <1>7, <1>8, <2>2 DEF IsInjective
    <3>2. q[j] = prev_sibling[n] <=> j = i - 1
      <4>1. CASE i = 1
        <5>1. j # i - 1
          BY <1>7, <4>1
        <5>2. QED BY <1>7, <3>1, <4>1, <5>1, NullIsNoNode
      <4>2. CASE i # 1
        <5>1. i - 1 \in 1 .. Len(q) /\ prev_sibling[n] = q[i - 1]
          BY <1>7, <4>2
        <5>2. QED BY <1>7, <1>8, <5>1 DEF IsInjective
      <4>3. QED BY <4>1, <4>2
    <3>3. QED BY <1>1, <1>5, <1>6, <3>1, <3>2
  <2>3. QED BY <1>4, <1>6, <2>1, <2>2, KidsWithout
<1>13. Forest!Under(n) = {x \in Nodes \ stale : Reaches(parent, x, n) /\ x # n}
  BY UnderIs DEF Sub
<1>14. stale' = stale \cup Forest!Under(n)
  BY <1>1, <1>13 DEF Below
<1>15. Kids'[n] = <<>>
  <2>1. first_child'[n] = Null
    BY <1>1, <1>2, <1>3
  <2>2. IsWay(next_sibling', Null, <<>>, Null)
    BY DEF IsWay
  <2>3. ListFrom(next_sibling', Null) = <<>>
    BY <2>2, NextLinks, ListKnown DEF Pointer
  <2>4. QED BY <1>4, <2>1, <2>3, NextForest
<1>16. ASSUME NEW x \in Forest!Under(n) PROVE Kids'[x] = <<>>
  BY <1>13, <1>14, NextForest
<1>17. ASSUME NEW x \in Nodes, x # p, x # n, x \notin Forest!Under(n)
       PROVE  Kids'[x] = Kids[x]
  <2>1. x \in stale' <=> x \in stale
    BY <1>14, <1>17
  <2>2. first_child'[x] = first_child[x]
    BY <1>1, <1>2, <1>17
  <2>3. ASSUME NEW y \in Nodes \ stale, parent[y] = x PROVE next_sibling'[y] = next_sibling[y]
    <3>1. y # n /\ y # prev_sibling[n]
      BY <1>1, <1>10, <1>17, <2>3, NullIsNoNode
    <3>2. QED BY <1>1, <3>1
  <2>4. QED BY <2>1, <2>2, <2>3, KidsOfOthers
<1>18. Kids' = [x \in Nodes |->
                  IF x = p THEN Forest!RemoveAt(Kids[p], i)
                  ELSE IF x = Kids[p][i] \/ x \in Forest!Under(Kids[p][i]) THEN <<>>
                  ELSE Kids[x]]
  <2>1. Kids'[p] = Forest!RemoveAt(Kids[p], i)
    BY <1>6, <1>12, SameRemove
  <2>2. \A x \in Nodes : Kids'[x] = IF x = p THEN Forest!RemoveAt(Kids[p], i)
                                    ELSE IF x = Kids[p][i] \/ x \in Forest!Under(Kids[p][i]) THEN <<>>
                                    ELSE Kids[x]
    BY <1>5, <1>15, <1>16, <1>17, <2>1
  <2>3. QED BY <2>2, KidsAreFunctions
<1>19. \A x \in Nodes : ChainHead(x)' <=> ChainHead(x) \/ x = n
  <2>1. \A x \in Nodes : x \in stale' <=> x \in stale \/ (Reaches(parent, x, n) /\ x # n)
    BY <1>1 DEF Below
  <2>2. ASSUME NEW x \in Nodes, x # n, parent[x] = Null PROVE ~Reaches(parent, x, n)
    BY <1>2, <2>2, ReachesNext, NullIsNoNode
  <2>3. ASSUME NEW x \in Nodes, x # n
        PROVE  parent'[x] = Null /\ prev_sibling'[x] = Null
                 <=> parent[x] = Null /\ prev_sibling[x] = Null
    BY <1>1, <1>2, <1>11, <2>3, NullIsNoNode
  <2>4. parent'[n] = Null /\ prev_sibling'[n] = Null
    BY <1>1, <1>2
  <2>5. QED BY <1>4, <2>1, <2>2, <2>3, <2>4 DEF ChainHead
<1>20. ListFrom(next_sibling', n) = <<n>>
  <2>1. IsWay(next_sibling', n, <<n>>, Null)
    <3>1. next_sibling'[n] = Null
      BY <1>1
    <3>2. QED BY <3>1 DEF IsWay
  <2>2. n \in Pointer
    BY DEF Pointer
  <2>3. QED BY <2>1, <2>2, NextLinks, ListKnown
<1>21. ASSUME NEW h \in Nodes, ChainHead(h) PROVE ListFrom(next_sibling', h) = Chain(h)
  <2>1. ASSUME NEW x \in Nodes, Reaches(next_sibling, h, x)
        PROVE  next_sibling'[x] = next_sibling[x]
    <3>1. parent[x] = Null
      BY <1>21, <2>1, ChainOfHead
    <3>2. QED BY <1>1, <1>10, <3>1, NullIsNoNode
  <2>2. QED BY <2>1, ChainKept
<1>22. Chains' = Chains \cup {<<Kids[p][i]>>}
  <2>1. Chains' = {ListFrom(next_sibling', h) : h \in {x \in Nodes : ChainHead(x) \/ x = n}}
    BY <1>19, NextForest
  <2>2. ASSUME NEW c \in Chains' PROVE c \in Chains \cup {<<n>>}
    <3>1. PICK h \in Nodes : (ChainHead(h) \/ h = n) /\ c = ListFrom(next_sibling', h)
      BY <2>1
    <3>2. CASE h = n
      BY <1>20, <3>1, <3>2
    <3>3. CASE h # n
      BY <1>21, <3>1, <3>3 DEF Chains
    <3>4. QED BY <3>2, <3>3
  <2>3. ASSUME NEW c \in Chains PROVE c \in Chains'
    <3>1. PICK h \in Nodes : ChainHead(h) /\ c = Chain(h)
      BY DEF Chains
    <3>2. QED BY <1>21, <2>1, <3>1
  <2>4. <<n>> \in Chains'
    BY <1>20, <2>1
  <2>5. QED BY <1>5, <2>2, <2>3, <2>4
<1>23. stale' = stale \cup Forest!Under(Kids[p][i])
  BY <1>5, <1>14
<1>24. Forest!TakeOut(p, i)
  BY <1>18, <1>22, <1>23 DEF Forest!TakeOut, Kids, Chains
<1>25. \E r \in Nodes : \E j \in DOMAIN Kids[r] : Forest!TakeOut(r, j)
  BY <1>24
<1>26. QED BY <1>25, Zenon DEF Forest!Rearrange, Kids

\* The grammar's "{a, b}" hands the only child of tmp over to init.
LEMMA AppendExpressionStep ==
  ASSUME IsFiniteSet(Nodes), TreeInv, TreeInv', NEW init \in Nodes, NEW tmp \in Nodes,
         CanAppendExpression(init, tmp), AppendExpression(init, tmp)
  PROVE  Forest!Rearrange
<1>1. PICK e : e = first_child[tmp]
  OBVIOUS
<1>2. /\ parent \in [Nodes -> Pointer] /\ next_sibling \in [Nodes -> Pointer]
      /\ prev_sibling \in [Nodes -> Pointer] /\ first_child \in [Nodes -> Pointer]
      /\ last_child \in [Nodes -> Pointer] /\ NoCycle(next_sibling)
  BY DEF TreeInv, LinksTyped, NoRings
<1>3. /\ e # Null /\ next_sibling[e] = Null
      /\ parent' = [parent EXCEPT ![e] = init]
      /\ first_child' = [first_child EXCEPT ![init] = IF @ = Null THEN e ELSE @]
      /\ next_sibling' = [x \in Nodes |-> IF x = last_child[init] THEN e ELSE next_sibling[x]]
      /\ prev_sibling' = [prev_sibling EXCEPT ![e] = last_child[init]]
      /\ stale' = stale \cup {tmp}
  BY <1>1 DEF AppendExpression
<1>4. init # tmp /\ init \notin stale /\ parent[init] = Null /\ Loose(tmp)
  BY DEF CanAppendExpression, ChainHead
<1>5. tmp \notin stale /\ parent[tmp] = Null
  BY <1>4 DEF Loose
<1>6. e \in Nodes /\ e \in Pointer /\ parent[e] = tmp
  BY <1>1, <1>2, <1>3, <1>5 DEF TreeInv, EndsMeet, Pointer
<1>7. Chain(e) = <<e>>
  <2>1. IsWay(next_sibling, e, <<e>>, Null)
    BY <1>3, <1>6 DEF IsWay
  <2>2. QED BY <1>2, <1>6, <2>1, ListKnown DEF Chain
<1>8. Kids[tmp] = <<e>>
  BY <1>1, <1>5, <1>7 DEF Kids
<1>9. last_child[init] # Null => parent[last_child[init]] = init
  BY <1>4 DEF TreeInv, LinksTyped, EndsMeet
<1>10. Kids'[init] = Kids[init] \o <<e>>
  <2>1. \A x \in Nodes : Reaches(next_sibling, e, x) => x = e
    BY <1>2, <1>3, <1>6, ReachesNext, NullIsNoNode
  <2>2. \A x \in Nodes : Reaches(next_sibling, e, x) => parent[x] # init
    BY <1>4, <1>6, <2>1
  <2>3. init \in Nodes \ stale /\ init \notin stale'
    BY <1>3, <1>4
  <2>4. Kids'[init] = Kids[init] \o Chain(e)
    BY <1>3, <1>6, <2>2, <2>3, KidsExtended
  <2>5. QED BY <1>7, <2>4
<1>11. Kids'[tmp] = <<>>
  <2>1. tmp \in stale'
    BY <1>3
  <2>2. QED BY <2>1, NextForest
<1>12. ASSUME NEW x \in Nodes, x # init, x # tmp PROVE Kids'[x] = Kids[x]
  <2>1. x \in stale' <=> x \in stale
    BY <1>3, <1>12
  <2>2. first_child'[x] = first_child[x]
    BY <1>2, <1>3, <1>12
  <2>3. \A y \in Nodes \ stale : parent[y] = x => next_sibling'[y] = next_sibling[y]
    BY <1>3, <1>9, <1>12, NullIsNoNode
  <2>4. QED BY <2>1, <2>2, <2>3, KidsOfOthers
<1>13. Kids' = [Kids EXCEPT ![init] = @ \o Kids[tmp], ![tmp] = <<>>]
  <2>1. \A x \in Nodes : Kids'[x] = IF x = tmp THEN <<>>
                                    ELSE IF x = init THEN Kids[init] \o Kids[tmp] ELSE Kids[x]
    BY <1>4, <1>8, <1>10, <1>11, <1>12
  <2>2. Kids' = [x \in Nodes |-> Kids'[x]] /\ Kids = [x \in Nodes |-> Kids[x]]
    BY KidsAreFunctions
  <2>3. QED BY <1>4, <2>1, <2>2
<1>14. ChainHead(tmp) /\ Chain(tmp) = <<tmp>> /\ <<tmp>> \in Chains
  BY <1>4, LooseChain
<1>15. Chains' = Chains \ {<<tmp>>}
  <2>1. ASSUME NEW x \in Nodes
        PROVE  parent'[x] = Null /\ prev_sibling'[x] = Null
                 <=> parent[x] = Null /\ prev_sibling[x] = Null
    BY <1>2, <1>3, <1>6, NullIsNoNode
  <2>2. \A x \in Nodes : ChainHead(x)' <=> ChainHead(x) /\ x # tmp
    BY <1>3, <2>1 DEF ChainHead
  <2>3. \A y \in Nodes \ stale : parent[y] = Null /\ y # tmp => next_sibling'[y] = next_sibling[y]
    BY <1>3, <1>9, NullIsNoNode
  <2>4. QED BY <1>14, <2>2, <2>3, ChainsWithout
<1>16. init \notin Forest!Under(tmp)
  <2>1. ~Reaches(parent, init, tmp)
    BY <1>2, <1>4, ReachesNext, NullIsNoNode
  <2>2. QED BY <1>5, <2>1, NotUnder
<1>17. Len(Kids[tmp]) = 1
  BY <1>8
<1>18. Forest!HandOver(init, tmp)
  BY <1>3, <1>4, <1>13, <1>14, <1>15, <1>16, <1>17 DEF Forest!HandOver, Kids, Chains
<1>19. QED BY <1>18, Zenon DEF Forest!Rearrange

\* AddChild adopts a chain of one node.
LEMMA AddChildStep ==
  ASSUME IsFiniteSet(Nodes), TreeInv, TreeInv', NEW p \in Nodes, NEW n \in Nodes,
         p \notin stale, Loose(n), ~Reaches(parent, p, n), AddChild(p, n)
  PROVE  Forest!Rearrange
<1>1. /\ parent \in [Nodes -> Pointer] /\ next_sibling \in [Nodes -> Pointer]
      /\ prev_sibling \in [Nodes -> Pointer]
  BY DEF TreeInv, LinksTyped
<1>2. /\ first_child' = [first_child EXCEPT ![p] = IF @ = Null THEN n ELSE @]
      /\ next_sibling' = [x \in Nodes |-> IF x = last_child[p] THEN n ELSE next_sibling[x]]
      /\ prev_sibling' = [prev_sibling EXCEPT ![n] = last_child[p]]
      /\ parent' = [parent EXCEPT ![n] = p]
      /\ stale' = stale
  BY DEF AddChild
<1>3. ChainHead(n) /\ next_sibling[n] = Null
  BY DEF Loose, ChainHead
<1>4. \A x \in Nodes : Reaches(next_sibling, n, x) => ~Reaches(parent, p, x)
  <2>1. \A x \in Nodes : Reaches(next_sibling, n, x) => x = n
    BY <1>1, <1>3, ReachesNext, NullIsNoNode
  <2>2. QED BY <2>1
<1>5. \A x \in Nodes : ChainHead(x)' <=> ChainHead(x) /\ x # n
  <2>1. ASSUME NEW x \in Nodes
        PROVE  parent'[x] = Null /\ prev_sibling'[x] = Null
                 <=> parent[x] = Null /\ prev_sibling[x] = Null /\ x # n
    BY <1>1, <1>2, NullIsNoNode
  <2>2. QED BY <1>2, <2>1 DEF ChainHead
<1>6. QED BY <1>2, <1>3, <1>4, <1>5, AdoptStep

\* AddChildren adopts the chain of node.
LEMMA AddChildrenStep ==
  ASSUME IsFiniteSet(Nodes), TreeInv, TreeInv', NEW p \in Nodes, NEW node \in Nodes,
         CanAddChildren(p, node), AddChildren(p, node)
  PROVE  Forest!Rearrange
<1>1. /\ parent \in [Nodes -> Pointer] /\ prev_sibling \in [Nodes -> Pointer]
  BY DEF TreeInv, LinksTyped
<1>2. /\ parent' = [x \in Nodes |-> IF Reaches(next_sibling, node, x) THEN p ELSE parent[x]]
      /\ first_child' = [first_child EXCEPT ![p] = IF @ = Null THEN node ELSE @]
      /\ next_sibling' = [x \in Nodes |-> IF x = last_child[p] THEN node ELSE next_sibling[x]]
      /\ prev_sibling' = [prev_sibling EXCEPT ![node] = last_child[p]]
      /\ stale' = stale
  BY DEF AddChildren
<1>3. /\ p \notin stale /\ ChainHead(node)
      /\ \A x \in Nodes : Reaches(next_sibling, node, x) => ~Reaches(parent, p, x)
  BY DEF CanAddChildren
<1>4. \A x \in Nodes : ChainHead(x)' <=> ChainHead(x) /\ x # node
  <2>1. \A x \in Nodes : Reaches(next_sibling, node, x) /\ x # node => prev_sibling[x] # Null
    BY <1>3, ChainOfHead, NullIsNoNode
  <2>2. Reaches(next_sibling, node, node)
    BY ReachesSelf
  <2>3. ASSUME NEW x \in Nodes
        PROVE  parent'[x] = Null /\ prev_sibling'[x] = Null
                 <=> parent[x] = Null /\ prev_sibling[x] = Null /\ x # node
    BY <1>1, <1>2, <2>1, <2>2, NullIsNoNode
  <2>4. QED BY <1>2, <2>3 DEF ChainHead
<1>5. QED BY <1>2, <1>3, <1>4, AdoptStep

----------------------------------------------------------------------------
\* At first every node is a chain of its own.
LEMMA FirstForest ==
  ASSUME IsFiniteSet(Nodes), AstInit
  PROVE  Forest!ForestInit
<1>1. TreeInv /\ TreeInit /\ torn = FALSE
  BY InitInv DEF AstInit
<1>2. ASSUME NEW n \in Nodes PROVE ChainHead(n) /\ Chain(n) = <<n>>
  <2>1. Loose(n)
    BY <1>1 DEF TreeInit, Loose
  <2>2. QED BY <1>1, <2>1, LooseChain
<1>3. Chains = {<<n>> : n \in Nodes}
  BY <1>2 DEF Chains
<1>4. Chain(Null) = <<>>
  <2>1. IsList(next_sibling, Null, Chain(Null))
    BY <1>1, ChainIs DEF Pointer
  <2>2. QED BY <2>1 DEF IsList
<1>5. Kids = [p \in Nodes |-> <<>>]
  BY <1>1, <1>4 DEF TreeInit, Kids
<1>6. stale = {}
  BY <1>1 DEF TreeInit
<1>7. QED BY <1>1, <1>3, <1>5, <1>6 DEF Forest!ForestInit, Kids, Chains

\* Every orderly call is a rearrangement of the forest.
LEMMA CallStep ==
  ASSUME IsFiniteSet(Nodes), TreeInv, Calls
  PROVE  Forest!Rearrange
<1>1. TreeInv'
  BY CallInv
<1>2. ASSUME NEW p \in Nodes, NEW n \in Nodes,
             p \notin stale, Loose(n), ~Reaches(parent, p, n), AddChild(p, n)
      PROVE  Forest!Rearrange
  BY <1>1, <1>2, AddChildStep
<1>3. ASSUME NEW p \in Nodes, NEW n \in Nodes,
             p \notin stale, n \notin stale, RemoveChild(p, n)
      PROVE  Forest!Rearrange
  BY <1>1, <1>3, RemoveChildStep
<1>4. ASSUME NEW n \in Nodes, NEW at \in Nodes,
             at \notin stale, parent[at] # Null, Loose(n), ~Reaches(parent, at, n),
             InsertBefore(n, at) \/ InsertAfter(n, at)
      PROVE  Forest!Rearrange
  BY <1>1, <1>4, InsertBeforeStep, InsertAfterStep
<1>5. ASSUME NEW this \in Nodes, NEW sibling \in Nodes,
             CanAddSibling(this, sibling), AddSibling(this, sibling)
      PROVE  Forest!Rearrange
  BY <1>1, <1>5, JoinStep
<1>6. ASSUME NEW p \in Nodes, NEW node \in Nodes,
             CanAddChildren(p, node), AddChildren(p, node)
      PROVE  Forest!Rearrange
  BY <1>1, <1>6, AddChildrenStep
<1>7. ASSUME NEW init \in Nodes, NEW tmp \in Nodes,
             CanAppendExpression(init, tmp), AppendExpression(init, tmp)
      PROVE  Forest!Rearrange
  BY <1>1, <1>7, AppendExpressionStep
<1>8. TreeNext => Forest!Rearrange
  BY <1>2, <1>3, <1>4, Zenon DEF TreeNext
<1>9. QED BY <1>5, <1>6, <1>7, <1>8, Zenon DEF Calls

\* Attaching a child of q under p, without taking it out, tears the forest.
LEMMA TearStep ==
  ASSUME IsFiniteSet(Nodes), TreeInv, NEW p \in Nodes, NEW q \in Nodes, NEW n \in Nodes,
         p # q, {p, q, n} \cap stale = {}, parent[n] = q, torn' = TRUE
  PROVE  \E r, o, m \in Nodes : Forest!Tear(r, o, m)
<1>1. ToSet(Kids[q]) = {x \in Nodes \ stale : parent[x] = q /\ q \notin stale}
  BY KidsAre
<1>2. n \in Forest!ToSet(Kids[q])
  BY <1>1, SameToSet
<1>3. Forest!Tear(p, q, n)
  BY <1>2, Zenon DEF Forest!Tear, Kids
<1>4. QED BY <1>3, Zenon

\* Every step of the links is a step of the forest, or none.
LEMMA ForestStep ==
  ASSUME IsFiniteSet(Nodes), AstInv, [AstNext]_astVars
  PROVE  [Forest!ForestNext]_(Forest!forestVars)
<1>1. CASE UNCHANGED astVars
  <2>1. /\ first_child' = first_child /\ next_sibling' = next_sibling /\ prev_sibling' = prev_sibling
        /\ parent' = parent /\ stale' = stale /\ torn' = torn
    BY <1>1 DEF astVars, treeVars
  <2>2. \A n \in Nodes : ChainHead(n)' <=> ChainHead(n)
    BY <2>1 DEF ChainHead
  <2>3. Kids' = Kids
    BY <2>1, NextForest DEF Kids, Chain
  <2>4. Chains' = Chains
    BY <2>1, <2>2, NextForest DEF Chains, Chain
  <2>5. QED BY <2>1, <2>3, <2>4 DEF Forest!forestVars, Kids, Chains
<1>2. CASE ~torn /\ Calls /\ UNCHANGED torn
  <2>1. Forest!Rearrange
    BY <1>2, CallStep DEF AstInv
  <2>2. QED BY <1>2, <2>1, Zenon DEF Forest!ForestNext
<1>3. ASSUME NEW f \in Nodes, NEW attr \in Nodes, ~torn, ShareAttributes(f, attr)
      PROVE  Forest!ForestNext
  <2>1. TreeInv
    BY <1>3 DEF AstInv
  <2>2. CanShareAttributes(f, attr) /\ torn' = TRUE
    BY <1>3 DEF ShareAttributes
  <2>3. parent[attr] \in Nodes
    BY <2>1, <2>2 DEF CanShareAttributes, TreeInv, LinksTyped, Pointer
  <2>4. f # parent[attr] /\ {f, parent[attr], attr} \cap stale = {}
    BY <2>2, <2>3, NullIsNoNode DEF CanShareAttributes
  <2>5. \E r, o, m \in Nodes : Forest!Tear(r, o, m)
    BY <2>1, <2>2, <2>3, <2>4, TearStep
  <2>6. QED BY <1>3, <2>5, Zenon DEF Forest!ForestNext
<1>4. ASSUME NEW st \in Nodes, NEW s \in Nodes, ~torn, DeclareLocally(st, s)
      PROVE  Forest!ForestNext
  <2>1. TreeInv
    BY <1>4 DEF AstInv
  <2>2. CanDeclareLocally(st, s) /\ torn' = TRUE
    BY <1>4 DEF DeclareLocally
  <2>3. parent[s] \in Nodes
    BY <2>1, <2>2 DEF CanDeclareLocally, TreeInv, LinksTyped, Pointer
  <2>4. st # parent[s] /\ {st, parent[s], s} \cap stale = {}
    BY <2>2, <2>3 DEF CanDeclareLocally
  <2>5. \E r, o, m \in Nodes : Forest!Tear(r, o, m)
    BY <2>1, <2>2, <2>3, <2>4, TearStep
  <2>6. QED BY <1>4, <2>5, Zenon DEF Forest!ForestNext
<1>5. QED BY <1>1, <1>2, <1>3, <1>4 DEF AstNext

\* Every orderly call on the five links of the nodes does to the lists what the same
\* call does in an ordered forest, and the other two give a child away that has not
\* been taken out: the links implement the forest until it is torn.
THEOREM LinksImplementForest ==
  ASSUME IsFiniteSet(Nodes)
  PROVE  AstSpec => ImplementsForest
<1>1. AstInit => Forest!ForestInit
  BY FirstForest
<1>2. AstInv /\ [AstNext]_astVars => [Forest!ForestNext]_(Forest!forestVars)
  BY ForestStep
<1>3. QED BY <1>1, <1>2, Invariance, PTL DEF AstSpec, ImplementsForest, Forest!ForestSpec

----------------------------------------------------------------------------
\* The loop of AddChildren.

\* The links after k rounds under p, along the chain q: the first k nodes are
\* children of p, behind those it had, and the last of them has no successor yet.
LinksAfter(p, q, k) ==
  [ parent |-> [x \in Nodes |-> IF \E i \in 1 .. k : x = q[i] THEN p ELSE parent[x]],
    first  |-> [x \in Nodes |->
                  IF k > 0 /\ x = p /\ first_child[p] = Null THEN q[1] ELSE first_child[x]],
    last   |-> [x \in Nodes |-> IF k > 0 /\ x = p THEN q[k] ELSE last_child[x]],
    next   |-> [x \in Nodes |-> IF k > 0 /\ x = last_child[p] THEN q[1]
                                ELSE IF k > 0 /\ x = q[k] THEN Null ELSE next_sibling[x]],
    prev   |-> [x \in Nodes |->
                  IF k > 0 /\ x = q[1] THEN last_child[p] ELSE prev_sibling[x]] ]

\* The state of the loop after k rounds.
StateAfter(p, q, k) ==
  IF k < Len(q) THEN [cur |-> q[k + 1], links |-> LinksAfter(p, q, k)]
  ELSE [cur |-> Null, links |-> LinksAfter(p, q, Len(q))]

\* The chain of node, as the loop under p meets it: no node twice, neighbours linked
\* both ways, and none of them is p or its last child.
Handed(p, node, q) ==
  /\ q \in Seq(Nodes) /\ Len(q) > 0 /\ q[1] = node /\ IsInjective(q)
  /\ ToSet(q) = {x \in Nodes : Reaches(next_sibling, node, x)}
  /\ next_sibling[q[Len(q)]] = Null
  /\ \A i \in 1 .. Len(q) - 1 : next_sibling[q[i]] = q[i + 1] /\ prev_sibling[q[i + 1]] = q[i]
  /\ \A i \in 1 .. Len(q) : q[i] # p /\ q[i] # last_child[p]

LEMMA HandedChain ==
  ASSUME TreeInv, NEW p \in Nodes, NEW node \in Nodes, CanAddChildren(p, node)
  PROVE  \E q : Handed(p, node, q)
<1>. USE NullIsNoNode
<1>1. PICK q : IsList(next_sibling, node, q)
  BY ListExists DEF TreeInv, LinksTyped, NoRings, Pointer
<1>2. IsInjective(q) /\ ToSet(q) = {x \in Nodes : Reaches(next_sibling, node, x)}
  BY <1>1, ListHolds DEF TreeInv, LinksTyped, NoRings, Pointer
<1>3. /\ q \in Seq(Nodes) /\ Len(q) \in Nat /\ Len(q) > 0 /\ q[1] = node
      /\ DOMAIN q = 1 .. Len(q) /\ next_sibling[q[Len(q)]] = Null
      /\ \A i \in 1 .. Len(q) - 1 : next_sibling[q[i]] = q[i + 1]
      /\ \A i \in 1 .. Len(q) : q[i] \in Nodes
  BY <1>1 DEF IsList
<1>4. \A i \in 1 .. Len(q) - 1 : prev_sibling[q[i + 1]] = q[i]
  <2>1. SUFFICES ASSUME NEW i \in 1 .. Len(q) - 1 PROVE prev_sibling[q[i + 1]] = q[i]
    OBVIOUS
  <2>2. i \in 1 .. Len(q) /\ i + 1 \in 1 .. Len(q)
    BY <1>3
  <2>3. q[i] \in Nodes /\ next_sibling[q[i]] = q[i + 1] /\ q[i + 1] # Null
    BY <1>3, <2>2
  <2>4. QED BY <2>3 DEF TreeInv, LinkedBothWays
<1>5. ASSUME NEW i \in 1 .. Len(q) PROVE q[i] # p /\ q[i] # last_child[p]
  <2>1. q[i] \in Nodes /\ q[i] \in ToSet(q)
    BY <1>3, Zenon DEF ToSet
  <2>2. Reaches(next_sibling, node, q[i])
    BY <1>2, <2>1
  <2>3. parent[q[i]] = Null /\ ~Reaches(parent, p, q[i])
    BY <2>1, <2>2, ChainOfHead DEF CanAddChildren
  <2>4. q[i] # p
    BY <2>3, ReachesSelf
  <2>5. last_child[p] # Null => parent[last_child[p]] = p
    BY DEF CanAddChildren, TreeInv, LinksTyped, EndsMeet
  <2>6. QED BY <2>1, <2>3, <2>4, <2>5
<1>6. QED BY <1>2, <1>3, <1>4, <1>5 DEF Handed

\* A round adds the next node.
LEMMA LinksOfRound ==
  ASSUME TreeInv, NEW p \in Nodes, NEW node \in Nodes, NEW q, Handed(p, node, q),
         NEW k \in 1 .. Len(q)
  PROVE  /\ LinkedUnder(p, q[k], ResetSibling(q[k], LinksAfter(p, q, k - 1)))
              = LinksAfter(p, q, k)
         /\ LinksAfter(p, q, k - 1).next[q[k]] = IF k < Len(q) THEN q[k + 1] ELSE Null
<1>. USE NullIsNoNode
<1>. DEFINE L == LinksAfter(p, q, k - 1)
            R == ResetSibling(q[k], L)
            N == LinkedUnder(p, q[k], R)
            M == LinksAfter(p, q, k)
<1>1. /\ Len(q) \in Nat /\ k \in Nat /\ k > 0 /\ k - 1 \in Nat
      /\ \A i \in 1 .. Len(q) : q[i] \in Nodes /\ q[i] # p /\ q[i] # last_child[p]
      /\ \A i, j \in 1 .. Len(q) : q[i] = q[j] => i = j
      /\ k > 1 => k - 1 \in 1 .. Len(q) /\ next_sibling[q[k - 1]] = q[k]
                                       /\ prev_sibling[q[k]] = q[k - 1]
      /\ k < Len(q) => next_sibling[q[k]] = q[k + 1]
      /\ next_sibling[q[Len(q)]] = Null
  <2>1. q \in Seq(Nodes) /\ Len(q) \in Nat /\ DOMAIN q = 1 .. Len(q)
    BY DEF Handed
  <2>2. \A i \in 1 .. Len(q) : q[i] \in Nodes
    BY <2>1
  <2>3. \A i, j \in 1 .. Len(q) : q[i] = q[j] => i = j
    BY <2>1 DEF Handed, IsInjective
  <2>4. k > 1 => k - 1 \in 1 .. Len(q) - 1 /\ k - 1 + 1 = k
    BY <2>1
  <2>5. k < Len(q) => k \in 1 .. Len(q) - 1
    BY <2>1
  <2>6. k > 1 => k - 1 \in 1 .. Len(q) /\ next_sibling[q[k - 1]] = q[k]
                                       /\ prev_sibling[q[k]] = q[k - 1]
    BY <2>1, <2>4 DEF Handed
  <2>7. QED BY <2>1, <2>2, <2>3, <2>5, <2>6 DEF Handed
<1>2. /\ parent \in [Nodes -> Pointer] /\ first_child \in [Nodes -> Pointer]
      /\ last_child \in [Nodes -> Pointer] /\ next_sibling \in [Nodes -> Pointer]
      /\ prev_sibling \in [Nodes -> Pointer]
  BY DEF TreeInv, LinksTyped
<1>3. /\ R.parent = L.parent /\ R.first = L.first /\ R.last = L.last
      /\ R.next = [L.next EXCEPT ![q[k]] = Null]
      /\ R.prev = [L.prev EXCEPT ![q[k]] = Null]
  BY DEF ResetSibling, LinksAfter
<1>4. /\ L.parent = [x \in Nodes |-> IF \E i \in 1 .. k - 1 : x = q[i] THEN p ELSE parent[x]]
      /\ L.first = [x \in Nodes |->
           IF k - 1 > 0 /\ x = p /\ first_child[p] = Null THEN q[1] ELSE first_child[x]]
      /\ L.last = [x \in Nodes |-> IF k - 1 > 0 /\ x = p THEN q[k - 1] ELSE last_child[x]]
      /\ L.next = [x \in Nodes |-> IF k - 1 > 0 /\ x = last_child[p] THEN q[1]
                     ELSE IF k - 1 > 0 /\ x = q[k - 1] THEN Null ELSE next_sibling[x]]
      /\ L.prev = [x \in Nodes |->
           IF k - 1 > 0 /\ x = q[1] THEN last_child[p] ELSE prev_sibling[x]]
  BY DEF LinksAfter
<1>5. /\ N = [ parent |-> [R.parent EXCEPT ![q[k]] = p],
               first  |-> [R.first EXCEPT ![p] = IF @ = Null THEN q[k] ELSE @],
               last   |-> [R.last EXCEPT ![p] = q[k]],
               next   |-> [x \in Nodes |-> IF x = R.last[p] THEN q[k] ELSE R.next[x]],
               prev   |-> [R.prev EXCEPT ![q[k]] = R.last[p]] ]
  BY DEF LinkedUnder
<1>. HIDE DEF L, R
<1>6. N.parent = M.parent
  <2>1. N.parent = [x \in Nodes |-> IF x = q[k] THEN p ELSE L.parent[x]]
    <3>1. N.parent = [L.parent EXCEPT ![q[k]] = p]
      BY <1>3, <1>5
    <3>2. L.parent = [x \in Nodes |-> L.parent[x]]
      BY <1>4
    <3>. HIDE DEF N
    <3>3. QED BY <3>1, <3>2
  <2>2. \A x \in Nodes : (\E i \in 1 .. k : x = q[i]) <=> x = q[k] \/ \E i \in 1 .. k - 1 : x = q[i]
    <3>1. \A i \in 1 .. k : i = k \/ i \in 1 .. k - 1
      BY <1>1
    <3>2. k \in 1 .. k /\ \A i \in 1 .. k - 1 : i \in 1 .. k
      BY <1>1
    <3>3. QED BY <3>1, <3>2, Zenon
  <2>3. M.parent = [x \in Nodes |-> IF \E i \in 1 .. k : x = q[i] THEN p ELSE parent[x]]
    BY DEF LinksAfter
  <2>4. \A x \in Nodes : N.parent[x] = M.parent[x]
    BY <1>4, <2>1, <2>2, <2>3
  <2>5. N.parent = [x \in Nodes |-> N.parent[x]] /\ M.parent = [x \in Nodes |-> M.parent[x]]
    BY <2>1, <2>3
  <2>6. QED BY <2>4, <2>5
<1>7. N.first = M.first
  <2>1. N.first = [x \in Nodes |->
          IF x = p THEN (IF L.first[p] = Null THEN q[k] ELSE L.first[p]) ELSE L.first[x]]
    BY <1>3, <1>4, <1>5
  <2>2. M.first = [x \in Nodes |->
          IF k > 0 /\ x = p /\ first_child[p] = Null THEN q[1] ELSE first_child[x]]
    BY DEF LinksAfter
  <2>3. q[1] # Null
    BY <1>1
  <2>4. k - 1 > 0 \/ k = 1
    BY <1>1
  <2>5. \A x \in Nodes : N.first[x] = M.first[x]
    BY <1>1, <1>4, <2>1, <2>2, <2>3, <2>4
  <2>6. N.first = [x \in Nodes |-> N.first[x]] /\ M.first = [x \in Nodes |-> M.first[x]]
    BY <2>1, <2>2
  <2>7. QED BY <2>5, <2>6
<1>8. N.last = M.last
  <2>1. N.last = [x \in Nodes |-> IF x = p THEN q[k] ELSE last_child[x]]
    BY <1>3, <1>4, <1>5
  <2>2. M.last = [x \in Nodes |-> IF k > 0 /\ x = p THEN q[k] ELSE last_child[x]]
    BY DEF LinksAfter
  <2>3. QED BY <1>1, <2>1, <2>2
<1>9. L.last[p] = IF k = 1 THEN last_child[p] ELSE q[k - 1]
  BY <1>1, <1>4
<1>10. N.next = M.next
  <2>1. N.next = [x \in Nodes |-> IF x = L.last[p] THEN q[k]
                                  ELSE IF x = q[k] THEN Null ELSE L.next[x]]
    BY <1>1, <1>3, <1>4, <1>5
  <2>2. M.next = [x \in Nodes |-> IF k > 0 /\ x = last_child[p] THEN q[1]
                                  ELSE IF k > 0 /\ x = q[k] THEN Null ELSE next_sibling[x]]
    BY DEF LinksAfter
  <2>3. CASE k = 1
    <3>1. \A x \in Nodes : N.next[x] = M.next[x]
      BY <1>1, <1>4, <1>9, <2>1, <2>2, <2>3
    <3>2. QED BY <2>1, <2>2, <3>1
  <2>4. CASE k > 1
    <3>1. \A x \in Nodes : L.next[x] = IF x = last_child[p] THEN q[1]
                                       ELSE IF x = q[k - 1] THEN Null ELSE next_sibling[x]
      BY <1>1, <1>4, <2>4
    <3>2. q[k - 1] # last_child[p] /\ q[k] # last_child[p] /\ q[k - 1] # q[k]
          /\ next_sibling[q[k - 1]] = q[k]
      BY <1>1, <2>4
    <3>3. L.last[p] = q[k - 1]
      BY <1>9, <2>4
    <3>4. \A x \in Nodes : M.next[x] = IF x = last_child[p] THEN q[1]
                                       ELSE IF x = q[k] THEN Null ELSE next_sibling[x]
      BY <1>1, <2>2
    <3>5. \A x \in Nodes : N.next[x] = IF x = q[k - 1] THEN q[k]
                                       ELSE IF x = q[k] THEN Null ELSE L.next[x]
      BY <2>1, <3>3
    <3>. HIDE DEF N, M
    <3>6. \A x \in Nodes : N.next[x] = M.next[x]
      BY <3>1, <3>2, <3>4, <3>5
    <3>7. N.next = [x \in Nodes |-> N.next[x]] /\ M.next = [x \in Nodes |-> M.next[x]]
      BY <2>1, <2>2
    <3>8. QED BY <3>6, <3>7
  <2>5. QED BY <1>1, <2>3, <2>4
<1>11. N.prev = M.prev
  <2>1. N.prev = [x \in Nodes |-> IF x = q[k] THEN L.last[p] ELSE L.prev[x]]
    <3>1. N.prev = [[L.prev EXCEPT ![q[k]] = Null] EXCEPT ![q[k]] = L.last[p]]
      BY <1>3, <1>5
    <3>2. L.prev = [x \in Nodes |-> L.prev[x]] /\ q[k] \in Nodes
      BY <1>1, <1>4
    <3>. HIDE DEF N
    <3>3. QED BY <3>1, <3>2
  <2>2. M.prev = [x \in Nodes |-> IF k > 0 /\ x = q[1] THEN last_child[p] ELSE prev_sibling[x]]
    BY DEF LinksAfter
  <2>3. k > 1 => q[1] # q[k] /\ prev_sibling[q[k]] = q[k - 1]
    BY <1>1
  <2>4. \A x \in Nodes : N.prev[x] = M.prev[x]
    BY <1>1, <1>4, <1>9, <2>1, <2>2, <2>3
  <2>5. QED BY <2>1, <2>2, <2>4
<1>12. N = M
  BY <1>5, <1>6, <1>7, <1>8, <1>10, <1>11 DEF LinksAfter
<1>13. L.next[q[k]] = IF k < Len(q) THEN q[k + 1] ELSE Null
  <2>1. L.next[q[k]] = next_sibling[q[k]]
    BY <1>1, <1>4
  <2>2. QED BY <1>1, <2>1
<1>14. QED BY <1>12, <1>13 DEF L, R

\* Before the first round nothing has been changed; after the last one the links
\* are those that the action makes.
LEMMA LinksAtFirst ==
  ASSUME TreeInv, NEW p, NEW q
  PROVE  LinksAfter(p, q, 0) = Links
<1>1. 1 .. 0 = {} /\ ~(0 > 0)
  OBVIOUS
<1>2. QED BY <1>1 DEF LinksAfter, Links, TreeInv, LinksTyped

LEMMA LinksAtLast ==
  ASSUME TreeInv, NEW p \in Nodes, NEW node \in Nodes, NEW q, Handed(p, node, q),
         AddChildren(p, node)
  PROVE  LinksAfter(p, q, Len(q)) = Links'
<1>. USE NullIsNoNode
<1>. DEFINE chain == {x \in Nodes : Reaches(next_sibling, node, x)}
            m == Len(q)
<1>1. PICK e \in chain :
        /\ next_sibling[e] = Null
        /\ last_child' = [last_child EXCEPT ![p] = e]
  BY DEF AddChildren
<1>2. /\ parent' = [x \in Nodes |-> IF x \in chain THEN p ELSE parent[x]]
      /\ first_child' = [first_child EXCEPT ![p] = IF @ = Null THEN node ELSE @]
      /\ next_sibling' = [x \in Nodes |-> IF x = last_child[p] THEN node ELSE next_sibling[x]]
      /\ prev_sibling' = [prev_sibling EXCEPT ![node] = last_child[p]]
  BY DEF AddChildren
<1>3. /\ m \in Nat /\ m > 0 /\ q \in Seq(Nodes) /\ DOMAIN q = 1 .. m /\ q[1] = node
      /\ q[m] \in Nodes /\ next_sibling[q[m]] = Null /\ chain = ToSet(q)
  BY DEF Handed
<1>4. \A x \in Nodes : x \in chain <=> \E i \in 1 .. m : x = q[i]
  BY <1>3, Zenon DEF ToSet
<1>5. q[m] = e
  <2>1. m \in 1 .. m
    BY <1>3
  <2>2. q[m] \in chain
    BY <1>3, <1>4, <2>1
  <2>3. QED BY <1>1, <1>3, <2>2, OneEnd DEF TreeInv, LinksTyped
<1>. HIDE DEF chain, m
<1>6. LinksAfter(p, q, m).parent = parent'
  BY <1>2, <1>4 DEF LinksAfter
<1>7. LinksAfter(p, q, m).first = first_child'
  BY <1>2, <1>3 DEF LinksAfter, TreeInv, LinksTyped
<1>8. LinksAfter(p, q, m).last = last_child'
  BY <1>1, <1>3, <1>5 DEF LinksAfter, TreeInv, LinksTyped
<1>9. LinksAfter(p, q, m).next = next_sibling'
  <2>1. LinksAfter(p, q, m).next
          = [x \in Nodes |-> IF x = last_child[p] THEN node
                             ELSE IF x = q[m] THEN Null ELSE next_sibling[x]]
    BY <1>3 DEF LinksAfter
  <2>2. QED BY <1>2, <1>3, <2>1
<1>10. LinksAfter(p, q, m).prev = prev_sibling'
  BY <1>2, <1>3 DEF LinksAfter, TreeInv, LinksTyped
<1>11. QED BY <1>6, <1>7, <1>8, <1>9, <1>10 DEF LinksAfter, Links, m

\* The loop, round by round.
LEMMA LoopHolds ==
  ASSUME IsFiniteSet(Nodes), TreeInv, NEW p \in Nodes, NEW node \in Nodes,
         NEW q, Handed(p, node, q)
  PROVE  AddChildrenLoop(p, node) = [cur |-> Null, links |-> LinksAfter(p, q, Len(q))]
<1>. DEFINE n == Cardinality(Nodes)
            Good(g) == g = [k \in 0 .. n |->
                              IF k = 0 THEN [cur |-> node, links |-> Links] ELSE Round(p, g[k - 1])]
            f == CHOOSE g : Good(g)
            w == [k \in 0 .. n |-> StateAfter(p, q, k)]
<1>1. n \in Nat /\ Len(q) \in Nat /\ Len(q) > 0 /\ Len(q) <= n /\ q[1] = node
      /\ \A i \in 1 .. Len(q) : q[i] \in Nodes
  <2>1. q \in Seq(Nodes) /\ IsInjective(q) /\ Len(q) > 0 /\ q[1] = node
    BY DEF Handed
  <2>2. QED BY <2>1, ListFits, FS_CardinalityType
<1>2. AddChildrenLoop(p, node) = f[n]
  BY DEF AddChildrenLoop
<1>. HIDE DEF n
<1>3. StateAfter(p, q, 0) = [cur |-> node, links |-> Links]
  BY <1>1, LinksAtFirst DEF StateAfter
<1>4. ASSUME NEW k \in 1 .. n PROVE StateAfter(p, q, k) = Round(p, StateAfter(p, q, k - 1))
  <2>1. CASE k <= Len(q)
    <3>1. k \in 1 .. Len(q) /\ k - 1 < Len(q) /\ k - 1 + 1 = k /\ q[k] # Null
      BY <1>1, <2>1, NullIsNoNode
    <3>2. StateAfter(p, q, k - 1) = [cur |-> q[k], links |-> LinksAfter(p, q, k - 1)]
      BY <3>1 DEF StateAfter
    <3>3. Round(p, StateAfter(p, q, k - 1))
            = [ cur |-> LinksAfter(p, q, k - 1).next[q[k]],
                links |-> LinkedUnder(p, q[k], ResetSibling(q[k], LinksAfter(p, q, k - 1))) ]
      BY <3>1, <3>2 DEF Round
    <3>4. Round(p, StateAfter(p, q, k - 1))
            = [ cur |-> IF k < Len(q) THEN q[k + 1] ELSE Null, links |-> LinksAfter(p, q, k) ]
      BY <3>1, <3>3, LinksOfRound
    <3>5. k < Len(q) \/ k = Len(q)
      BY <1>1, <2>1
    <3>6. QED BY <3>4, <3>5 DEF StateAfter
  <2>2. CASE ~(k <= Len(q))
    <3>1. ~(k < Len(q)) /\ ~(k - 1 < Len(q))
      BY <1>1, <2>2
    <3>2. QED BY <3>1 DEF StateAfter, Round
  <2>3. QED BY <2>1, <2>2
<1>5. Good(w)
  <2>1. ASSUME NEW k \in 0 .. n
        PROVE  w[k] = IF k = 0 THEN [cur |-> node, links |-> Links] ELSE Round(p, w[k - 1])
    <3>1. CASE k = 0
      BY <1>3, <3>1
    <3>2. CASE k # 0
      <4>1. k \in 1 .. n /\ k - 1 \in 0 .. n
        BY <1>1, <3>2
      <4>2. w[k] = StateAfter(p, q, k) /\ w[k - 1] = StateAfter(p, q, k - 1)
        BY <4>1
      <4>3. QED BY <1>4, <3>2, <4>1, <4>2
    <3>3. QED BY <3>1, <3>2
  <2>2. w = [k \in 0 .. n |-> w[k]]
    OBVIOUS
  <2>. HIDE DEF w
  <2>3. QED BY <2>1, <2>2
<1>6. Good(f)
  <2>. HIDE DEF Good
  <2>1. QED BY <1>5
<1>. HIDE DEF f
<1>7. \A k \in 0 .. n :
        f[k] = IF k = 0 THEN [cur |-> node, links |-> Links] ELSE Round(p, f[k - 1])
  BY <1>6
<1>. HIDE DEF Good
<1>. DEFINE T == {k \in 0 .. n : f[k] # StateAfter(p, q, k)}
<1>8. T = {}
  <2>1. SUFFICES ASSUME T # {} PROVE FALSE
    OBVIOUS
  <2>2. PICK k \in T : \A j \in T : k <= j
    <3>1. T \in SUBSET Nat
      OBVIOUS
    <3>. HIDE DEF T
    <3>2. QED BY <2>1, <3>1, Least
  <2>3. k \in 0 .. n /\ k # 0
    BY <1>3, <1>7
  <2>4. k \in 1 .. n /\ k - 1 \in 0 .. n /\ ~(k <= k - 1)
    BY <1>1, <2>3
  <2>5. k - 1 \notin T
    <3>. HIDE DEF T
    <3>1. QED BY <2>2, <2>4
  <2>6. f[k - 1] = StateAfter(p, q, k - 1)
    BY <2>4, <2>5
  <2>7. f[k] = Round(p, f[k - 1])
    BY <1>7, <2>3
  <2>8. f[k] = StateAfter(p, q, k)
    BY <1>4, <2>4, <2>6, <2>7
  <2>9. QED BY <2>8
<1>9. f[n] = StateAfter(p, q, n)
  <2>1. n \in 0 .. n
    BY <1>1
  <2>2. QED BY <1>8, <2>1
<1>10. ~(n < Len(q))
  BY <1>1
<1>11. QED BY <1>2, <1>9, <1>10 DEF StateAfter

\* Handing a chain to a parent, in one step, is what the loop does, which resets
\* each node and gives it to the parent before it goes on to the next: it loses
\* none of them, and it ends.
THEOREM LoopIsOneStep ==
  ASSUME IsFiniteSet(Nodes)
  PROVE  AstSpec => AddChildrenIsItsLoop
<1>. DEFINE Act == \A p, node \in Nodes :
                     CanAddChildren(p, node) /\ AddChildren(p, node)
                       => AddChildrenLoop(p, node) = [cur |-> Null, links |-> Links']
<1>1. TreeInv => Act
  <2>1. SUFFICES ASSUME TreeInv, NEW p \in Nodes, NEW node \in Nodes,
                        CanAddChildren(p, node), AddChildren(p, node)
                 PROVE  AddChildrenLoop(p, node) = [cur |-> Null, links |-> Links']
    BY DEF Act
  <2>2. PICK q : Handed(p, node, q)
    BY <2>1, HandedChain
  <2>3. QED BY <2>1, <2>2, LinksAtLast, LoopHolds
<1>2. AstInv /\ [AstNext]_astVars => [Act]_astVars
  BY <1>1 DEF AstInv, AstNext
<1>3. QED BY <1>2, Invariance, PTL DEF AstSpec, AddChildrenIsItsLoop
=============================================================================
