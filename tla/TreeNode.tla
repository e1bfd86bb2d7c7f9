------------------------------ MODULE TreeNode ------------------------------
(***************************************************************************)
(* azer/base/tree_node.h: the intrusive tree that carries the AST, the     *)
(* programs and contexts of the linker, the scene nodes and the widgets.   *)
(* Every node holds five links; an operation rewrites the links of at      *)
(* most four nodes, and nothing but its order of assignments keeps them    *)
(* consistent.                                                             *)
(*                                                                         *)
(* The DCHECKs of the code are guards: a run past a failed one is no run   *)
(* of the program.  What the code does not check is that a node is         *)
(* attached only while it is loose, and never below itself.  TreeNext has  *)
(* the calls that keep to this; the two places of the grammar that do not  *)
(* are in AstNode.                                                         *)
(***************************************************************************)
EXTENDS Naturals, Sequences, FiniteSets, SequencesExt

CONSTANTS
  Nodes,   \* the objects derived from TreeNode
  Null     \* the null pointer

ASSUME NullIsNoNode == Null \notin Nodes

VARIABLES
  parent,        \* parent_
  first_child,   \* first_child_
  last_child,    \* last_child_
  next_sibling,  \* next_sibling_
  prev_sibling,  \* prev_sibling_
  named,         \* the nodes whose node_name_ has not been cleared
  stale          \* nodes that are left behind with links no tree agrees
                 \* with: what hung under a removed node, and the temporary
                 \* nodes of the grammar; no caller uses them again

links == <<parent, first_child, last_child, next_sibling, prev_sibling>>
treeVars == <<parent, first_child, last_child, next_sibling, prev_sibling, named, stale>>

Pointer == Nodes \cup {Null}

----------------------------------------------------------------------------
\* Following one link from node to node.

Closed(link, S) == \A x \in S : link[x] \in S \cup {Null}

\* b is met on the way from a along the link: it is in every set that holds a
\* and is closed under the link.  (a itself is met.)
Reaches(link, a, b) ==
  /\ a # Null
  /\ \A S \in SUBSET Nodes : a \in S /\ Closed(link, S) => b \in S

\* The nodes a loop over p's children visits.
Listed(p) == {c \in Nodes : Reaches(next_sibling, first_child[p], c)}

\* A node that hangs nowhere and is owned by a caller.
Loose(n) ==
  /\ n \notin stale
  /\ parent[n] = Null
  /\ next_sibling[n] = Null
  /\ prev_sibling[n] = Null

----------------------------------------------------------------------------
\* The operations.

\* Every node fresh from TreeNode(name, NULL).
TreeInit ==
  /\ parent = [n \in Nodes |-> Null]
  /\ first_child = [n \in Nodes |-> Null]
  /\ last_child = [n \in Nodes |-> Null]
  /\ next_sibling = [n \in Nodes |-> Null]
  /\ prev_sibling = [n \in Nodes |-> Null]
  /\ named = Nodes
  /\ stale = {}

\* Mutants of AddChild: the old last child is not linked to the new one; the
\* new child is not made the last one.
AddChildForgetsNext(p, n) ==
  /\ next_sibling[n] = Null /\ prev_sibling[n] = Null
  /\ parent' = [parent EXCEPT ![n] = p]
  /\ first_child' = [first_child EXCEPT ![p] = IF @ = Null THEN n ELSE @]
  /\ last_child' = [last_child EXCEPT ![p] = n]
  /\ prev_sibling' = [prev_sibling EXCEPT ![n] = last_child[p]]
  /\ UNCHANGED <<next_sibling, named, stale>>

AddChildForgetsLast(p, n) ==
  /\ next_sibling[n] = Null /\ prev_sibling[n] = Null
  /\ parent' = [parent EXCEPT ![n] = p]
  /\ first_child' = [first_child EXCEPT ![p] = IF @ = Null THEN n ELSE @]
  /\ next_sibling' = [x \in Nodes |-> IF x = last_child[p] THEN n ELSE next_sibling[x]]
  /\ prev_sibling' = [prev_sibling EXCEPT ![n] = last_child[p]]
  /\ UNCHANGED <<last_child, named, stale>>

\* p->AddChild(n)
AddChild(p, n) ==
  /\ next_sibling[n] = Null
  /\ prev_sibling[n] = Null
  /\ last_child[p] # Null => next_sibling[last_child[p]] = Null
  /\ next_sibling' = [x \in Nodes |-> IF x = last_child[p] THEN n ELSE next_sibling[x]]
  /\ prev_sibling' = [prev_sibling EXCEPT ![n] = last_child[p]]
  /\ first_child' = [first_child EXCEPT ![p] = IF @ = Null THEN n ELSE @]
  /\ last_child' = [last_child EXCEPT ![p] = n]
  /\ parent' = [parent EXCEPT ![n] = p]
  /\ UNCHANGED <<named, stale>>

\* Everything that hangs below n, by the parent links.
Below(n) == {x \in Nodes \ {n} : Reaches(parent, x, n)}

\* Mutants of RemoveChild: the last_child_ of p is kept; the previous sibling
\* keeps its link to n.
RemoveChildKeepsLast(p, n) ==
  /\ parent[n] = p
  /\ first_child' = [first_child EXCEPT
       ![p] = IF prev_sibling[n] = Null THEN next_sibling[n] ELSE @, ![n] = Null]
  /\ last_child' = [last_child EXCEPT ![n] = Null]
  /\ next_sibling' = [x \in Nodes |->
       IF x = n THEN Null
       ELSE IF x = prev_sibling[n] THEN next_sibling[n] ELSE next_sibling[x]]
  /\ prev_sibling' = [x \in Nodes |->
       IF x = n THEN Null
       ELSE IF x = next_sibling[n] THEN prev_sibling[n] ELSE prev_sibling[x]]
  /\ parent' = [parent EXCEPT ![n] = Null]
  /\ named' = named \ {n}
  /\ stale' = stale \cup Below(n)

RemoveChildKeepsNext(p, n) ==
  /\ parent[n] = p
  /\ first_child' = [first_child EXCEPT
       ![p] = IF prev_sibling[n] = Null THEN next_sibling[n] ELSE @, ![n] = Null]
  /\ last_child' = [last_child EXCEPT
       ![p] = IF @ = n THEN prev_sibling[n] ELSE @, ![n] = Null]
  /\ next_sibling' = [next_sibling EXCEPT ![n] = Null]
  /\ prev_sibling' = [x \in Nodes |->
       IF x = n THEN Null
       ELSE IF x = next_sibling[n] THEN prev_sibling[n] ELSE prev_sibling[x]]
  /\ parent' = [parent EXCEPT ![n] = Null]
  /\ named' = named \ {n}
  /\ stale' = stale \cup Below(n)

\* p->RemoveChild(n).  n->reset() also drops n's name and n's own child list:
\* the children keep pointing at n, but n lists them no more.
RemoveChild(p, n) ==
  /\ parent[n] = p
  /\ prev_sibling[n] = Null => first_child[p] = n
  /\ first_child' = [first_child EXCEPT
       ![p] = IF prev_sibling[n] = Null THEN next_sibling[n] ELSE @, ![n] = Null]
  /\ last_child' = [last_child EXCEPT
       ![p] = IF @ = n THEN prev_sibling[n] ELSE @, ![n] = Null]
  /\ next_sibling' = [x \in Nodes |->
       IF x = n THEN Null
       ELSE IF x = prev_sibling[n] THEN next_sibling[n] ELSE next_sibling[x]]
  /\ prev_sibling' = [x \in Nodes |->
       IF x = n THEN Null
       ELSE IF x = next_sibling[n] THEN prev_sibling[n] ELSE prev_sibling[x]]
  /\ parent' = [parent EXCEPT ![n] = Null]
  /\ named' = named \ {n}
  /\ stale' = stale \cup Below(n)

\* Mutants: the parent's first_child_ (last_child_) is not moved.
InsertBeforeForgetsFirst(n, before) ==
  /\ parent' = [parent EXCEPT ![n] = parent[before]]
  /\ next_sibling' = [x \in Nodes |->
       IF x = n THEN before
       ELSE IF x = prev_sibling[before] THEN n ELSE next_sibling[x]]
  /\ prev_sibling' = [prev_sibling EXCEPT ![n] = prev_sibling[before], ![before] = n]
  /\ UNCHANGED <<first_child, last_child, named, stale>>

InsertAfterForgetsLast(n, after) ==
  /\ parent' = [parent EXCEPT ![n] = parent[after]]
  /\ prev_sibling' = [x \in Nodes |->
       IF x = n THEN after
       ELSE IF x = next_sibling[after] THEN n ELSE prev_sibling[x]]
  /\ next_sibling' = [next_sibling EXCEPT ![n] = next_sibling[after], ![after] = n]
  /\ UNCHANGED <<first_child, last_child, named, stale>>

\* n->InsertBefore(before).  Before a first child, before->parent_ is dereferenced.
InsertBefore(n, before) ==
  /\ prev_sibling[before] = Null => parent[before] # Null
  /\ parent' = [parent EXCEPT ![n] = parent[before]]
  /\ next_sibling' = [x \in Nodes |->
       IF x = n THEN before
       ELSE IF x = prev_sibling[before] THEN n ELSE next_sibling[x]]
  /\ prev_sibling' = [prev_sibling EXCEPT ![n] = prev_sibling[before], ![before] = n]
  /\ first_child' = [first_child EXCEPT
       ![parent[before]] = IF prev_sibling[before] = Null THEN n ELSE @]
  /\ UNCHANGED <<last_child, named, stale>>

\* n->InsertAfter(after).  Behind a last child, after->parent_ is dereferenced.
InsertAfter(n, after) ==
  /\ next_sibling[after] = Null => parent[after] # Null
  /\ parent' = [parent EXCEPT ![n] = parent[after]]
  /\ prev_sibling' = [x \in Nodes |->
       IF x = n THEN after
       ELSE IF x = next_sibling[after] THEN n ELSE prev_sibling[x]]
  /\ next_sibling' = [next_sibling EXCEPT ![n] = next_sibling[after], ![after] = n]
  /\ last_child' = [last_child EXCEPT
       ![parent[after]] = IF next_sibling[after] = Null THEN n ELSE @]
  /\ UNCHANGED <<first_child, named, stale>>

\* The orderly calls: a loose node goes under a node, or beside an attached one,
\* that is not below it; a node is removed by its parent.
TreeNext ==
  \/ \E p, n \in Nodes :
       /\ p \notin stale /\ Loose(n) /\ ~Reaches(parent, p, n)
       /\ AddChild(p, n)
  \/ \E p, n \in Nodes :
       /\ p \notin stale /\ n \notin stale
       /\ RemoveChild(p, n)
  \/ \E n, at \in Nodes :
       /\ at \notin stale /\ parent[at] # Null /\ Loose(n) /\ ~Reaches(parent, at, n)
       /\ InsertBefore(n, at) \/ InsertAfter(n, at)

----------------------------------------------------------------------------
\* Reading the tree.

\* Going on from m by the link next, at most left times.
ListFrom(next, n) ==
  LET walk[left \in 0 .. Cardinality(Nodes)] == [m \in Pointer |->
        IF m = Null \/ left = 0 THEN <<>> ELSE <<m>> \o walk[left - 1][next[m]]]
  IN  walk[Cardinality(Nodes)][n]

\* The list that starts at n, no longer than the number of nodes.
Chain(n) == ListFrom(next_sibling, n)

\* The nodes in the order root->traverse() calls OnVisitBegin, when no visitor
\* refuses a subtree.
Traverse(root) ==
  LET visit[depth \in 0 .. Cardinality(Nodes)] == [m \in Nodes |->
        IF depth = 0 THEN <<m>>
        ELSE LET below == Chain(first_child[m])
             IN  <<m>> \o FlattenSeq([i \in DOMAIN below |-> visit[depth - 1][below[i]]])]
  IN  visit[Cardinality(Nodes)][root]

\* The first node of order that has the name.  Every node was given a name of its
\* own, here the node itself, and has the empty one (Null) once it has been reset.
FirstNamed(order, name) ==
  LET hits == {i \in DOMAIN order : name = IF order[i] \in named THEN order[i] ELSE Null}
  IN  IF hits = {} THEN Null ELSE order[Min(hits)]

\* Mutant of find: the answer of the first child is returned even if it is NULL.
FindInFirstBranch(root, name) ==
  FirstNamed(<<root>> \o (IF first_child[root] = Null THEN <<>> ELSE Traverse(first_child[root])),
             name)

\* root->find(name)
Find(root, name) == FirstNamed(Traverse(root), name)
=============================================================================
