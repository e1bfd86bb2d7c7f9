--------------------------- MODULE OrderedForest ---------------------------
(***************************************************************************)
(* What the intrusive trees of azer/base/tree_node.h promise: an ordered   *)
(* forest.  A node is in exactly one place: in the list of one parent, in  *)
(* a list a caller is still assembling (a "chain": the sibling lists the   *)
(* grammar builds before the parent exists), or gone.  Nothing is said     *)
(* here of pointers; TreeNode and AstNode show how the code keeps this     *)
(* with five links in every node.  The promise ends where a caller gives   *)
(* a child away that still stands in a list: the forest is torn.           *)
(***************************************************************************)
EXTENDS Naturals, Sequences, FiniteSets, SequencesExt

CONSTANT Nodes

VARIABLES
  kids,    \* kids[p]: the children of p, in document order
  chains,  \* the parentless lists the callers hold, in order
  gone,    \* nodes the callers no longer own
  torn     \* a child has been given to a parent without being taken out first

forestVars == <<kids, chains, gone, torn>>

\* The proper descendants of n: the least set that holds kids[n] and, with a
\* node, that node's children.
Under(n) ==
  { x \in Nodes :
      \A S \in SUBSET Nodes :
        ToSet(kids[n]) \subseteq S /\ (\A y \in S : ToSet(kids[y]) \subseteq S)
          => x \in S }

ForestInit ==
  /\ kids = [p \in Nodes |-> <<>>]
  /\ chains = {<<n>> : n \in Nodes}
  /\ gone = {}
  /\ torn = FALSE

\* p takes over a whole chain, behind the children it has.
Adopt(p, c) ==
  /\ p \notin gone
  /\ \A n \in ToSet(c) : p # n /\ p \notin Under(n)
  /\ kids' = [kids EXCEPT ![p] = @ \o c]
  /\ chains' = chains \ {c}
  /\ UNCHANGED gone

\* Two chains become one.
Join(c, d) ==
  /\ c # d
  /\ chains' = (chains \ {c, d}) \cup {c \o d}
  /\ UNCHANGED <<kids, gone>>

\* A single node goes before (shift = 0) or behind (shift = 1) a child of p.
Place(p, n, i, shift) ==
  /\ p \notin gone
  /\ <<n>> \in chains
  /\ p # n /\ p \notin Under(n)
  /\ kids' = [kids EXCEPT ![p] = InsertAt(@, i + shift, n)]
  /\ chains' = chains \ {<<n>>}
  /\ UNCHANGED gone

\* The i-th child of p is taken out as a bare node: what was under it is gone.
TakeOut(p, i) ==
  LET n == kids[p][i] IN
  /\ p \notin gone
  /\ kids' = [x \in Nodes |->
                IF x = p THEN RemoveAt(kids[p], i)
                ELSE IF x = n \/ x \in Under(n) THEN <<>>
                ELSE kids[x]]
  /\ chains' = chains \cup {<<n>>}
  /\ gone' = gone \cup Under(n)

\* The only child of a temporary node moves to q; the temporary is gone.
HandOver(q, tmp) ==
  /\ q \notin gone
  /\ q # tmp /\ q \notin Under(tmp)
  /\ <<tmp>> \in chains
  /\ Len(kids[tmp]) = 1
  /\ kids' = [kids EXCEPT ![q] = @ \o kids[tmp], ![tmp] = <<>>]
  /\ chains' = chains \ {<<tmp>>}
  /\ gone' = gone \cup {tmp}

\* p gets a child of q, which has not been taken out of q's list.  What the lists are
\* from then on is not said.
Tear(p, q, n) ==
  /\ p # q
  /\ {p, q} \cap gone = {}
  /\ n \in ToSet(kids[q])
  /\ torn' = TRUE

Rearrange ==
  \/ \E p \in Nodes, c \in chains : Adopt(p, c)
  \/ \E c, d \in chains : Join(c, d)
  \/ \E p, n \in Nodes : \E i \in DOMAIN kids[p], shift \in {0, 1} :
       Place(p, n, i, shift)
  \/ \E p \in Nodes : \E i \in DOMAIN kids[p] : TakeOut(p, i)
  \/ \E q, tmp \in Nodes : HandOver(q, tmp)

ForestNext ==
  /\ ~torn
  /\ \/ Rearrange /\ UNCHANGED torn
     \/ \E p, q, n \in Nodes : Tear(p, q, n)

ForestSpec == ForestInit /\ [][ForestNext]_forestVars

\* How many times n stands in the sequence s.
Places(s, n) == {i \in DOMAIN s : s[i] = n}

\* A node callers own stands in exactly one place of the forest, unless it is torn;
\* a node that is gone stands in none.
EachNodeOnce ==
  ~torn => \A n \in Nodes :
    LET index    == 1 .. Cardinality(Nodes)
        inLists  == {q \in Nodes \X index : q[2] \in Places(kids[q[1]], n)}
        inChains == {q \in chains \X index : q[2] \in Places(q[1], n)}
    IN  Cardinality(inLists) + Cardinality(inChains) = IF n \in gone THEN 0 ELSE 1
=============================================================================
