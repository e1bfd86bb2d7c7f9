------------------------------ MODULE AstNode ------------------------------
(***************************************************************************)
(* azer/afx/compiler: TreeNodeDownUp (tree_node.h) and the part of ASTNode *)
(* (astnode.h, astnode.cc) that builds trees from the leaves up.  The      *)
(* grammar (afxlang.y) first assembles parentless sibling chains with      *)
(* AddSibling and hands each chain to its parent with AddChildren once the *)
(* parent exists.                                                          *)
(*                                                                         *)
(* Two of its rules attach a node that hangs in another list already, and  *)
(* nothing asserts that it does not: ShareAttributes and DeclareLocally.   *)
(* From there on two lists hold one node, and what is said here of the     *)
(* tree no longer holds; torn remembers it, and the model ends.            *)
(***************************************************************************)
EXTENDS TreeNode

VARIABLE torn   \* history: a node has been attached while it hung in a list

astVars == <<treeVars, torn>>

\* The head of a parentless chain of siblings a grammar rule holds.
ChainHead(n) ==
  /\ n \notin stale
  /\ parent[n] = Null
  /\ prev_sibling[n] = Null

\* Mutants of AddSibling: without the walk to the end of the chain; without the
\* DCHECK.
AddSiblingBehindFirst(this, sibling) ==
  /\ sibling # this
  /\ next_sibling' = [next_sibling EXCEPT ![this] = sibling]
  /\ prev_sibling' = [prev_sibling EXCEPT ![sibling] = this]
  /\ UNCHANGED <<parent, first_child, last_child, named, stale>>

AddSiblingUnchecked(this, sibling) ==
  /\ \E e \in Nodes :
       /\ Reaches(next_sibling, this, e)
       /\ next_sibling[e] = Null
       /\ next_sibling' = [next_sibling EXCEPT ![e] = sibling]
       /\ prev_sibling' = [prev_sibling EXCEPT ![sibling] = e]
  /\ UNCHANGED <<parent, first_child, last_child, named, stale>>

\* this->AddSibling(sibling): sibling goes behind the end of this's chain and
\* brings its own chain along.
AddSibling(this, sibling) ==
  /\ sibling # this
  /\ \E e \in Nodes :
       /\ Reaches(next_sibling, this, e)
       /\ next_sibling[e] = Null
       /\ next_sibling' = [next_sibling EXCEPT ![e] = sibling]
       /\ prev_sibling' = [prev_sibling EXCEPT ![sibling] = e]
  /\ UNCHANGED <<parent, first_child, last_child, named, stale>>

\* p->AddChildren(node): the chain that starts at node goes behind p's
\* children.  This is what the loop over AddChild leaves (AddChildrenLoop).
AddChildren(p, node) ==
  LET chain == {x \in Nodes : Reaches(next_sibling, node, x)} IN
  /\ parent' = [x \in Nodes |-> IF x \in chain THEN p ELSE parent[x]]
  /\ first_child' = [first_child EXCEPT ![p] = IF @ = Null THEN node ELSE @]
  /\ \E e \in chain :
       /\ next_sibling[e] = Null
       /\ last_child' = [last_child EXCEPT ![p] = e]
  /\ next_sibling' = [x \in Nodes |-> IF x = last_child[p] THEN node ELSE next_sibling[x]]
  /\ prev_sibling' = [prev_sibling EXCEPT ![node] = last_child[p]]
  /\ UNCHANGED <<named, stale>>

\* init->AddExpression(tmp->DetchExpression()), the rule for "{a, b}": the
\* expression is still tmp's child when init adds it.  tmp is not used again.
AppendExpression(init, tmp) ==
  LET e == first_child[tmp] IN
  /\ e # Null
  /\ next_sibling[e] = Null
  /\ parent' = [parent EXCEPT ![e] = init]
  /\ first_child' = [first_child EXCEPT ![init] = IF @ = Null THEN e ELSE @]
  /\ next_sibling' = [x \in Nodes |-> IF x = last_child[init] THEN e ELSE next_sibling[x]]
  /\ prev_sibling' = [prev_sibling EXCEPT ![e] = last_child[init]]
  /\ last_child' = [last_child EXCEPT ![init] = e]
  /\ stale' = stale \cup {tmp}
  /\ UNCHANGED named

----------------------------------------------------------------------------
\* The calls the grammar and the AST classes make.  The orderly ones attach what
\* hangs nowhere.

CanAddSibling(this, sibling) == ChainHead(this) /\ ChainHead(sibling)

CanAddChildren(p, node) ==
  /\ p \notin stale
  /\ ChainHead(node)
  /\ \A x \in Nodes : Reaches(next_sibling, node, x) => ~Reaches(parent, p, x)

CanAppendExpression(init, tmp) ==
  /\ init # tmp
  /\ ChainHead(init)
  /\ Loose(tmp)
  /\ first_child[tmp] = last_child[tmp]

Calls ==
  \/ TreeNext
  \/ \E this, sibling \in Nodes : CanAddSibling(this, sibling) /\ AddSibling(this, sibling)
  \/ \E p, node \in Nodes : CanAddChildren(p, node) /\ AddChildren(p, node)
  \/ \E init, tmp \in Nodes : CanAppendExpression(init, tmp) /\ AppendExpression(init, tmp)

\* "[x="y"] float a, b;" in a structure: the rule gives the one node of the
\* attributes to each field of the list.  The field before f has it already, as its
\* only child.
CanShareAttributes(f, attr) ==
  /\ {f, attr, prev_sibling[f], parent[attr]} \cap stale = {}
  /\ parent[attr] # Null
  /\ parent[attr] = prev_sibling[f]
  /\ parent[f] = Null
  /\ first_child[parent[attr]] = attr
  /\ last_child[parent[attr]] = attr
  /\ first_child[f] = Null

ShareAttributes(f, attr) ==
  /\ CanShareAttributes(f, attr)
  /\ AddChildren(f, attr)
  /\ torn' = TRUE

\* "struct S { ... };" among the statements of a function: struct_specifier has made
\* it the last child of the root (AddStructDecl), and then the statement, which is
\* not below the root yet, takes it as its first child.
CanDeclareLocally(st, s) ==
  /\ {st, s, parent[s]} \cap stale = {}
  /\ parent[s] # Null
  /\ parent[parent[s]] = Null
  /\ last_child[parent[s]] = s
  /\ first_child[st] = Null
  /\ ChainHead(st)
  /\ st # parent[s]

DeclareLocally(st, s) ==
  /\ CanDeclareLocally(st, s)
  /\ AddChildren(st, s)
  /\ torn' = TRUE

AstInit == TreeInit /\ torn = FALSE

AstNext ==
  /\ ~torn
  /\ \/ Calls /\ UNCHANGED torn
     \/ \E f, attr \in Nodes : ShareAttributes(f, attr)
     \/ \E st, s \in Nodes : DeclareLocally(st, s)

AstSpec == AstInit /\ [][AstNext]_astVars

----------------------------------------------------------------------------
\* The loop of ASTNode::AddChildren, on a copy of the links.

Links == [ parent |-> parent, first |-> first_child, last |-> last_child,
           next |-> next_sibling, prev |-> prev_sibling ]

\* AddChild as a function of the links.
LinkedUnder(p, n, L) ==
  [ parent |-> [L.parent EXCEPT ![n] = p],
    first  |-> [L.first EXCEPT ![p] = IF @ = Null THEN n ELSE @],
    last   |-> [L.last EXCEPT ![p] = n],
    next   |-> [x \in Nodes |-> IF x = L.last[p] THEN n ELSE L.next[x]],
    prev   |-> [L.prev EXCEPT ![n] = L.last[p]] ]

ResetSibling(n, L) == [L EXCEPT !.next[n] = Null, !.prev[n] = Null]

\* A mutant of Round, which is the loop of TreeNodeDownUp::AddChildren: it resets
\* a node before it asks the node for its next sibling.
RoundReadsLate(p, s) ==
  IF s.cur = Null THEN s
  ELSE LET done == LinkedUnder(p, s.cur, ResetSibling(s.cur, s.links))
       IN  [cur |-> done.next[s.cur], links |-> done]

\* A round of the loop of ASTNode::AddChildren: the next sibling is read first.
Round(p, s) ==
  IF s.cur = Null THEN s
  ELSE [ cur   |-> s.links.next[s.cur],
         links |-> LinkedUnder(p, s.cur, ResetSibling(s.cur, s.links)) ]

\* The node the loop has come to, and the links, after as many rounds as there
\* are nodes: a chain without a ring is no longer.
AddChildrenLoop(p, node) ==
  LET after[k \in 0 .. Cardinality(Nodes)] ==
        IF k = 0 THEN [cur |-> node, links |-> Links] ELSE Round(p, after[k - 1])
  IN  after[Cardinality(Nodes)]

----------------------------------------------------------------------------
\* What holds of the links as long as no attached node has been attached again.

LinksTyped ==
  /\ parent \in [Nodes -> Pointer]
  /\ first_child \in [Nodes -> Pointer]
  /\ last_child \in [Nodes -> Pointer]
  /\ next_sibling \in [Nodes -> Pointer]
  /\ prev_sibling \in [Nodes -> Pointer]
  /\ \A p \in Nodes : first_child[p] = Null <=> last_child[p] = Null
  /\ named \subseteq Nodes
  /\ stale \subseteq Nodes

LinkedBothWays ==
  \A x \in Nodes :
    /\ next_sibling[x] # Null =>
         /\ prev_sibling[next_sibling[x]] = x
         /\ parent[next_sibling[x]] = parent[x]
    /\ prev_sibling[x] # Null => next_sibling[prev_sibling[x]] = x

EndsMeet ==
  /\ \A p \in Nodes \ stale : first_child[p] # Null =>
       /\ parent[first_child[p]] = p
       /\ prev_sibling[first_child[p]] = Null
       /\ first_child[p] \notin stale
       /\ parent[last_child[p]] = p
       /\ next_sibling[last_child[p]] = Null
       /\ last_child[p] \notin stale
  /\ \A c \in Nodes \ stale : parent[c] # Null =>
       /\ parent[c] \notin stale
       /\ prev_sibling[c] = Null => first_child[parent[c]] = c
       /\ next_sibling[c] = Null => last_child[parent[c]] = c
  /\ \A x \in Nodes : next_sibling[x] # Null =>
       (x \in stale <=> next_sibling[x] \in stale)

NoCycle(link) == \A S \in (SUBSET Nodes) \ {{}} : \E x \in S : link[x] \notin S

NoRings == NoCycle(parent) /\ NoCycle(next_sibling) /\ NoCycle(prev_sibling)

----------------------------------------------------------------------------
\* Properties.  "Unless torn": in every run in which no attached node has been
\* attached again, whatever calls have built the tree.

\* The links point to nodes or nowhere; a child list has both ends or none.
TypeOK == torn \in BOOLEAN /\ LinksTyped

\* next_sibling_ and prev_sibling_ are each other's inverse, and siblings have
\* one parent, unless torn: no operation leaves a neighbour that still points at a
\* node that has gone elsewhere.
SiblingLinks == ~torn => LinkedBothWays

\* The two ways of asking for the children of a node agree, unless torn: a loop
\* from first_child() along next_sibling() visits exactly the nodes whose
\* parent() is that node.  Code generators and validators walk down, symbol
\* lookup walks up.
ChildListsAgree ==
  ~torn => \A p \in Nodes \ stale : Listed(p) = {c \in Nodes \ stale : parent[c] = p}

\* No node is its own ancestor and no sibling list is a ring, in either
\* direction, unless torn: find(), traverse() and the upward loops of the
\* compiler end.
Acyclic == ~torn => NoRings

\* first_child_ and last_child_ are the two ends of the list, seen from the
\* parent and seen from the child, unless torn; and what is left behind stays
\* apart: no live node lists it or hangs below it.  The DCHECKs inside AddChild
\* and RemoveChild follow.
ListEnds == ~torn => EndsMeet

\* traverse() asserts of every child it steps to that its parent() is the node
\* the loop runs over.  It does so of every tree the grammar builds.
TraverseAssertion ==
  \A p \in Nodes \ stale : \A c \in Listed(p) : parent[c] = p

\* traverse() calls OnVisitBegin exactly once for the root and for every node
\* from which parent() leads to it, and for no other, unless torn.
TraversalExact ==
  ~torn => \A r \in Nodes \ stale :
    LET order == Traverse(r) IN
    /\ IsInjective(order)
    /\ ToSet(order) = {x \in Nodes \ stale : Reaches(parent, x, r)}

\* Unless torn, a node is found by its name from exactly its ancestors and itself,
\* until it is removed once: RemoveChild clears the name, so the node is not found
\* any more after it has been put back.
FindByName ==
  ~torn => \A r, x \in Nodes \ stale :
    Find(r, x) = x <=> x \in named /\ Reaches(parent, x, r)

\* Handing a whole chain to a parent has the effect of the code's loop, which
\* takes the chain apart while it walks along it, and the loop ends.
AddChildrenIsItsLoop ==
  [][ \A p, node \in Nodes :
        CanAddChildren(p, node) /\ AddChildren(p, node)
          => AddChildrenLoop(p, node) = [cur |-> Null, links |-> Links'] ]_astVars

\* The links implement an ordered forest, until a call tears it: every orderly call
\* is one rearrangement of lists, and the two that are not orderly are exactly
\* those that give a child away without taking it out.
Forest == INSTANCE OrderedForest WITH
  kids   <- [p \in Nodes |-> IF p \in stale THEN <<>> ELSE Chain(first_child[p])],
  chains <- {Chain(h) : h \in {n \in Nodes : ChainHead(n)}},
  gone   <- stale,
  torn   <- torn

ImplementsForest == Forest!ForestSpec

\* Every node a caller owns is in one place of the forest, unless torn.
EachNodeOnce == Forest!EachNodeOnce
=============================================================================
