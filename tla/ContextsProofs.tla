---------------------------- MODULE ContextsProofs ----------------------------
(***************************************************************************)
(* What a name means, for any files, packages and names: the tables stay   *)
(* right (TypeCorrect), the tokenizer's answers keep the package that was  *)
(* written and are never overtaken by a later declaration, no name is      *)
(* declared twice on a path of includes, and the validator finds the       *)
(* declaration that the tokenizer has met, under the conditions of         *)
(* MeansDeclarationUnmixed.                                                *)
(*                                                                         *)
(* The work is in the walks.  PlacesFromDep and Preorder are recursive     *)
(* over a tree whose nodes are numbered from the leaves up; their          *)
(* equations follow by taking the least number at which they would fail.   *)
(* Both are then seen only through what they meet first in a set of files  *)
(* (Leads), for any such set: the walk of LookupSymbolType in a package    *)
(* meets what the depth-first walk of LookupType meets in it               *)
(* (WalkIsPreorder).  The invariant, ContextsInv, says that what has been  *)
(* met would be met again.                                                 *)
(***************************************************************************)
EXTENDS Contexts, NaturalsInduction, WellFoundedInduction, SequenceTheorems, TLAPS

\* What the contexts are while a Load parses them.
Shape ==
  /\ up \in [Contexts -> Contexts \cup {Nowhere}]
  /\ up[N] = Nowhere /\ \A c \in Contexts \ {N} : up[c] > c
  /\ package \in [Contexts -> Qualifiers]
  /\ \A c \in Contexts \ {N} : package[c] # Global

Spots == [at : Contexts, as : Qualifiers]

\* The parts of PlacesFromDep, for any function f in its own place.
OwnPlace(c, p) == IF package[c] = p THEN <<[at |-> c, as |-> p]>> ELSE <<>>

PlacesBelow(f, c, p, d) ==
  (IF package[d] = p
   THEN Under(p, <<[at |-> d, as |-> p]>> \o f[d][Global]) ELSE <<>>)
    \o (IF p # Global THEN Under(p, f[d][p])
                      ELSE Under(package[d], f[d][package[c]]))

Loop(f, c, p) == [d \in Contexts |-> IF up[d] = c THEN PlacesBelow(f, c, p, d) ELSE <<>>]

PlacesOf(f, c, p) == OwnPlace(c, p) \o FlattenSeq(Loop(f, c, p))

\* No element of the sequence s is in H; x is the first that is.
Misses(s, H) == \A i \in DOMAIN s : s[i] \notin H

Leads(s, H, x) ==
  /\ x \in H
  /\ \E i \in DOMAIN s : s[i] = x /\ \A j \in DOMAIN s : j < i => s[j] \notin H

Of(p) == {c \in Contexts : package[c] = p}
In(A) == {x \in Spots : x.at \in A}

\* Preorder, as a loop.
Subtrees(c) == [d \in Contexts |-> IF up[d] = c THEN Preorder[d] ELSE <<>>]

\* s is what the loop over the children of c puts together from the parts t.
IsLoop(s, c, t, X) ==
  /\ \A d \in Contexts : up[d] = c => t[d] \in Seq(X)
  /\ s = [d \in Contexts |-> s[d]]
  /\ \A d \in Contexts : s[d] = IF up[d] = c THEN t[d] ELSE <<>>

\* The walk from c in the package p meets what Preorder meets first in that package.
Agrees(c, p, A) ==
  \A x : Leads(PlacesFromDep[c][p], In(A), x) <=>
           x \in Spots /\ x.as = p /\ Leads(Preorder[c], A \cap Of(p), x.at)

\* x is what the walk in the package p meets first below the children of c.
WalkBelow(c, p, A, x) ==
  \E k \in Contexts :
    /\ up[k] = c
    /\ Leads(PlacesBelow(PlacesFromDep, c, p, k), In(A), x)
    /\ \A j \in Contexts :
         up[j] = c /\ j < k => Misses(PlacesBelow(PlacesFromDep, c, p, j), In(A))

\* x is what the walk without a package meets first below the children of c.
MetBelow(c, A, x) ==
  \E k \in Contexts :
    /\ up[k] = c
    /\ \E y \in Spots : /\ Leads(PlacesFromDep[k][package[c]], In(A), y)
                        /\ x = [at |-> y.at, as |-> package[k]]
    /\ \A j \in Contexts :
         up[j] = c /\ j < k => Misses(PlacesFromDep[j][package[c]], In(A))

\* The places of the sequence s at which there is an element of H.
Hits(s, H) == {i \in DOMAIN s : s[i] \in H}

\* Met, where the name is known in the files A.
MetBy(c, p, A) ==
  LET s == Places(c, p)
      hits == Hits(s, In(A))
  IN  IF hits = {} THEN [at |-> Nowhere, as |-> Global] ELSE s[Min(hits)]

\* The files in which the name n is known.
Knows(n) == {d \in Contexts : symbol_type[d][n] # "unknown"}

\* The place m lies below a child of c, and has the package of that child.
CameBy(c, m) == \E k \in Contexts : up[k] = c /\ m.at \in Below(k) /\ m.as = package[k]

\* a is what Preorder meets first below the children of c.
FirstBelow(c, H, a) ==
  \E k \in Contexts :
    /\ up[k] = c /\ Leads(Preorder[k], H, a)
    /\ \A j \in Contexts : up[j] = c /\ j < k => Misses(Preorder[j], H)

\* What a Load knows of a use.
Use == [sort : Signatures \cup {"type"}, by : Contexts, prefix : Qualifiers, name : Names,
        met : Contexts \cup {Nowhere}, full : Qualifiers, decl : Contexts \cup {Nowhere}]

\* TypeOK without its premise: in the file that is refused only the tables of
\* declarations have gone astray.
Tables ==
  /\ symbol_type \in [Contexts -> [Names -> {"unknown", "struct", "function"}]]
  /\ struct_decl \in [Contexts -> SUBSET Names]
  /\ functions \in [Contexts -> SUBSET (Names \X Signatures)]
  /\ now \in 1 .. N + 1 /\ read \in Nat /\ failed \in BOOLEAN
  /\ \A c \in Contexts : ~failed \/ c # now =>
       struct_decl[c] = {n \in Names : symbol_type[c][n] = "struct"}
  /\ ~failed => \A c \in Contexts : \A f \in functions[c] : symbol_type[c][f[1]] = "function"
  /\ \A c \in Contexts : c > now => \A n \in Names : symbol_type[c][n] = "unknown"

\* u would be answered now as it was, and a type has been found to be a structure.
Stands(u) ==
  u.met # Nowhere =>
    /\ Met(u.by, u.prefix, u.name).at = u.met
    /\ u.sort = "type" \/ u.prefix # Global => Met(u.by, u.prefix, u.name).as = u.full

IsStruct(u) ==
  u.sort = "type" => u.met \in Contexts /\ symbol_type[u.met][u.name] = "struct"

Answers ==
  /\ uses \in SUBSET Use /\ resolved \in SUBSET Use
  /\ \A u \in uses : u.by = now
  /\ \A u \in resolved : u.by < now
  /\ \A u \in uses \cup resolved : Stands(u)
  /\ \A u \in Uses : IsStruct(u)

ContextsInv == Shape /\ Tables /\ Answers /\ NoRedeclaration

\* What a step does to symbol_type: no name is registered that the file could see.
Effect ==
  \/ UNCHANGED symbol_type
  \/ \E n \in Names, t \in {"struct", "function"} :
       Met(now, Global, n).at = Nowhere /\ Registers(n, t)

----------------------------------------------------------------------------
\* Induction on the numbers: every set of them has a least.
LEMMA Least ==
  ASSUME NEW T \in SUBSET Nat, T # {}
  PROVE  \E m \in T : \A n \in T : m <= n
<1>1. IsWellFoundedOn(OpToRel(<, Nat), Nat)
  BY NatLessThanWellFounded
<1>2. PICK m \in T : \A n \in T : ~(<<n, m>> \in OpToRel(<, Nat))
  BY <1>1, WFMin
<1>3. ASSUME NEW n \in T PROVE m <= n
  <2>1. m \in Nat /\ n \in Nat
    OBVIOUS
  <2>2. ~(n < m)
    BY <1>2, <2>1 DEF OpToRel
  <2>3. QED BY <2>1, <2>2
<1>4. QED BY <1>3

\* The walk from c uses those of the children only, which have lower numbers.
LEMMA LoopLocal ==
  ASSUME Shape, NEW f, NEW g, NEW c \in Contexts, NEW p \in Qualifiers,
         \A d \in Contexts, q \in Qualifiers : d < c => f[d][q] = g[d][q]
  PROVE  PlacesOf(f, c, p) = PlacesOf(g, c, p)
<1>1. ASSUME NEW d \in Contexts, up[d] = c
      PROVE  PlacesBelow(f, c, p, d) = PlacesBelow(g, c, p, d)
  <2>1. d < c
    BY <1>1, SomeFile DEF Shape, Contexts, Nowhere
  <2>2. package[c] \in Qualifiers /\ Global \in Qualifiers
    BY DEF Shape, Qualifiers
  <2>3. f[d][Global] = g[d][Global] /\ f[d][p] = g[d][p] /\ f[d][package[c]] = g[d][package[c]]
    BY <2>1, <2>2
  <2>4. QED BY <2>3 DEF PlacesBelow
<1>2. Loop(f, c, p) = Loop(g, c, p)
  BY <1>1 DEF Loop
<1>3. QED BY <1>2 DEF PlacesOf

\* PlacesFromDep satisfies its equation.
LEMMA PlacesUnfold ==
  ASSUME Shape
  PROVE  \A c \in Contexts, p \in Qualifiers :
           PlacesFromDep[c][p] = PlacesOf(PlacesFromDep, c, p)
<1> DEFINE Right(f, n) ==
             \A c \in Contexts, p \in Qualifiers : c <= n => f[c][p] = PlacesOf(f, c, p)
           Done(n) == \E f : Right(f, n)
           T == {n \in 0 .. N : ~Done(n)}
<1>1. \E f : Right(f, N)
  <2>1. SUFFICES ASSUME T # {} PROVE FALSE
    <3> HIDE DEF Done
    <3>1. T = {} => Done(N)
      BY SomeFile
    <3>2. QED BY <3>1 DEF Done
  <2>2. T \in SUBSET Nat
    BY SomeFile
  <2>3. PICK m \in T : \A n \in T : m <= n
    BY <2>1, <2>2, Least
  <2>4. Right([c \in Contexts |-> <<>>], 0)
    BY DEF Contexts
  <2>5. m - 1 \in 0 .. N /\ m \in Contexts
    BY <2>3, <2>4, SomeFile DEF Contexts
  <2>6. PICK f : Right(f, m - 1)
    <3>1. Done(m - 1)
      <4> HIDE DEF Done
      <4>1. m - 1 \notin T
        <5> HIDE DEF T
        <5>1. QED BY <2>2, <2>3, <2>5, SomeFile
      <4>2. QED BY <2>5, <4>1
    <3>2. QED BY <3>1
  <2> DEFINE g == [c \in Contexts |-> [p \in Qualifiers |->
                     IF c = m THEN PlacesOf(f, m, p) ELSE f[c][p]]]
  <2>7. \A c \in Contexts, p \in Qualifiers :
          g[c][p] = IF c = m THEN PlacesOf(f, m, p) ELSE f[c][p]
    OBVIOUS
  <2> HIDE DEF g
  <2>8. ASSUME NEW c \in Contexts, NEW p \in Qualifiers, c <= m
        PROVE  g[c][p] = PlacesOf(g, c, p)
    <3>1. \A d \in Contexts, q \in Qualifiers : d < c => g[d][q] = f[d][q]
      BY <2>5, <2>7, <2>8, SomeFile DEF Contexts
    <3>2. PlacesOf(g, c, p) = PlacesOf(f, c, p)
      BY <3>1, LoopLocal
    <3>3. c # m => f[c][p] = PlacesOf(f, c, p)
      BY <2>5, <2>6, <2>8, SomeFile DEF Contexts
    <3>4. QED BY <2>7, <3>2, <3>3
  <2>9. Right(g, m)
    BY <2>8
  <2>10. QED BY <2>9
<1>2. PICK f : Right(f, N)
  BY <1>1
<1> DEFINE h == [c \in Contexts |-> [p \in Qualifiers |-> f[c][p]]]
           Good(g) == g = [c \in Contexts |-> [p \in Qualifiers |-> PlacesOf(g, c, p)]]
<1>3. \A c \in Contexts, p \in Qualifiers : h[c][p] = f[c][p]
  OBVIOUS
<1>4. ASSUME NEW c \in Contexts, NEW p \in Qualifiers PROVE f[c][p] = PlacesOf(h, c, p)
  <2> HIDE DEF h
  <2>1. PlacesOf(h, c, p) = PlacesOf(f, c, p)
    BY <1>3, LoopLocal
  <2>2. c <= N
    BY SomeFile DEF Contexts
  <2>3. QED BY <1>2, <2>1, <2>2
<1>5. Good(h)
  BY <1>4
<1>6. Good(CHOOSE g : Good(g))
  BY <1>5
<1>7. PlacesFromDep = CHOOSE g : Good(g)
  BY DEF PlacesFromDep, PlacesOf, OwnPlace, Loop, PlacesBelow
<1>8. Good(PlacesFromDep)
  BY <1>6, <1>7
<1>9. QED BY <1>8

----------------------------------------------------------------------------
\* Sequences.

\* A concatenation: its elements, and what is met first in it.
LEMMA Joined ==
  ASSUME NEW X, NEW s \in Seq(X), NEW t \in Seq(X), NEW H, NEW x
  PROVE  /\ s \o t \in Seq(X)
         /\ ToSet(s \o t) = ToSet(s) \cup ToSet(t)
         /\ Misses(s \o t, H) <=> Misses(s, H) /\ Misses(t, H)
         /\ Leads(s \o t, H, x) <=> Leads(s, H, x) \/ (Misses(s, H) /\ Leads(t, H, x))
<1> DEFINE m == Len(s)
           n == Len(t)
           r == s \o t
<1>1. /\ r \in Seq(X) /\ Len(r) = m + n /\ m \in Nat /\ n \in Nat
      /\ \A i \in 1 .. m + n : r[i] = IF i <= m THEN s[i] ELSE t[i - m]
      /\ DOMAIN r = 1 .. m + n /\ DOMAIN s = 1 .. m /\ DOMAIN t = 1 .. n
  BY ConcatProperties
<1> HIDE DEF m, n, r
<1>2. \A i \in 1 .. m : i \in 1 .. m + n /\ r[i] = s[i]
  BY <1>1
<1>3. \A i \in 1 .. n : i + m \in 1 .. m + n /\ r[i + m] = t[i]
  BY <1>1
<1>4. \A i \in 1 .. m + n : i \in 1 .. m \/ (i - m \in 1 .. n /\ r[i] = t[i - m] /\ i > m)
  BY <1>1
<1>5. ToSet(r) = ToSet(s) \cup ToSet(t)
  <2>1. \A i \in 1 .. m + n : r[i] \in ToSet(r)
    BY <1>1 DEF ToSet
  <2>2. ASSUME NEW i \in 1 .. m PROVE s[i] \in ToSet(r)
    BY <1>2, <2>1
  <2>3. ASSUME NEW i \in 1 .. n PROVE t[i] \in ToSet(r)
    BY <1>3, <2>1
  <2>4. ASSUME NEW i \in 1 .. m + n PROVE r[i] \in ToSet(s) \cup ToSet(t)
    <3>1. CASE i \in 1 .. m
      BY <1>1, <1>2, <3>1 DEF ToSet
    <3>2. CASE i - m \in 1 .. n /\ r[i] = t[i - m]
      BY <1>1, <3>2 DEF ToSet
    <3>3. QED BY <1>4, <3>1, <3>2
  <2>5. QED BY <1>1, <2>2, <2>3, <2>4 DEF ToSet
<1>6. Misses(r, H) <=> Misses(s, H) /\ Misses(t, H)
  <2>1. Misses(r, H) => Misses(s, H)
    BY <1>1, <1>2 DEF Misses
  <2>2. Misses(r, H) => Misses(t, H)
    BY <1>1, <1>3 DEF Misses
  <2>3. ASSUME Misses(s, H), Misses(t, H), NEW i \in 1 .. m + n PROVE r[i] \notin H
    BY <1>1, <1>2, <1>4, <2>3 DEF Misses
  <2>4. Misses(s, H) /\ Misses(t, H) => Misses(r, H)
    <3>1. DOMAIN r = 1 .. m + n
      BY <1>1
    <3>2. QED BY <2>3, <3>1 DEF Misses
  <2>5. QED BY <2>1, <2>2, <2>4
<1>7. Leads(s, H, x) => Leads(r, H, x)
  <2>1. SUFFICES ASSUME Leads(s, H, x) PROVE Leads(r, H, x)
    OBVIOUS
  <2>2. PICK i \in 1 .. m : s[i] = x /\ \A j \in 1 .. m : j < i => s[j] \notin H
    BY <1>1, <2>1 DEF Leads
  <2>3. i \in 1 .. m + n /\ r[i] = x
    BY <1>2, <2>2
  <2>4. ASSUME NEW j \in 1 .. m + n, j < i PROVE r[j] \notin H
    <3>1. j \in 1 .. m
      BY <1>1, <2>2, <2>4
    <3>2. QED BY <1>2, <2>2, <2>4, <3>1
  <2>5. x \in H
    BY <2>1 DEF Leads
  <2>6. DOMAIN r = 1 .. m + n
    BY <1>1
  <2>7. QED BY <2>3, <2>4, <2>5, <2>6 DEF Leads
<1>8. Misses(s, H) /\ Leads(t, H, x) => Leads(r, H, x)
  <2>1. SUFFICES ASSUME Misses(s, H), Leads(t, H, x) PROVE Leads(r, H, x)
    OBVIOUS
  <2>2. PICK i \in 1 .. n : t[i] = x /\ \A j \in 1 .. n : j < i => t[j] \notin H
    BY <1>1, <2>1 DEF Leads
  <2>3. ASSUME NEW j \in 1 .. m + n, j < i + m PROVE r[j] \notin H
    <3>1. CASE j \in 1 .. m
      BY <1>1, <1>2, <2>1, <3>1 DEF Misses
    <3>2. CASE j - m \in 1 .. n /\ r[j] = t[j - m]
      <4>1. j - m < i
        BY <1>1, <2>3
      <4>2. QED BY <2>2, <3>2, <4>1
    <3>3. QED BY <1>4, <3>1, <3>2
  <2>4. QED BY <1>1, <1>3, <2>1, <2>2, <2>3 DEF Leads
<1>9. Leads(r, H, x) => Leads(s, H, x) \/ (Misses(s, H) /\ Leads(t, H, x))
  <2>1. SUFFICES ASSUME Leads(r, H, x)
                 PROVE  Leads(s, H, x) \/ (Misses(s, H) /\ Leads(t, H, x))
    OBVIOUS
  <2>2. PICK i \in 1 .. m + n : r[i] = x /\ \A j \in 1 .. m + n : j < i => r[j] \notin H
    BY <1>1, <2>1 DEF Leads
  <2>3. CASE i \in 1 .. m
    BY <1>1, <1>2, <2>1, <2>2, <2>3 DEF Leads
  <2>4. CASE i - m \in 1 .. n /\ r[i] = t[i - m] /\ i > m
    <3>1. Misses(s, H)
      BY <1>1, <1>2, <2>2, <2>4 DEF Misses
    <3>2. ASSUME NEW j \in 1 .. n, j < i - m PROVE t[j] \notin H
      <4>1. j + m < i
        BY <1>1, <3>2
      <4>2. QED BY <1>3, <2>2, <4>1
    <3>3. QED BY <1>1, <2>1, <2>2, <2>4, <3>1, <3>2 DEF Leads
  <2>5. QED BY <1>4, <2>2, <2>3, <2>4
<1>10. QED BY <1>1, <1>5, <1>6, <1>7, <1>8, <1>9 DEF r

\* The elements of a concatenation.
LEMMA JoinedSet ==
  ASSUME NEW X, NEW s \in Seq(X), NEW t \in Seq(X)
  PROVE  s \o t \in Seq(X) /\ ToSet(s \o t) = ToSet(s) \cup ToSet(t)
<1>1. /\ s \o t \in Seq(X)
      /\ ToSet(s \o t) = ToSet(s) \cup ToSet(t)
      /\ Leads(s \o t, {}, s) <=> Leads(s, {}, s) \/ (Misses(s, {}) /\ Leads(t, {}, s))
  BY Joined
<1>2. QED BY <1>1

\* What is met first is one element of the sequence.
LEMMA LeadsOnce ==
  ASSUME NEW X, NEW s \in Seq(X), NEW H, NEW x, NEW y, Leads(s, H, x), Leads(s, H, y)
  PROVE  x = y /\ x \in X /\ x \in ToSet(s) /\ x \in H
<1>1. DOMAIN s = 1 .. Len(s) /\ Len(s) \in Nat /\ \A i \in 1 .. Len(s) : s[i] \in X
  BY ElementOfSeq, LenProperties
<1>2. PICK i \in 1 .. Len(s) : s[i] = x /\ \A j \in 1 .. Len(s) : j < i => s[j] \notin H
  BY <1>1 DEF Leads
<1>3. PICK k \in 1 .. Len(s) : s[k] = y /\ \A j \in 1 .. Len(s) : j < k => s[j] \notin H
  BY <1>1 DEF Leads
<1>4. x \in H /\ y \in H
  BY DEF Leads
<1>5. i = k
  BY <1>1, <1>2, <1>3, <1>4
<1>6. QED BY <1>1, <1>2, <1>3, <1>4, <1>5 DEF ToSet

\* Something is met first unless nothing is met.
LEMMA MissesOrLeads ==
  ASSUME NEW X, NEW s \in Seq(X), NEW H
  PROVE  /\ Misses(s, H) <=> ToSet(s) \cap H = {}
         /\ Misses(s, H) \/ \E x \in X : Leads(s, H, x)
         /\ \A x : Leads(s, H, x) => ~Misses(s, H)
<1>1. DOMAIN s = 1 .. Len(s) /\ Len(s) \in Nat /\ \A i \in 1 .. Len(s) : s[i] \in X
  BY ElementOfSeq, LenProperties
<1>2. Misses(s, H) <=> ToSet(s) \cap H = {}
  BY DEF Misses, ToSet
<1>3. \A x : Leads(s, H, x) => ~Misses(s, H)
  BY DEF Misses, Leads
<1> DEFINE T == {i \in 1 .. Len(s) : s[i] \in H}
<1>4. ASSUME ~Misses(s, H) PROVE \E x \in X : Leads(s, H, x)
  <2>1. T # {} /\ T \in SUBSET Nat
    BY <1>1, <1>4 DEF Misses
  <2>2. PICK i \in T : \A j \in T : i <= j
    BY <2>1, Least
  <2>3. \A j \in DOMAIN s : j < i => s[j] \notin H
    BY <1>1, <2>2
  <2>4. QED BY <1>1, <2>2, <2>3 DEF Leads
<1>5. QED BY <1>2, <1>3, <1>4

\* What is first in a concatenation is first in the first part that has any.
LEMMA Flattened ==
  ASSUME NEW X, NEW n \in Nat \ {0}, NEW s \in [1 .. n -> Seq(X)], NEW H, NEW x
  PROVE  /\ FlattenSeq(s) \in Seq(X)
         /\ ToSet(FlattenSeq(s)) = UNION {ToSet(s[i]) : i \in 1 .. n}
         /\ Misses(FlattenSeq(s), H) <=> \A i \in 1 .. n : Misses(s[i], H)
         /\ Leads(FlattenSeq(s), H, x) <=>
              \E k \in 1 .. n : Leads(s[k], H, x) /\ \A j \in 1 .. k - 1 : Misses(s[j], H)
<1>1. s \in Seq(Seq(X)) /\ Len(s) = n
  OBVIOUS
<1> DEFINE Good(g) == g = [i \in 1 .. n |-> IF i = 1 THEN s[i] ELSE g[i - 1] \o s[i]]
           Right(g, m) ==
             \A i \in 1 .. n : i <= m => g[i] = IF i = 1 THEN s[i] ELSE g[i - 1] \o s[i]
           Done(m) == \E g : Right(g, m)
           T == {m \in 0 .. n : ~Done(m)}
<1>2. Done(n)
  <2>1. SUFFICES ASSUME T # {} PROVE FALSE
    <3> HIDE DEF Done
    <3>1. QED OBVIOUS
  <2>2. T \in SUBSET Nat
    OBVIOUS
  <2>3. PICK m \in T : \A k \in T : m <= k
    BY <2>1, <2>2, Least
  <2>4. Right(<<>>, 0)
    OBVIOUS
  <2>5. m - 1 \in 0 .. n /\ m \in 1 .. n
    BY <2>3, <2>4
  <2>6. PICK g : Right(g, m - 1)
    <3>1. Done(m - 1)
      <4> HIDE DEF Done
      <4>1. m - 1 \notin T
        <5> HIDE DEF T
        <5>1. QED BY <2>2, <2>3, <2>5
      <4>2. QED BY <2>5, <4>1
    <3>2. QED BY <3>1
  <2> DEFINE h == [i \in 1 .. n |->
                     IF i = m THEN (IF i = 1 THEN s[i] ELSE g[i - 1] \o s[i]) ELSE g[i]]
  <2>7. Right(h, m)
    <3>1. \A i \in 1 .. n : h[i] = IF i = m THEN (IF i = 1 THEN s[i] ELSE g[i - 1] \o s[i])
                                           ELSE g[i]
      OBVIOUS
    <3> HIDE DEF h
    <3>2. ASSUME NEW i \in 1 .. n, i <= m PROVE h[i] = IF i = 1 THEN s[i] ELSE h[i - 1] \o s[i]
      <4>1. i # 1 => i - 1 \in 1 .. n /\ i - 1 # m /\ h[i - 1] = g[i - 1]
        BY <2>5, <3>1, <3>2
      <4>2. i # m => g[i] = IF i = 1 THEN s[i] ELSE g[i - 1] \o s[i]
        <5>1. i # m => i <= m - 1
          BY <2>5, <3>2
        <5>2. QED BY <2>6, <5>1
      <4>3. CASE i = m
        BY <3>1, <4>1, <4>3
      <4>4. CASE i # m
        BY <3>1, <4>1, <4>2, <4>4
      <4>5. QED BY <4>3, <4>4
    <3>3. QED BY <3>2
  <2>8. QED BY <2>7
<1>3. \E g : Good(g)
  <2>1. PICK g : Right(g, n)
    BY <1>2
  <2> DEFINE h == [i \in 1 .. n |-> g[i]]
  <2>2. \A i \in 1 .. n : h[i] = IF i = 1 THEN s[i] ELSE h[i - 1] \o s[i]
    BY <2>1
  <2>3. Good(h)
    <3>1. \A i \in 1 .. n : g[i] = IF i = 1 THEN s[i] ELSE h[i - 1] \o s[i]
      BY <2>2
    <3>2. QED BY <3>1
  <2>4. QED BY <2>3
<1> DEFINE f == CHOOSE g : Good(g)
<1>4. FlattenSeq(s) = f[n] /\ Good(f)
  <2>1. Good(f)
    BY <1>3
  <2>2. FlattenSeq(s) = f[n]
    BY <1>1 DEF FlattenSeq
  <2>3. QED BY <2>1, <2>2
<1>5. \A i \in 1 .. n : f[i] = IF i = 1 THEN s[i] ELSE f[i - 1] \o s[i]
  <2> HIDE DEF f
  <2>1. QED BY <1>4
<1> HIDE DEF f, Good, Right, Done, T
<1> DEFINE Flat(i) ==
             /\ f[i] \in Seq(X)
             /\ ToSet(f[i]) = UNION {ToSet(s[j]) : j \in 1 .. i}
             /\ Misses(f[i], H) <=> \A j \in 1 .. i : Misses(s[j], H)
             /\ Leads(f[i], H, x) <=>
                  \E k \in 1 .. i : Leads(s[k], H, x) /\ \A j \in 1 .. k - 1 : Misses(s[j], H)
           U == {i \in 1 .. n : ~Flat(i)}
<1>6. U = {}
  <2>1. SUFFICES ASSUME U # {} PROVE FALSE
    OBVIOUS
  <2>2. U \in SUBSET Nat
    OBVIOUS
  <2>3. PICK m \in U : \A i \in U : m <= i
    BY <2>1, <2>2, Least
  <2>4. m # 1
    <3>1. f[1] = s[1] /\ 1 .. 1 = {1} /\ 1 .. 1 - 1 = {} /\ 1 \in 1 .. n
      BY <1>5
    <3>2. Flat(1)
      BY <3>1
    <3>3. QED BY <3>2
  <2>5. /\ m - 1 \in 1 .. n /\ m \in 1 .. n /\ 1 .. m = (1 .. m - 1) \cup {m}
        /\ f[m] = f[m - 1] \o s[m]
    <3>1. m \in 1 .. n
      OBVIOUS
    <3> HIDE DEF U
    <3>2. m - 1 \in 1 .. n /\ 1 .. m = (1 .. m - 1) \cup {m}
      BY <2>4, <3>1
    <3>3. QED BY <1>5, <2>4, <3>1, <3>2
  <2>6. Flat(m - 1)
    <3>1. m - 1 \notin U
      <4> HIDE DEF U
      <4>1. QED BY <2>2, <2>3, <2>5
    <3>2. QED BY <2>5, <3>1
  <2>7. /\ f[m] \in Seq(X)
        /\ ToSet(f[m]) = ToSet(f[m - 1]) \cup ToSet(s[m])
        /\ Misses(f[m], H) <=> Misses(f[m - 1], H) /\ Misses(s[m], H)
        /\ Leads(f[m], H, x) <=> Leads(f[m - 1], H, x) \/ (Misses(f[m - 1], H) /\ Leads(s[m], H, x))
    BY <2>5, <2>6, Joined
  <2>8. Flat(m)
    BY <2>5, <2>6, <2>7
  <2>9. QED BY <2>8
<1>7. Flat(n)
  <2> HIDE DEF Flat
  <2>1. QED BY <1>6
<1>8. QED BY <1>4, <1>7

----------------------------------------------------------------------------
\* The places of a name, and their order.

\* The numbers and packages of the contexts.
LEMMA ShapeFacts ==
  ASSUME Shape
  PROVE  /\ \A c \in Contexts : c \in Nat \ {0} /\ package[c] \in Qualifiers /\ c <= N
         /\ \A c, d \in Contexts : up[d] = c => d < c /\ package[d] # Global
         /\ N \in Contexts /\ Global \in Qualifiers
         /\ \A c \in Contexts, p \in Qualifiers : [at |-> c, as |-> p] \in Spots
BY SomeFile DEF Shape, Contexts, Nowhere, Qualifiers, Spots

\* Under changes the package of the places, and not what is met.
LEMMA UnderSpots ==
  ASSUME NEW s \in Seq(Spots), NEW p \in Qualifiers, NEW A, NEW x
  PROVE  /\ Under(p, s) \in Seq(Spots)
         /\ \A i \in DOMAIN Under(p, s) : Under(p, s)[i].as = p
         /\ Misses(Under(p, s), In(A)) <=> Misses(s, In(A))
         /\ Leads(Under(p, s), In(A), x) <=>
              \E y \in Spots : Leads(s, In(A), y) /\ x = [at |-> y.at, as |-> p]
<1> DEFINE t == Under(p, s)
           n == Len(s)
<1>1. n \in Nat /\ DOMAIN s = 1 .. n /\ \A i \in 1 .. n : s[i] \in Spots
  BY ElementOfSeq, LenProperties
<1>2. DOMAIN t = 1 .. n /\ \A i \in 1 .. n : t[i] = [s[i] EXCEPT !.as = p]
  BY <1>1 DEF Under
<1>3. \A i \in 1 .. n : t[i] \in Spots /\ t[i].at = s[i].at /\ t[i].as = p
                        /\ t[i] = [at |-> s[i].at, as |-> p]
  BY <1>1, <1>2 DEF Spots
<1>4. t = [i \in 1 .. n |-> [s[i] EXCEPT !.as = p]]
  BY <1>1 DEF Under
<1> HIDE DEF t, n
<1>5. t \in Seq(Spots)
  <2>1. \A i \in 1 .. n : [s[i] EXCEPT !.as = p] \in Spots
    BY <1>2, <1>3
  <2>2. t \in [1 .. n -> Spots]
    BY <1>4, <2>1
  <2>3. QED BY <1>1, <2>2
<1>6. \A i \in 1 .. n : t[i] \in In(A) <=> s[i] \in In(A)
  BY <1>1, <1>3 DEF In
<1>7. Misses(t, In(A)) <=> Misses(s, In(A))
  BY <1>1, <1>2, <1>6 DEF Misses
<1>8. ASSUME Leads(t, In(A), x)
      PROVE  \E y \in Spots : Leads(s, In(A), y) /\ x = [at |-> y.at, as |-> p]
  <2>1. PICK i \in 1 .. n : t[i] = x /\ \A j \in 1 .. n : j < i => t[j] \notin In(A)
    BY <1>2, <1>8 DEF Leads
  <2>2. Leads(s, In(A), s[i])
    BY <1>1, <1>6, <1>8, <2>1 DEF Leads
  <2>3. QED BY <1>1, <1>3, <2>1, <2>2
<1>9. ASSUME NEW y \in Spots, Leads(s, In(A), y), x = [at |-> y.at, as |-> p]
      PROVE  Leads(t, In(A), x)
  <2>1. PICK i \in 1 .. n : s[i] = y /\ \A j \in 1 .. n : j < i => s[j] \notin In(A)
    BY <1>1, <1>9 DEF Leads
  <2>2. t[i] = x
    BY <1>3, <1>9, <2>1
  <2>3. x \in In(A)
    BY <1>6, <1>9, <2>1, <2>2 DEF Leads
  <2>4. QED BY <1>2, <1>6, <2>1, <2>2, <2>3 DEF Leads
<1>10. QED BY <1>2, <1>3, <1>5, <1>7, <1>8, <1>9 DEF t

\* Sequences of one element and of none.
LEMMA OneSpot ==
  ASSUME NEW X, NEW e \in X, NEW H, NEW x
  PROVE  /\ <<e>> \in Seq(X) /\ <<>> \in Seq(X)
         /\ Misses(<<e>>, H) <=> e \notin H
         /\ Leads(<<e>>, H, x) <=> x = e /\ e \in H
         /\ Misses(<<>>, H) /\ ~Leads(<<>>, H, x)
<1>1. DOMAIN <<e>> = {1} /\ <<e>>[1] = e /\ <<e>> \in Seq(X) /\ <<>> \in Seq(X) /\ DOMAIN <<>> = {}
  OBVIOUS
<1>2. QED BY <1>1 DEF Misses, Leads

\* The places of a walk are contexts with a package each.
LEMMA PlacesTyped ==
  ASSUME Shape
  PROVE  \A c \in Contexts, p \in Qualifiers : PlacesFromDep[c][p] \in Seq(Spots)
<1> DEFINE F == PlacesFromDep
           T == {c \in Contexts : ~\A p \in Qualifiers : F[c][p] \in Seq(Spots)}
<1>1. SUFFICES ASSUME T # {} PROVE FALSE
  OBVIOUS
<1>2. T \in SUBSET Nat
  BY SomeFile DEF Contexts
<1>3. PICK c \in T : \A d \in T : c <= d
  BY <1>1, <1>2, Least
<1>4. c \in Contexts
  OBVIOUS
<1>5. ASSUME NEW d \in Contexts, up[d] = c, NEW p \in Qualifiers
      PROVE  F[d][p] \in Seq(Spots)
  <2>1. d < c /\ d \in Nat /\ c \in Nat
    BY <1>4, <1>5, ShapeFacts
  <2>2. d \notin T
    <3> HIDE DEF T
    <3>1. QED BY <1>3, <2>1
  <2>3. QED BY <2>2
<1>6. ASSUME NEW p \in Qualifiers PROVE F[c][p] \in Seq(Spots)
  <2>1. ASSUME NEW d \in Contexts, up[d] = c PROVE PlacesBelow(F, c, p, d) \in Seq(Spots)
    <3>1. /\ F[d][Global] \in Seq(Spots) /\ F[d][p] \in Seq(Spots)
          /\ F[d][package[c]] \in Seq(Spots)
          /\ package[d] \in Qualifiers /\ [at |-> d, as |-> p] \in Spots
      BY <1>4, <1>5, <2>1, ShapeFacts
    <3> HIDE DEF F, T
    <3>2. Under(p, <<[at |-> d, as |-> p]>> \o F[d][Global]) \in Seq(Spots)
      <4>1. <<[at |-> d, as |-> p]>> \in Seq(Spots)
        BY <3>1, OneSpot
      <4>2. <<[at |-> d, as |-> p]>> \o F[d][Global] \in Seq(Spots)
        BY <3>1, <4>1, ConcatProperties
      <4>3. QED BY <4>2, UnderSpots
    <3>3. Under(p, F[d][p]) \in Seq(Spots) /\ Under(package[d], F[d][package[c]]) \in Seq(Spots)
      BY <3>1, UnderSpots
    <3>4. <<>> \in Seq(Spots)
      OBVIOUS
    <3>5. QED BY <3>2, <3>3, <3>4, ConcatProperties DEF PlacesBelow
  <2>2. Loop(F, c, p) \in [1 .. N -> Seq(Spots)]
    <3>1. <<>> \in Seq(Spots)
      OBVIOUS
    <3>2. QED BY <2>1, <3>1 DEF Loop, Contexts
  <2>3. FlattenSeq(Loop(F, c, p)) \in Seq(Spots)
    BY <2>2, SomeFile, Flattened
  <2>4. OwnPlace(c, p) \in Seq(Spots)
    <3>1. [at |-> c, as |-> p] \in Spots
      BY <1>4, ShapeFacts
    <3>2. QED BY <3>1, OneSpot DEF OwnPlace
  <2>5. F[c][p] = OwnPlace(c, p) \o FlattenSeq(Loop(F, c, p))
    BY <1>4, PlacesUnfold DEF PlacesOf
  <2>6. QED BY <2>3, <2>4, <2>5, ConcatProperties
<1>7. QED BY <1>6

\* Preorder satisfies its equation.
LEMMA PreorderUnfold ==
  ASSUME Shape
  PROVE  \A c \in Contexts : Preorder[c] = <<c>> \o FlattenSeq(Subtrees(c))
<1> DEFINE Kids(f, c) == [d \in Contexts |-> IF up[d] = c THEN f[d] ELSE <<>>]
           Tree(f, c) == <<c>> \o FlattenSeq(Kids(f, c))
           Right(f, n) == \A c \in Contexts : c <= n => f[c] = Tree(f, c)
           Done(n) == \E f : Right(f, n)
           T == {n \in 0 .. N : ~Done(n)}
<1>0. ASSUME NEW f, NEW g, NEW c \in Contexts, \A d \in Contexts : d < c => f[d] = g[d]
      PROVE  Tree(f, c) = Tree(g, c)
  <2>1. \A d \in Contexts : up[d] = c => f[d] = g[d]
    BY <1>0, ShapeFacts
  <2>2. Kids(f, c) = Kids(g, c)
    BY <2>1
  <2>3. QED BY <2>2
<1>1. Done(N)
  <2>1. SUFFICES ASSUME T # {} PROVE FALSE
    <3> HIDE DEF Done
    <3>1. QED BY SomeFile
  <2>2. T \in SUBSET Nat
    BY SomeFile
  <2>3. PICK m \in T : \A n \in T : m <= n
    BY <2>1, <2>2, Least
  <2>4. Right(<<>>, 0)
    <3> HIDE DEF Tree
    <3>1. \A c \in Contexts : ~(c <= 0)
      BY SomeFile DEF Contexts
    <3>2. QED BY <3>1
  <2>5. m - 1 \in 0 .. N /\ m \in Contexts
    BY <2>3, <2>4, SomeFile DEF Contexts
  <2>6. PICK f : Right(f, m - 1)
    <3>1. Done(m - 1)
      <4> HIDE DEF Done
      <4>1. m - 1 \notin T
        <5> HIDE DEF T
        <5>1. QED BY <2>2, <2>3, <2>5, SomeFile
      <4>2. QED BY <2>5, <4>1
    <3>2. QED BY <3>1
  <2> DEFINE g == [c \in Contexts |-> IF c = m THEN Tree(f, m) ELSE f[c]]
  <2> HIDE DEF Tree
  <2>7. \A c \in Contexts : g[c] = IF c = m THEN Tree(f, m) ELSE f[c]
    OBVIOUS
  <2> HIDE DEF g
  <2>8. ASSUME NEW c \in Contexts, c <= m
        PROVE  g[c] = Tree(g, c)
    <3>1. \A d \in Contexts : d < c => g[d] = f[d]
      BY <2>5, <2>7, <2>8, SomeFile DEF Contexts
    <3>2. Tree(g, c) = Tree(f, c)
      BY <1>0, <3>1
    <3>3. c # m => f[c] = Tree(f, c)
      BY <2>5, <2>6, <2>8, SomeFile DEF Contexts
    <3>4. QED BY <2>7, <3>2, <3>3
  <2>9. QED BY <2>8
<1>2. PICK f : Right(f, N)
  BY <1>1
<1> DEFINE h == [c \in Contexts |-> f[c]]
           Good(g) == g = [c \in Contexts |-> Tree(g, c)]
<1>3. \A c \in Contexts : h[c] = f[c]
  OBVIOUS
<1>4. ASSUME NEW c \in Contexts PROVE f[c] = Tree(h, c)
  <2> HIDE DEF h, Tree
  <2>1. Tree(h, c) = Tree(f, c)
    BY <1>0, <1>3
  <2>2. c <= N
    BY SomeFile DEF Contexts
  <2>3. QED BY <1>2, <2>1, <2>2
<1>5. Good(h)
  BY <1>4
<1>6. Good(CHOOSE g : Good(g))
  BY <1>5
<1>7. Preorder = CHOOSE g : Good(g)
  BY DEF Preorder
<1>8. Good(Preorder)
  <2> HIDE DEF Good
  <2>1. QED BY <1>6, <1>7
<1>9. \A c \in Contexts : Preorder[c] = Tree(Preorder, c)
  <2> HIDE DEF Tree
  <2>1. QED BY <1>8
<1>10. \A c \in Contexts : Kids(Preorder, c) = Subtrees(c)
  BY DEF Subtrees
<1>11. QED BY <1>9, <1>10

\* A loop over the children of c.
LEMMA LoopOver ==
  ASSUME NEW X, NEW c, NEW t, NEW s, IsLoop(s, c, t, X), NEW H, NEW x
  PROVE  /\ FlattenSeq(s) \in Seq(X)
         /\ \A e : e \in ToSet(FlattenSeq(s)) <=>
                   \E d \in Contexts : up[d] = c /\ e \in ToSet(t[d])
         /\ Misses(FlattenSeq(s), H) <=> \A d \in Contexts : up[d] = c => Misses(t[d], H)
         /\ Leads(FlattenSeq(s), H, x) <=>
              \E k \in Contexts : /\ up[k] = c /\ Leads(t[k], H, x)
                                  /\ \A j \in Contexts : up[j] = c /\ j < k => Misses(t[j], H)
<1>1. Contexts = 1 .. N /\ N \in Nat \ {0}
  BY SomeFile DEF Contexts
<1>2. <<>> \in Seq(X) /\ ToSet(<<>>) = {} /\ Misses(<<>>, H) /\ ~Leads(<<>>, H, x)
  <2>1. DOMAIN <<>> = {} /\ <<>> \in Seq(X)
    OBVIOUS
  <2>2. QED BY <2>1 DEF ToSet, Misses, Leads
<1>3. \A d \in Contexts : /\ up[d] = c => s[d] = t[d]
                          /\ up[d] # c => s[d] = <<>>
  BY DEF IsLoop
<1>4. s \in [1 .. N -> Seq(X)]
  BY <1>1, <1>2 DEF IsLoop
<1> HIDE DEF Contexts
<1>5. /\ FlattenSeq(s) \in Seq(X)
      /\ ToSet(FlattenSeq(s)) = UNION {ToSet(s[i]) : i \in 1 .. N}
      /\ Misses(FlattenSeq(s), H) <=> \A i \in 1 .. N : Misses(s[i], H)
      /\ Leads(FlattenSeq(s), H, x) <=>
           \E k \in 1 .. N : Leads(s[k], H, x) /\ \A j \in 1 .. k - 1 : Misses(s[j], H)
  <2> HIDE <1>1
  <2>1. QED BY <1>4, SomeFile, Flattened
<1>6. ASSUME NEW e
      PROVE  e \in ToSet(FlattenSeq(s)) <=> \E d \in Contexts : up[d] = c /\ e \in ToSet(t[d])
  <2>1. e \in ToSet(FlattenSeq(s)) <=> \E i \in 1 .. N : e \in ToSet(s[i])
    BY <1>5
  <2>2. QED BY <1>1, <1>2, <1>3, <2>1
<1>7. Misses(FlattenSeq(s), H) <=> \A d \in Contexts : up[d] = c => Misses(t[d], H)
  BY <1>1, <1>2, <1>3, <1>5
<1>8. ASSUME NEW k \in Contexts
      PROVE  (\A j \in 1 .. k - 1 : Misses(s[j], H)) <=>
               \A j \in Contexts : up[j] = c /\ j < k => Misses(t[j], H)
  <2>1. \A j \in Contexts : j < k <=> j \in 1 .. k - 1
    BY <1>1
  <2>2. 1 .. k - 1 \subseteq Contexts
    BY <1>1
  <2>3. QED BY <1>2, <1>3, <2>1, <2>2
<1>9. \A k \in Contexts : Leads(s[k], H, x) <=> up[k] = c /\ Leads(t[k], H, x)
  BY <1>2, <1>3
<1>10. QED BY <1>1, <1>5, <1>6, <1>7, <1>8, <1>9

\* Below a context are contexts with lower numbers.
LEMMA PreorderTyped ==
  ASSUME Shape
  PROVE  \A c \in Contexts : Preorder[c] \in Seq(Contexts) /\ Below(c) \subseteq 1 .. c
<1> DEFINE Good(c) == Preorder[c] \in Seq(Contexts) /\ ToSet(Preorder[c]) \subseteq 1 .. c
           T == {c \in Contexts : ~Good(c)}
<1>1. SUFFICES ASSUME T # {} PROVE FALSE
  BY DEF Below
<1>2. T \in SUBSET Nat
  BY SomeFile DEF Contexts
<1>3. PICK c \in T : \A d \in T : c <= d
  BY <1>1, <1>2, Least
<1>4. c \in Contexts /\ c \in Nat \ {0}
  BY ShapeFacts
<1>5. ASSUME NEW d \in Contexts, up[d] = c
      PROVE  Good(d) /\ d < c /\ d \in Nat
  <2>1. d < c /\ d \in Nat /\ c \in Nat
    BY <1>4, <1>5, ShapeFacts
  <2>2. d \notin T
    <3> HIDE DEF T
    <3>1. QED BY <1>3, <2>1
  <2>3. QED BY <2>1, <2>2
<1> HIDE DEF T
<1> DEFINE f == FlattenSeq(Subtrees(c))
           o == <<c>>
<1>6. /\ f \in Seq(Contexts)
      /\ \A e : e \in ToSet(f) <=> \E d \in Contexts : up[d] = c /\ e \in ToSet(Preorder[d])
  <2>1. IsLoop(Subtrees(c), c, Preorder, Contexts)
    BY <1>5 DEF Subtrees, IsLoop
  <2>2. QED BY <2>1, LoopOver
<1>7. o \in Seq(Contexts) /\ ToSet(o) = {c} /\ Preorder[c] = o \o f
  BY <1>4, PreorderUnfold DEF ToSet
<1> HIDE DEF f, o
<1>8. /\ Preorder[c] \in Seq(Contexts)
      /\ ToSet(Preorder[c]) = ToSet(o) \cup ToSet(f)
  BY <1>6, <1>7, JoinedSet
<1>9. ASSUME NEW e \in ToSet(Preorder[c]) PROVE e \in 1 .. c
  <2>1. CASE e = c
    BY <1>4, <2>1
  <2>2. CASE e # c
    <3>1. PICK d \in Contexts : up[d] = c /\ e \in ToSet(Preorder[d])
      BY <1>6, <1>7, <1>8, <2>2
    <3>2. e \in 1 .. d /\ d < c /\ d \in Nat
      BY <1>5, <3>1
    <3>3. QED BY <1>4, <3>2
  <2>3. QED BY <2>1, <2>2
<1>10. QED BY <1>3, <1>8, <1>9 DEF T

\* What Preorder meets first from c, by what it meets from the children.
LEMMA PreorderLeads ==
  ASSUME Shape, NEW c \in Contexts, NEW H, NEW a
  PROVE  /\ \A e : e \in Below(c) <=> e = c \/ \E d \in Contexts : up[d] = c /\ e \in Below(d)
         /\ Misses(Preorder[c], H) <=>
              c \notin H /\ \A d \in Contexts : up[d] = c => Misses(Preorder[d], H)
         /\ Leads(Preorder[c], H, a) <=>
              (a = c /\ c \in H) \/ (c \notin H /\ FirstBelow(c, H, a))
<1> DEFINE f == FlattenSeq(Subtrees(c))
           o == <<c>>
<1>1. /\ f \in Seq(Contexts)
      /\ \A e : e \in ToSet(f) <=> \E d \in Contexts : up[d] = c /\ e \in ToSet(Preorder[d])
      /\ Misses(f, H) <=> \A d \in Contexts : up[d] = c => Misses(Preorder[d], H)
      /\ Leads(f, H, a) <=> FirstBelow(c, H, a)
  <2>1. IsLoop(Subtrees(c), c, Preorder, Contexts)
    BY PreorderTyped DEF Subtrees, IsLoop
  <2> DEFINE l == Subtrees(c)
  <2> HIDE DEF l
  <2>2. /\ FlattenSeq(l) \in Seq(Contexts)
        /\ \A e : e \in ToSet(FlattenSeq(l)) <=>
                  \E d \in Contexts : up[d] = c /\ e \in ToSet(Preorder[d])
        /\ Misses(FlattenSeq(l), H) <=> \A d \in Contexts : up[d] = c => Misses(Preorder[d], H)
        /\ Leads(FlattenSeq(l), H, a) <=>
             \E k \in Contexts :
               /\ up[k] = c /\ Leads(Preorder[k], H, a)
               /\ \A j \in Contexts : up[j] = c /\ j < k => Misses(Preorder[j], H)
    <3>1. IsLoop(l, c, Preorder, Contexts)
      BY <2>1 DEF l
    <3>2. QED BY <3>1, LoopOver
  <2>3. QED BY <2>2 DEF l, FirstBelow
<1>2. /\ o \in Seq(Contexts) /\ ToSet(o) = {c} /\ Preorder[c] = o \o f
      /\ Misses(o, H) <=> c \notin H
      /\ Leads(o, H, a) <=> a = c /\ c \in H
  <2>1. DOMAIN o = {1} /\ o[1] = c /\ o \in Seq(Contexts)
    OBVIOUS
  <2>2. Preorder[c] = o \o f
    BY PreorderUnfold
  <2> HIDE DEF o, f
  <2>3. QED BY <2>1, <2>2 DEF ToSet, Misses, Leads
<1> HIDE DEF f, o
<1>3. /\ ToSet(Preorder[c]) = ToSet(o) \cup ToSet(f)
      /\ Misses(Preorder[c], H) <=> Misses(o, H) /\ Misses(f, H)
      /\ Leads(Preorder[c], H, a) <=> Leads(o, H, a) \/ (Misses(o, H) /\ Leads(f, H, a))
  BY <1>1, <1>2, Joined
<1>4. \A e : e \in Below(c) <=> e = c \/ \E d \in Contexts : up[d] = c /\ e \in Below(d)
  BY <1>1, <1>2, <1>3 DEF Below
<1>5. QED BY <1>1, <1>2, <1>3, <1>4

\* What a walk from c in the package p meets, by what the walks of the children meet.
LEMMA WalkLeads ==
  ASSUME Shape, NEW c \in Contexts, NEW p \in Qualifiers, NEW A, NEW x
  PROVE  LET own  == package[c] = p /\ c \in A
             B(d) == PlacesBelow(PlacesFromDep, c, p, d)
         IN  /\ \A d \in Contexts : up[d] = c => B(d) \in Seq(Spots)
             /\ Leads(PlacesFromDep[c][p], In(A), x) <=>
                  (own /\ x = [at |-> c, as |-> p]) \/ (~own /\ WalkBelow(c, p, A, x))
<1> DEFINE B(d) == PlacesBelow(PlacesFromDep, c, p, d)
           own == package[c] = p /\ c \in A
           f == FlattenSeq(Loop(PlacesFromDep, c, p))
           o == OwnPlace(c, p)
           t == [d \in Contexts |-> B(d)]
<1>1. ASSUME NEW d \in Contexts, up[d] = c PROVE B(d) \in Seq(Spots)
  <2>1. /\ PlacesFromDep[d][Global] \in Seq(Spots) /\ PlacesFromDep[d][p] \in Seq(Spots)
        /\ PlacesFromDep[d][package[c]] \in Seq(Spots)
        /\ package[d] \in Qualifiers /\ [at |-> d, as |-> p] \in Spots
    BY ShapeFacts, PlacesTyped
  <2>2. Under(p, <<[at |-> d, as |-> p]>> \o PlacesFromDep[d][Global]) \in Seq(Spots)
    <3>1. <<[at |-> d, as |-> p]>> \in Seq(Spots)
      BY <2>1, OneSpot
    <3>2. <<[at |-> d, as |-> p]>> \o PlacesFromDep[d][Global] \in Seq(Spots)
      BY <2>1, <3>1, ConcatProperties
    <3>3. QED BY <3>2, UnderSpots
  <2>3. /\ Under(p, PlacesFromDep[d][p]) \in Seq(Spots)
        /\ Under(package[d], PlacesFromDep[d][package[c]]) \in Seq(Spots)
    BY <2>1, UnderSpots
  <2>4. <<>> \in Seq(Spots)
    OBVIOUS
  <2>5. QED BY <2>2, <2>3, <2>4, ConcatProperties DEF PlacesBelow
<1> DEFINE l == Loop(PlacesFromDep, c, p)
<1>2. /\ l = [d \in Contexts |-> l[d]]
      /\ \A d \in Contexts : l[d] = IF up[d] = c THEN t[d] ELSE <<>>
  BY DEF Loop
<1>3. \A d \in Contexts : t[d] = B(d)
  OBVIOUS
<1> HIDE DEF t, B, l
<1>4. /\ f \in Seq(Spots)
      /\ Leads(f, In(A), x) <=>
           \E k \in Contexts : /\ up[k] = c /\ Leads(t[k], In(A), x)
                               /\ \A j \in Contexts : up[j] = c /\ j < k => Misses(t[j], In(A))
  <2>1. IsLoop(l, c, t, Spots)
    BY <1>1, <1>2, <1>3 DEF IsLoop
  <2>2. /\ FlattenSeq(l) \in Seq(Spots)
        /\ Leads(FlattenSeq(l), In(A), x) <=>
             \E k \in Contexts : /\ up[k] = c /\ Leads(t[k], In(A), x)
                                 /\ \A j \in Contexts : up[j] = c /\ j < k => Misses(t[j], In(A))
    BY <2>1, LoopOver
  <2>3. QED BY <2>2 DEF l
<1>5. /\ o \in Seq(Spots)
      /\ Misses(o, In(A)) <=> ~own
      /\ Leads(o, In(A), x) <=> own /\ x = [at |-> c, as |-> p]
  <2>1. [at |-> c, as |-> p] \in Spots /\ ([at |-> c, as |-> p] \in In(A) <=> c \in A)
    BY ShapeFacts DEF In
  <2>2. CASE package[c] = p
    <3>1. o = <<[at |-> c, as |-> p]>>
      BY <2>2 DEF OwnPlace
    <3> DEFINE e == [at |-> c, as |-> p]
    <3> HIDE DEF e, o
    <3>2. e \in Spots /\ (e \in In(A) <=> c \in A) /\ o = <<e>>
      BY <2>1, <3>1 DEF e
    <3>3. /\ o \in Seq(Spots)
          /\ Misses(o, In(A)) <=> e \notin In(A)
          /\ Leads(o, In(A), x) <=> x = e /\ e \in In(A)
      <4>1. DOMAIN o = {1} /\ o[1] = e /\ o \in Seq(Spots)
        BY <3>2
      <4> HIDE DEF e
      <4>2. QED BY <4>1 DEF Misses, Leads
    <3>4. QED BY <2>2, <3>2, <3>3 DEF e
  <2>3. CASE package[c] # p
    <3>1. o = <<>> /\ DOMAIN <<>> = {} /\ <<>> \in Seq(Spots)
      BY <2>3 DEF OwnPlace
    <3>2. QED BY <2>3, <3>1 DEF Misses, Leads
  <2>4. QED BY <2>2, <2>3
<1>6. PlacesFromDep[c][p] = o \o f
  BY PlacesUnfold DEF PlacesOf
<1> HIDE DEF o, f, own
<1>7. Leads(PlacesFromDep[c][p], In(A), x) <=>
        Leads(o, In(A), x) \/ (Misses(o, In(A)) /\ Leads(f, In(A), x))
  BY <1>4, <1>5, <1>6, Joined
<1>8. WalkBelow(c, p, A, x) <=> Leads(f, In(A), x)
  BY <1>3, <1>4 DEF WalkBelow, B
<1>9. QED BY <1>1, <1>5, <1>7, <1>8 DEF B, own
\* What a child adds to a walk in the package p ...
LEMMA ChildLeads ==
  ASSUME Shape, NEW c \in Contexts, NEW p \in Qualifiers, p # Global,
         NEW d \in Contexts, NEW A, NEW x
  PROVE  LET B == PlacesBelow(PlacesFromDep, c, p, d)
             Renamed(q) == \E y \in Spots : /\ Leads(PlacesFromDep[d][q], In(A), y)
                                            /\ x = [at |-> y.at, as |-> p]
         IN  /\ package[d] # p => (Leads(B, In(A), x) <=> Renamed(p))
             /\ package[d] = p /\ d \in A => (Leads(B, In(A), x) <=> x = [at |-> d, as |-> p])
             /\ package[d] = p /\ d \notin A =>
                  (Leads(B, In(A), x) <=>
                     \/ Renamed(Global)
                     \/ Misses(PlacesFromDep[d][Global], In(A)) /\ Renamed(p))
<1> DEFINE F == PlacesFromDep
           H == In(A)
           e == [at |-> d, as |-> p]
           o == <<e>>
           g == F[d][Global]
           u == Under(p, F[d][p])
           w == Under(p, o \o g)
           Renamed(q) == \E y \in Spots : Leads(F[d][q], H, y) /\ x = [at |-> y.at, as |-> p]
<1>1. F[d][p] \in Seq(Spots) /\ g \in Seq(Spots) /\ e \in Spots
  BY PlacesTyped, ShapeFacts
<1>2. e \in H <=> d \in A
  BY <1>1 DEF In
<1>3. u \in Seq(Spots) /\ (Leads(u, H, x) <=> Renamed(p))
  BY <1>1, UnderSpots
<1>4. /\ o \in Seq(Spots) /\ (Misses(o, H) <=> e \notin H)
      /\ \A z : Leads(o, H, z) <=> z = e /\ e \in H
  <2>1. DOMAIN o = {1} /\ o[1] = e /\ o \in Seq(Spots)
    BY <1>1
  <2> HIDE DEF o, e
  <2>2. QED BY <2>1 DEF Misses, Leads
<1> HIDE DEF o
<1>5. /\ o \o g \in Seq(Spots)
      /\ Misses(o \o g, H) <=> Misses(o, H) /\ Misses(g, H)
      /\ \A z : Leads(o \o g, H, z) <=> Leads(o, H, z) \/ (Misses(o, H) /\ Leads(g, H, z))
  <2>1. o \o g \in Seq(Spots)
    BY <1>1, <1>4, ConcatProperties
  <2>2. ASSUME NEW z
        PROVE  /\ Misses(o \o g, H) <=> Misses(o, H) /\ Misses(g, H)
               /\ Leads(o \o g, H, z) <=> Leads(o, H, z) \/ (Misses(o, H) /\ Leads(g, H, z))
    <3> HIDE DEF g, H
    <3>1. QED BY <1>1, <1>4, Joined
  <2>3. QED BY <2>1, <2>2
<1>6. /\ w \in Seq(Spots)
      /\ Misses(w, H) <=> Misses(o \o g, H)
      /\ Leads(w, H, x) <=> \E y \in Spots : Leads(o \o g, H, y) /\ x = [at |-> y.at, as |-> p]
  <2> DEFINE r == o \o g
  <2>1. r \in Seq(Spots)
    BY <1>5
  <2> HIDE DEF r
  <2>2. /\ Under(p, r) \in Seq(Spots)
        /\ Misses(Under(p, r), In(A)) <=> Misses(r, In(A))
        /\ Leads(Under(p, r), In(A), x) <=>
             \E y \in Spots : Leads(r, In(A), y) /\ x = [at |-> y.at, as |-> p]
    BY <2>1, UnderSpots
  <2>3. QED BY <2>2 DEF r
<1>7. CASE package[d] # p
  <2>1. PlacesBelow(F, c, p, d) = <<>> \o u
    BY <1>7 DEF PlacesBelow
  <2>2. <<>> \o u = u
    BY <1>3, ConcatEmptySeq
  <2>3. QED BY <1>3, <1>7, <2>1, <2>2
<1>8. CASE package[d] = p
  <2>1. PlacesBelow(F, c, p, d) = w \o u
    BY <1>8 DEF PlacesBelow, o
  <2> DEFINE b == w \o u
  <2>2. Leads(b, H, x) <=> Leads(w, H, x) \/ (Misses(w, H) /\ Leads(u, H, x))
    <3> HIDE DEF w, u, H
    <3>1. QED BY <1>3, <1>6, Joined
  <2> HIDE DEF w, u
  <2>3. CASE d \in A
    <3>1. Leads(w, H, x) <=> x = e
      <4>1. Leads(w, H, x) => x = e
        BY <1>2, <1>4, <1>5, <1>6, <2>3
      <4>2. Leads(o \o g, H, e) /\ e.at = d
        BY <1>2, <1>4, <1>5, <2>3
      <4>3. QED BY <1>1, <1>6, <4>1, <4>2
    <3>2. ~Misses(w, H)
      BY <1>2, <1>4, <1>5, <1>6, <2>3
    <3>3. QED BY <1>8, <2>1, <2>2, <2>3, <3>1, <3>2
  <2>4. CASE d \notin A
    <3>1. Misses(w, H) <=> Misses(g, H)
      BY <1>2, <1>4, <1>5, <1>6, <2>4
    <3>2. Leads(w, H, x) <=> Renamed(Global)
      BY <1>2, <1>4, <1>5, <1>6, <2>4
    <3>3. QED BY <1>3, <1>8, <2>1, <2>2, <2>4, <3>1, <3>2
  <2>5. QED BY <2>3, <2>4
<1>9. QED BY <1>7, <1>8

\* ... and to one without a package.
LEMMA GlobalLeads ==
  ASSUME Shape, NEW c \in Contexts, NEW A, NEW x
  PROVE  LET own == package[c] = Global /\ c \in A
         IN  Leads(PlacesFromDep[c][Global], In(A), x) <=>
               \/ own /\ x = [at |-> c, as |-> Global]
               \/ ~own /\ MetBelow(c, A, x)
<1> DEFINE F == PlacesFromDep
           q == package[c]
           H == In(A)
           B(d) == PlacesBelow(F, c, Global, d)
<1>1. Global \in Qualifiers /\ q \in Qualifiers
  BY ShapeFacts
<1>2. ASSUME NEW d \in Contexts, up[d] = c
      PROVE  /\ Misses(B(d), H) <=> Misses(F[d][q], H)
             /\ Leads(B(d), H, x) <=> \E y \in Spots : /\ Leads(F[d][q], H, y)
                                                       /\ x = [at |-> y.at, as |-> package[d]]
  <2> DEFINE u == Under(package[d], F[d][q])
  <2>1. F[d][q] \in Seq(Spots) /\ package[d] \in Qualifiers /\ package[d] # Global
    BY <1>1, <1>2, PlacesTyped, ShapeFacts
  <2>2. /\ u \in Seq(Spots) /\ (Misses(u, H) <=> Misses(F[d][q], H))
        /\ Leads(u, H, x) <=> \E y \in Spots : /\ Leads(F[d][q], H, y)
                                               /\ x = [at |-> y.at, as |-> package[d]]
    <3> DEFINE r == F[d][q]
               z == package[d]
    <3> HIDE DEF r, z
    <3>1. r \in Seq(Spots) /\ z \in Qualifiers
      BY <2>1 DEF r, z
    <3>2. /\ Under(z, r) \in Seq(Spots) /\ (Misses(Under(z, r), In(A)) <=> Misses(r, In(A)))
          /\ Leads(Under(z, r), In(A), x) <=>
               \E y \in Spots : Leads(r, In(A), y) /\ x = [at |-> y.at, as |-> z]
      BY <3>1, UnderSpots
    <3>3. QED BY <3>2 DEF r, z
  <2>3. B(d) = <<>> \o u
    BY <2>1 DEF PlacesBelow
  <2>4. <<>> \o u = u
    BY <2>2, ConcatEmptySeq
  <2>5. QED BY <2>2, <2>3, <2>4
<1>3. Leads(F[c][Global], H, x) <=>
        \/ (q = Global /\ c \in A) /\ x = [at |-> c, as |-> Global]
        \/ /\ ~(q = Global /\ c \in A)
           /\ \E k \in Contexts :
                /\ up[k] = c /\ Leads(B(k), H, x)
                /\ \A j \in Contexts : up[j] = c /\ j < k => Misses(B(j), H)
  <2>1. \A p \in Qualifiers :
          Leads(PlacesFromDep[c][p], In(A), x) <=>
            \/ package[c] = p /\ c \in A /\ x = [at |-> c, as |-> p]
            \/ ~(package[c] = p /\ c \in A) /\ WalkBelow(c, p, A, x)
    <3> TAKE p \in Qualifiers
    <3>1. QED BY WalkLeads
  <2>2. QED BY <1>1, <2>1 DEF WalkBelow
<1> HIDE DEF B
<1>4. MetBelow(c, A, x) <=>
        \E k \in Contexts :
          /\ up[k] = c /\ Leads(B(k), H, x)
          /\ \A j \in Contexts : up[j] = c /\ j < k => Misses(B(j), H)
  BY <1>2 DEF MetBelow
<1>5. QED BY <1>3, <1>4

\* A walk that meets what t meets first misses what t misses.
LEMMA SameMisses ==
  ASSUME NEW s \in Seq(Spots), NEW t \in Seq(Contexts), NEW p \in Qualifiers, NEW A, NEW K,
         \A x : Leads(s, In(A), x) <=> x \in Spots /\ x.as = p /\ Leads(t, K, x.at)
  PROVE  Misses(s, In(A)) <=> Misses(t, K)
<1>1. ASSUME ~Misses(s, In(A)) PROVE ~Misses(t, K)
  <2>1. PICK x \in Spots : Leads(s, In(A), x)
    BY <1>1, MissesOrLeads
  <2>2. Leads(t, K, x.at)
    BY <2>1
  <2>3. QED BY <2>2, MissesOrLeads
<1>2. ASSUME ~Misses(t, K) PROVE ~Misses(s, In(A))
  <2>1. PICK a \in Contexts : Leads(t, K, a)
    BY <1>2, MissesOrLeads
  <2> DEFINE x == [at |-> a, as |-> p]
  <2>2. x \in Spots /\ x.as = p /\ x.at = a
    BY DEF Spots
  <2> HIDE DEF x
  <2>3. Leads(s, In(A), x)
    BY <2>1, <2>2
  <2>4. QED BY <2>3, MissesOrLeads
<1>3. QED BY <1>1, <1>2

\* Walks that agree miss the same.
LEMMA AgreesMisses ==
  ASSUME Shape, NEW c \in Contexts, NEW p \in Qualifiers, NEW A, Agrees(c, p, A)
  PROVE  Misses(PlacesFromDep[c][p], In(A)) <=> Misses(Preorder[c], A \cap Of(p))
<1> DEFINE s == PlacesFromDep[c][p]
           t == Preorder[c]
           K == A \cap Of(p)
<1>1. s \in Seq(Spots) /\ t \in Seq(Contexts)
  BY PlacesTyped, PreorderTyped
<1>2. \A x : Leads(s, In(A), x) <=> x \in Spots /\ x.as = p /\ Leads(t, K, x.at)
  BY DEF Agrees
<1> HIDE DEF s, t, K
<1>3. Misses(s, In(A)) <=> Misses(t, K)
  BY <1>1, <1>2, SameMisses
<1>4. QED BY <1>3 DEF s, t, K

\* What the walk without a package meets below d is what Preorder meets there.
LEMMA GlobalAgrees ==
  ASSUME Shape, NEW d \in Contexts, NEW A, NEW y
  PROVE  LET q == package[d]
         IN  /\ ~(q = Global /\ d \in A)
             /\ \A k \in Contexts : up[k] = d => Agrees(k, q, A)
             /\ Leads(PlacesFromDep[d][Global], In(A), y)
             => \E k \in Contexts :
                  /\ up[k] = d /\ y \in Spots /\ y.as = package[k]
                  /\ Leads(Preorder[k], A \cap Of(q), y.at)
                  /\ \A j \in Contexts : up[j] = d /\ j < k => Misses(Preorder[j], A \cap Of(q))
<1> DEFINE q == package[d]
           K == A \cap Of(q)
<1>1. ~(q = Global /\ d \in A) /\ Leads(PlacesFromDep[d][Global], In(A), y)
      => MetBelow(d, A, y)
  BY GlobalLeads
<1>2. q \in Qualifiers
  BY ShapeFacts
<1>3. ASSUME ~(q = Global /\ d \in A),
             \A k \in Contexts : up[k] = d => Agrees(k, q, A),
             Leads(PlacesFromDep[d][Global], In(A), y)
      PROVE  \E k \in Contexts :
               /\ up[k] = d /\ y \in Spots /\ y.as = package[k]
               /\ Leads(Preorder[k], K, y.at)
               /\ \A j \in Contexts : up[j] = d /\ j < k => Misses(Preorder[j], K)
  <2> HIDE DEF q
  <2>1. PICK k \in Contexts, z \in Spots :
          /\ up[k] = d
          /\ Leads(PlacesFromDep[k][q], In(A), z) /\ y = [at |-> z.at, as |-> package[k]]
          /\ \A j \in Contexts : up[j] = d /\ j < k => Misses(PlacesFromDep[j][q], In(A))
    BY <1>1, <1>3 DEF MetBelow, q
  <2>2. y \in Spots /\ y.at = z.at /\ y.as = package[k]
    BY <2>1, ShapeFacts DEF Spots
  <2>3. Leads(Preorder[k], K, y.at)
    BY <1>3, <2>1, <2>2 DEF Agrees
  <2>4. \A j \in Contexts : up[j] = d /\ j < k => Misses(Preorder[j], K)
    <3>1. \A j \in Contexts : up[j] = d =>
            (Misses(PlacesFromDep[j][q], In(A)) <=> Misses(Preorder[j], K))
      <4> TAKE j \in Contexts
      <4> HAVE up[j] = d
      <4>1. Agrees(j, q, A)
        BY <1>3
      <4>2. QED BY <1>2, <4>1, AgreesMisses
    <3>2. QED BY <2>1, <3>1
  <2>5. QED BY <2>1, <2>2, <2>3, <2>4
<1>4. QED BY <1>3

\* The two walks of context.cc agree: LookupSymbolTypeFromDep in a package meets what
\* the walk of LookupType over the files of that package meets first, whatever the
\* files A are that have the name.
THEOREM WalkIsPreorder ==
  ASSUME Shape, NEW p \in Qualifiers, p # Global, NEW A
  PROVE  \A c \in Contexts : Agrees(c, p, A)
<1> DEFINE T == {c \in Contexts : ~Agrees(c, p, A)}
           K == A \cap Of(p)
<1>1. SUFFICES ASSUME T # {} PROVE FALSE
  OBVIOUS
<1>2. T \in SUBSET Nat
  BY SomeFile DEF Contexts
<1>3. PICK c \in T : \A d \in T : c <= d
  BY <1>1, <1>2, Least
<1>4. c \in Contexts /\ c \in Nat
  BY ShapeFacts
<1>5. ASSUME NEW d \in Contexts, d < c PROVE Agrees(d, p, A)
  <2>1. d \in Nat
    BY ShapeFacts
  <2>2. d \notin T
    <3> HIDE DEF T
    <3>1. QED BY <1>3, <1>4, <1>5, <2>1
  <2>3. QED BY <2>2
<1> HIDE DEF T
<1> DEFINE B(d) == PlacesBelow(PlacesFromDep, c, p, d)
<1>6. ASSUME NEW d \in Contexts, up[d] = c, NEW x
      PROVE  Leads(B(d), In(A), x) <=> x \in Spots /\ x.as = p /\ Leads(Preorder[d], K, x.at)
  <2>1. d < c /\ d \in Nat
    BY <1>4, <1>6, ShapeFacts
  <2>2. Agrees(d, p, A) /\ \A k \in Contexts : up[k] = d => Agrees(k, p, A)
    <3>1. \A k \in Contexts : up[k] = d => k < c
      <4>1. \A k \in Contexts : up[k] = d => k < d /\ k \in Nat
        BY ShapeFacts
      <4>2. QED BY <1>4, <2>1, <4>1
    <3>2. QED BY <1>5, <2>1, <3>1
  <2> DEFINE Renamed(q) == \E y \in Spots : /\ Leads(PlacesFromDep[d][q], In(A), y)
                                            /\ x = [at |-> y.at, as |-> p]
             Right == x \in Spots /\ x.as = p /\ Leads(Preorder[d], K, x.at)
  <2>3. \A y \in Spots : y.as = p => y = [at |-> y.at, as |-> p]
    BY DEF Spots
  <2>4. Renamed(p) <=> Right
    BY <2>2, <2>3 DEF Agrees
  <2>5. CASE package[d] # p
    BY <1>4, <2>4, <2>5, ChildLeads
  <2>6. CASE package[d] = p /\ d \in A
    <3>1. d \in K
      BY <2>6 DEF Of
    <3>2. \A a : Leads(Preorder[d], K, a) <=> a = d
      <4> HIDE DEF K
      <4> TAKE a
      <4>1. Leads(Preorder[d], K, a) <=>
              (a = d /\ d \in K) \/ (d \notin K /\ FirstBelow(d, K, a))
        BY PreorderLeads
      <4>2. QED BY <3>1, <4>1
    <3>3. Leads(B(d), In(A), x) <=> x = [at |-> d, as |-> p]
      BY <1>4, <2>6, ChildLeads
    <3>4. Right <=> x = [at |-> d, as |-> p]
      <4>1. [at |-> d, as |-> p] \in Spots
        BY DEF Spots
      <4>2. Right => x = [at |-> d, as |-> p]
        BY <2>3, <3>2
      <4>3. x = [at |-> d, as |-> p] => Right
        BY <3>2, <4>1
      <4>4. QED BY <4>2, <4>3
    <3>5. QED BY <3>3, <3>4
  <2>7. CASE package[d] = p /\ d \notin A
    <3>1. Leads(B(d), In(A), x) <=>
            Renamed(Global) \/ (Misses(PlacesFromDep[d][Global], In(A)) /\ Renamed(p))
      BY <1>4, <2>7, ChildLeads
    <3>2. ASSUME NEW y, Leads(PlacesFromDep[d][Global], In(A), y)
          PROVE  y \in Spots /\ Leads(Preorder[d], K, y.at)
      <4>1. PICK k \in Contexts :
              /\ up[k] = d /\ y \in Spots /\ Leads(Preorder[k], K, y.at)
              /\ \A j \in Contexts : up[j] = d /\ j < k => Misses(Preorder[j], K)
        BY <2>2, <2>7, <3>2, GlobalAgrees
      <4>2. \A a : Leads(Preorder[d], K, a) <=>
                    (a = d /\ d \in K) \/ (d \notin K /\ FirstBelow(d, K, a))
        <5> HIDE DEF K
        <5> TAKE a
        <5>1. QED BY PreorderLeads
      <4>3. d \notin K
        BY <2>7
      <4> HIDE DEF K
      <4>4. QED BY <4>1, <4>2, <4>3 DEF FirstBelow
    <3>3. Renamed(Global) => Right
      <4>1. \A y \in Spots : [at |-> y.at, as |-> p] \in Spots
        BY DEF Spots
      <4>2. QED BY <3>2, <4>1
    <3>4. ASSUME Right, ~Misses(PlacesFromDep[d][Global], In(A)) PROVE Renamed(Global)
      <4>1. PlacesFromDep[d][Global] \in Seq(Spots) /\ Preorder[d] \in Seq(Contexts)
        BY ShapeFacts, PlacesTyped, PreorderTyped
      <4>2. PICK y \in Spots : Leads(PlacesFromDep[d][Global], In(A), y)
        BY <3>4, <4>1, MissesOrLeads
      <4>3. Leads(Preorder[d], K, y.at)
        BY <3>2, <4>2
      <4>4. y.at = x.at
        <5> DEFINE t == Preorder[d]
                   a == x.at
                   b == y.at
        <5>1. t \in Seq(Contexts) /\ Leads(t, K, a) /\ Leads(t, K, b)
          BY <3>4, <4>1, <4>3
        <5> HIDE DEF K, t, a, b
        <5>2. a = b
          BY <5>1, LeadsOnce
        <5>3. QED BY <5>2 DEF a, b
      <4>5. x = [at |-> y.at, as |-> p]
        BY <2>3, <3>4, <4>4
      <4>6. QED BY <4>2, <4>5
    <3>5. QED BY <2>4, <3>1, <3>3, <3>4
  <2>8. QED BY <2>5, <2>6, <2>7
<1>7. ASSUME NEW d \in Contexts, up[d] = c
      PROVE  Misses(B(d), In(A)) <=> Misses(Preorder[d], K)
  <2>1. B(d) \in Seq(Spots) /\ Preorder[d] \in Seq(Contexts)
    BY <1>4, <1>7, WalkLeads, PreorderTyped
  <2>2. \A x : Leads(B(d), In(A), x) <=> x \in Spots /\ x.as = p /\ Leads(Preorder[d], K, x.at)
    BY <1>6, <1>7
  <2> HIDE DEF B, K
  <2>3. QED BY <2>1, <2>2, SameMisses
<1>8. ASSUME NEW x
      PROVE  Leads(PlacesFromDep[c][p], In(A), x) <=>
               x \in Spots /\ x.as = p /\ Leads(Preorder[c], K, x.at)
  <2> DEFINE own == package[c] = p /\ c \in A
  <2>1. Leads(PlacesFromDep[c][p], In(A), x) <=>
          \/ own /\ x = [at |-> c, as |-> p]
          \/ /\ ~own
             /\ \E k \in Contexts :
                  /\ up[k] = c /\ Leads(B(k), In(A), x)
                  /\ \A j \in Contexts : up[j] = c /\ j < k => Misses(B(j), In(A))
    <3>1. Leads(PlacesFromDep[c][p], In(A), x) <=>
            (own /\ x = [at |-> c, as |-> p]) \/ (~own /\ WalkBelow(c, p, A, x))
      BY <1>4, WalkLeads
    <3> HIDE DEF own
    <3>2. QED BY <3>1 DEF WalkBelow
  <2>2. own <=> c \in K
    BY <1>4 DEF Of
  <2>3. \A a : Leads(Preorder[c], K, a) <=>
                (a = c /\ c \in K) \/ (c \notin K /\ FirstBelow(c, K, a))
    <3> HIDE DEF K
    <3> TAKE a
    <3>1. QED BY <1>4, PreorderLeads
  <2> HIDE DEF B, K, own
  <2>4. x = [at |-> c, as |-> p] <=> x \in Spots /\ x.as = p /\ x.at = c
    BY <1>4, ShapeFacts DEF Spots
  <2>5. CASE own
    BY <2>1, <2>2, <2>3, <2>4, <2>5
  <2>6. CASE ~own
    BY <1>6, <1>7, <2>1, <2>2, <2>3, <2>6 DEF FirstBelow
  <2>7. QED BY <2>5, <2>6
<1>9. QED BY <1>3, <1>8 DEF T, Agrees

\* The files and their packages stay, and so do the walks.
LEMMA TreeStays ==
  ASSUME UNCHANGED <<up, package>>
  PROVE  /\ PlacesFromDep' = PlacesFromDep
         /\ Preorder' = Preorder
         /\ \A c, p : Places(c, p)' = Places(c, p)
<1>1. up' = up /\ package' = package
  OBVIOUS
<1>2. PlacesFromDep' = PlacesFromDep
  BY <1>1 DEF PlacesFromDep
<1>3. Preorder' = Preorder
  BY <1>1 DEF Preorder
<1>4. QED BY <1>1, <1>2, <1>3 DEF Places

\* Met and FirstIn take the first hit of their walks.
LEMMA FirstHit ==
  ASSUME NEW X, NEW s \in Seq(X), NEW H
  PROVE  /\ Hits(s, H) = {} <=> Misses(s, H)
         /\ Hits(s, H) # {} => /\ s[Min(Hits(s, H))] \in X
                               /\ Leads(s, H, s[Min(Hits(s, H))])
<1> DEFINE S == Hits(s, H)
<1>1. S \in SUBSET Nat /\ \A i : i \in S <=> i \in DOMAIN s /\ s[i] \in H
  BY DEF Hits
<1>2. S = {} <=> Misses(s, H)
  BY DEF Hits, Misses
<1>3. ASSUME S # {} PROVE s[Min(S)] \in X /\ Leads(s, H, s[Min(S)])
  <2> HIDE DEF S
  <2>1. \E m \in S : \A n \in S : m <= n
    BY <1>1, <1>3, Least
  <2>2. Min(S) \in S /\ \A n \in S : Min(S) <= n
    BY <2>1 DEF Min
  <2> DEFINE m == Min(S)
  <2> HIDE DEF m
  <2>3. m \in DOMAIN s /\ s[m] \in H /\ m \in Nat /\ s[m] \in X
    BY <1>1, <2>2 DEF m
  <2>4. \A j \in DOMAIN s : j < m => s[j] \notin H
    <3> TAKE j \in DOMAIN s
    <3>1. j \in Nat /\ (s[j] \in H => j \in S)
      BY <1>1
    <3>2. QED BY <2>2, <2>3, <3>1 DEF m
  <2>5. QED BY <2>3, <2>4 DEF Leads, m
<1>4. QED BY <1>2, <1>3

\* LookupType and LookupFunction find what Preorder meets first.
LEMMA FirstInLeads ==
  ASSUME Shape, NEW c \in Contexts, NEW D
  PROVE  /\ FirstIn(c, D) \in Contexts \cup {Nowhere}
         /\ \A a \in Contexts : FirstIn(c, D) = a <=> Leads(Preorder[c], D, a)
<1> DEFINE s == Preorder[c]
           S == Hits(s, D)
<1>1. s \in Seq(Contexts)
  BY PreorderTyped
<1>2. FirstIn(c, D) = IF S = {} THEN Nowhere ELSE s[Min(S)]
  BY DEF FirstIn, Hits
<1>3. /\ S = {} <=> Misses(s, D)
      /\ S # {} => s[Min(S)] \in Contexts /\ Leads(s, D, s[Min(S)])
  <2> HIDE DEF s
  <2>1. QED BY <1>1, FirstHit
<1>4. Nowhere \notin Contexts
  BY DEF Nowhere, Contexts
<1> HIDE DEF s, S
<1>5. \A a : Leads(s, D, a) => ~Misses(s, D)
  BY <1>1, MissesOrLeads
<1>6. \A a, b : Leads(s, D, a) /\ Leads(s, D, b) => a = b
  BY <1>1, LeadsOnce
<1>7. \A a \in Contexts : FirstIn(c, D) = a <=> Leads(s, D, a)
  <2>1. CASE S = {}
    BY <1>2, <1>3, <1>4, <1>5, <2>1
  <2>2. CASE S # {}
    BY <1>2, <1>3, <1>6, <2>2
  <2>3. QED BY <2>1, <2>2
<1>8. QED BY <1>2, <1>3, <1>7 DEF s

\* All the places where LookupSymbolType looks are contexts with a package each.
LEMMA PlacesSpots ==
  ASSUME Shape, NEW c \in Contexts, NEW p \in Qualifiers
  PROVE  Places(c, p) \in Seq(Spots)
<1>1. /\ PlacesFromDep[c][Global] \in Seq(Spots) /\ PlacesFromDep[c][p] \in Seq(Spots)
      /\ [at |-> c, as |-> package[c]] \in Spots
  BY PlacesTyped, ShapeFacts
<1>2. <<[at |-> c, as |-> package[c]]>> \in Seq(Spots)
  BY <1>1
<1> DEFINE o == <<[at |-> c, as |-> package[c]]>>
           g == PlacesFromDep[c][Global]
<1>3. o \o g \in Seq(Spots)
  <2> HIDE DEF o, g
  <2>1. QED BY <1>1, <1>2, ConcatProperties DEF o, g
<1>4. QED BY <1>1, <1>3 DEF Places

\* Met is what the walk meets first.
LEMMA MetLeads ==
  ASSUME Shape, NEW c \in Contexts, NEW p \in Qualifiers, NEW A
  PROVE  \/ /\ Misses(Places(c, p), In(A))
            /\ MetBy(c, p, A) = [at |-> Nowhere, as |-> Global]
         \/ /\ MetBy(c, p, A) \in Spots
            /\ Leads(Places(c, p), In(A), MetBy(c, p, A))
<1> DEFINE s == Places(c, p)
           H == In(A)
<1>1. s \in Seq(Spots)
  BY PlacesSpots
<1>2. MetBy(c, p, A) = IF Hits(s, H) = {} THEN [at |-> Nowhere, as |-> Global]
                                          ELSE s[Min(Hits(s, H))]
  BY DEF MetBy
<1> HIDE DEF s, H
<1>3. QED BY <1>1, <1>2, FirstHit DEF s, H

\* Met is MetBy with the files that know the name, before a step and after it.
LEMMA MetIsMetBy ==
  ASSUME Shape, NEW c \in Contexts, NEW p \in Qualifiers, NEW n
  PROVE  /\ Met(c, p, n) = MetBy(c, p, Knows(n))
         /\ UNCHANGED <<up, package>> => Met(c, p, n)' = MetBy(c, p, Knows(n)')
<1> DEFINE s == Places(c, p)
           Asked(f) == {i \in DOMAIN s : f[s[i].at][n] # "unknown"}
           First(S) == IF S = {} THEN [at |-> Nowhere, as |-> Global] ELSE s[Min(S)]
<1>1. s \in Seq(Spots)
  BY PlacesSpots
<1>2. ASSUME NEW f
      PROVE  Asked(f) = Hits(s, In({d \in Contexts : f[d][n] # "unknown"}))
  <2> DEFINE H == In({d \in Contexts : f[d][n] # "unknown"})
  <2> HIDE DEF s
  <2>1. \A i \in DOMAIN s : s[i] \in Spots
    BY <1>1
  <2>2. \A x \in Spots : f[x.at][n] # "unknown" <=> x \in H
    BY DEF In, Spots
  <2> HIDE DEF H
  <2>3. \A i \in DOMAIN s : f[s[i].at][n] # "unknown" <=> s[i] \in H
    BY <2>1, <2>2
  <2>4. QED BY <2>3 DEF Hits, H
<1>3. Met(c, p, n) = First(Asked(symbol_type))
  BY DEF Met
<1>4. Asked(symbol_type) = Hits(s, In(Knows(n)))
  BY <1>2 DEF Knows
<1>5. ASSUME UNCHANGED <<up, package>>
      PROVE  Met(c, p, n)' = First(Asked(symbol_type'))
  <2>1. Places(c, p)' = s
    BY <1>5, TreeStays
  <2> HIDE DEF s
  <2>2. QED BY <2>1 DEF Met
<1>6. Asked(symbol_type') = Hits(s, In(Knows(n)'))
  BY <1>2 DEF Knows
<1> HIDE DEF Asked
<1>7. QED BY <1>3, <1>4, <1>5, <1>6 DEF MetBy
\* A walk from c stays below c.
LEMMA PlacesAreBelow ==
  ASSUME Shape, NEW c \in Contexts, NEW p \in Qualifiers
  PROVE  \A y \in Spots : y \in ToSet(Places(c, p)) => y.at \in Below(c)
<1>1. ASSUME NEW k \in Contexts, NEW A, NEW q \in Qualifiers, q # Global,
             NEW z, Leads(PlacesFromDep[k][q], In(A), z)
      PROVE  z.at \in Below(k)
  <2>1. Leads(Preorder[k], A \cap Of(q), z.at)
    BY <1>1, WalkIsPreorder DEF Agrees
  <2>2. Preorder[k] \in Seq(Contexts)
    BY PreorderTyped
  <2> DEFINE s == Preorder[k]
             K == A \cap Of(q)
             a == z.at
  <2> HIDE DEF s, K, a
  <2>3. a \in ToSet(s)
    BY <2>1, <2>2, LeadsOnce DEF s, K, a
  <2>4. QED BY <2>3 DEF s, a, Below
<1>2. ASSUME NEW d \in Contexts, NEW k \in Contexts, up[k] = d, NEW a, a \in Below(k)
      PROVE  a \in Below(d)
  BY <1>2, PreorderLeads
<1>3. ASSUME NEW d \in Contexts, NEW A, NEW x, MetBelow(d, A, x), package[d] # Global
      PROVE  x.at \in Below(d)
  <2>1. PICK k \in Contexts, z \in Spots :
          /\ up[k] = d
          /\ Leads(PlacesFromDep[k][package[d]], In(A), z)
          /\ x = [at |-> z.at, as |-> package[k]]
    BY <1>3 DEF MetBelow
  <2>2. package[d] \in Qualifiers
    BY ShapeFacts
  <2>3. z.at \in Below(k)
    BY <1>1, <1>3, <2>1, <2>2
  <2>4. QED BY <1>2, <2>1, <2>3
<1>4. ASSUME NEW d \in Contexts, NEW A, NEW x, Leads(PlacesFromDep[d][Global], In(A), x)
      PROVE  x.at \in Below(d)
  <2>1. \/ x = [at |-> d, as |-> Global]
        \/ MetBelow(d, A, x)
    BY <1>4, GlobalLeads
  <2>2. CASE x = [at |-> d, as |-> Global]
    BY <2>2, PreorderLeads
  <2>3. CASE MetBelow(d, A, x) /\ package[d] # Global
    BY <1>3, <2>3
  <2>4. CASE MetBelow(d, A, x) /\ package[d] = Global
    <3>1. PICK k \in Contexts, z \in Spots :
            /\ up[k] = d
            /\ Leads(PlacesFromDep[k][Global], In(A), z)
            /\ x = [at |-> z.at, as |-> package[k]]
      BY <2>4 DEF MetBelow
    <3>2. package[k] # Global
      BY <3>1, ShapeFacts
    <3>3. MetBelow(k, A, z)
      BY <3>1, <3>2, GlobalLeads
    <3>4. z.at \in Below(k)
      BY <1>3, <3>2, <3>3
    <3>5. QED BY <1>2, <3>1, <3>4
  <2>5. QED BY <2>1, <2>2, <2>3, <2>4
<1>5. ASSUME NEW y \in Spots, NEW q \in Qualifiers, y \in ToSet(PlacesFromDep[c][q])
      PROVE  y.at \in Below(c)
  <2> DEFINE s == PlacesFromDep[c][q]
             A == {y.at}
  <2>1. s \in Seq(Spots)
    BY PlacesTyped
  <2>2. y \in In(A)
    BY DEF In
  <2>3. PICK x \in Spots : Leads(s, In(A), x)
    <3> HIDE DEF s, A
    <3>1. ~Misses(s, In(A))
      BY <1>5, <2>1, <2>2, MissesOrLeads DEF s
    <3>2. QED BY <2>1, <3>1, MissesOrLeads
  <2>4. x.at = y.at
    BY <2>3 DEF Leads, In
  <2>5. x.at \in Below(c)
    BY <1>1, <1>4, <2>3
  <2>6. QED BY <2>4, <2>5
<1>6. CASE p # Global
  BY <1>5, <1>6 DEF Places
<1>7. CASE p = Global
  <2> DEFINE o == <<[at |-> c, as |-> package[c]]>>
             g == PlacesFromDep[c][Global]
  <2>1. o \in Seq(Spots) /\ g \in Seq(Spots)
    BY ShapeFacts, PlacesTyped
  <2>2. \A y : y \in ToSet(o) => y.at = c
    BY DEF ToSet
  <2>3. ToSet(o \o g) = ToSet(o) \cup ToSet(g)
    <3> HIDE DEF o, g
    <3>1. QED BY <2>1, JoinedSet
  <2>4. c \in Below(c)
    BY PreorderLeads
  <2>5. \A y \in Spots : y \in ToSet(g) => y.at \in Below(c)
    BY <1>5, ShapeFacts
  <2>6. Places(c, p) = o \o g
    BY <1>7 DEF Places
  <2> HIDE DEF o, g
  <2>7. QED BY <2>2, <2>3, <2>4, <2>5, <2>6
<1>8. QED BY <1>6, <1>7
\* What the tokenizer meets behind a prefix ...
LEMMA MetQualified ==
  ASSUME Shape, NEW c \in Contexts, NEW p \in Qualifiers, p # Global, NEW A
  PROVE  LET m == MetBy(c, p, A)
             K == A \cap Of(p)
         IN  /\ m.at = Nowhere <=> Misses(Preorder[c], K)
             /\ m.at # Nowhere => m \in Spots /\ m.as = p /\ Leads(Preorder[c], K, m.at)
<1> DEFINE m == MetBy(c, p, A)
           K == A \cap Of(p)
           s == PlacesFromDep[c][p]
           H == In(A)
<1>1. s \in Seq(Spots) /\ Preorder[c] \in Seq(Contexts)
  BY PlacesTyped, PreorderTyped
<1>2. Agrees(c, p, A)
  BY WalkIsPreorder
<1>3. Misses(s, H) <=> Misses(Preorder[c], K)
  BY <1>2, AgreesMisses
<1>4. \/ Misses(s, H) /\ m = [at |-> Nowhere, as |-> Global]
      \/ m \in Spots /\ Leads(s, H, m)
  BY MetLeads DEF Places
<1>5. \A x \in Spots : x.at # Nowhere
  BY DEF Spots, Contexts, Nowhere
<1>6. Leads(s, H, m) => ~Misses(s, H)
  <2> HIDE DEF s, H, m
  <2>1. QED BY <1>1, MissesOrLeads
<1>7. Leads(s, H, m) => m.as = p /\ Leads(Preorder[c], K, m.at)
  BY <1>2 DEF Agrees
<1> HIDE DEF s, H, m, K
<1>8. QED BY <1>3, <1>4, <1>5, <1>6, <1>7 DEF m, K

\* ... and without one: the name of the file itself, or else what its package
\* means in the files below, with the package of the child that it came by.
LEMMA MetPlain ==
  ASSUME Shape, NEW c \in Contexts, NEW A
  PROVE  LET m == MetBy(c, Global, A)
             q == package[c]
             K == A \cap Of(q)
         IN  /\ c \in A => m = [at |-> c, as |-> q]
             /\ m.at = Nowhere => c \notin A /\ (q # Global => Misses(Preorder[c], K))
             /\ m.at # Nowhere => m \in Spots /\ m.at \in A
             /\ q # Global /\ m.at # Nowhere /\ c \notin A =>
                  /\ Leads(Preorder[c], K, m.at)
                  /\ CameBy(c, m)
<1> DEFINE m == MetBy(c, Global, A)
           q == package[c]
           K == A \cap Of(q)
           e == [at |-> c, as |-> q]
           o == <<e>>
           g == PlacesFromDep[c][Global]
           s == Places(c, Global)
           H == In(A)
<1>1. /\ g \in Seq(Spots) /\ e \in Spots /\ q \in Qualifiers /\ Global \in Qualifiers
      /\ \A k \in Contexts : Preorder[k] \in Seq(Contexts)
  BY PlacesTyped, PreorderTyped, ShapeFacts
<1>2. s = o \o g
  BY DEF Places
<1>3. \/ Misses(s, H) /\ m = [at |-> Nowhere, as |-> Global]
      \/ m \in Spots /\ Leads(s, H, m)
  BY <1>1, MetLeads
<1>4. e \in H <=> c \in A
  BY <1>1 DEF In
<1>5. \A x \in Spots : x.at # Nowhere
  BY DEF Spots, Contexts, Nowhere
<1>6. /\ Misses(s, H) <=> c \notin A /\ Misses(g, H)
      /\ Leads(s, H, m) <=> (m = e /\ c \in A) \/ (c \notin A /\ Leads(g, H, m))
  <2> HIDE DEF e, g, H, m, s
  <2>1. /\ o \in Seq(Spots)
        /\ Misses(o, H) <=> e \notin H
        /\ Leads(o, H, m) <=> m = e /\ e \in H
    BY <1>1, OneSpot
  <2> HIDE DEF o
  <2>2. /\ Misses(o \o g, H) <=> Misses(o, H) /\ Misses(g, H)
        /\ Leads(o \o g, H, m) <=> Leads(o, H, m) \/ (Misses(o, H) /\ Leads(g, H, m))
    BY <1>1, <2>1, Joined
  <2>3. QED BY <1>2, <1>4, <2>1, <2>2
<1>7. Leads(s, H, m) => m.at \in A
  BY DEF Leads, In
<1>8. ~(Misses(s, H) /\ Leads(s, H, m))
  BY DEF Misses, Leads
<1>9. c \notin A => \A a : FirstBelow(c, K, a) => Leads(Preorder[c], K, a)
  <2>1. c \notin A => c \notin K
    OBVIOUS
  <2> HIDE DEF K
  <2>2. QED BY <2>1, PreorderLeads
<1>10. ASSUME q # Global, c \notin A
      PROVE  /\ ~Misses(Preorder[c], K) => ~Misses(g, H)
             /\ Leads(g, H, m) =>
                  /\ Leads(Preorder[c], K, m.at)
                  /\ CameBy(c, m)
  <2>1. \A k \in Contexts : Agrees(k, q, A)
    BY <1>1, <1>10, WalkIsPreorder
  <2>2. c \notin K
    BY <1>10
  <2>3. ASSUME Leads(g, H, m)
        PROVE  /\ Leads(Preorder[c], K, m.at)
               /\ CameBy(c, m)
    <3>1. PICK k \in Contexts :
            /\ up[k] = c /\ m.as = package[k]
            /\ Leads(Preorder[k], K, m.at)
            /\ \A j \in Contexts : up[j] = c /\ j < k => Misses(Preorder[j], K)
      <4>1. \A y : Leads(PlacesFromDep[c][Global], In(A), y) =>
                     \E k \in Contexts :
                       /\ up[k] = c /\ y \in Spots /\ y.as = package[k]
                       /\ Leads(Preorder[k], A \cap Of(q), y.at)
                       /\ \A j \in Contexts :
                            up[j] = c /\ j < k => Misses(Preorder[j], A \cap Of(q))
        <5> TAKE y
        <5>1. QED BY <1>10, <2>1, GlobalAgrees
      <4> HIDE DEF m
      <4>2. QED BY <2>3, <4>1
    <3> DEFINE t == Preorder[k]
               a == m.at
    <3>2. a \in Below(k)
      <4>1. t \in Seq(Contexts) /\ Leads(t, K, a)
        BY <1>1, <3>1
      <4> HIDE DEF t, K, a
      <4>2. a \in ToSet(t)
        BY <4>1, LeadsOnce
      <4>3. QED BY <4>2 DEF t, Below
    <3> HIDE DEF m, K
    <3>3. FirstBelow(c, K, m.at)
      BY <3>1 DEF FirstBelow
    <3>4. QED BY <1>9, <1>10, <3>1, <3>2, <3>3 DEF CameBy
  <2>4. ASSUME ~Misses(Preorder[c], K) PROVE ~Misses(g, H)
    <3>1. Misses(Preorder[c], K) <=>
            c \notin K /\ \A d \in Contexts : up[d] = c => Misses(Preorder[d], K)
      <4> HIDE DEF K
      <4>1. QED BY PreorderLeads
    <3>2. PICK d \in Contexts : up[d] = c /\ ~Misses(Preorder[d], K)
      BY <2>2, <2>4, <3>1
    <3> DEFINE T == {j \in Contexts : up[j] = c /\ ~Misses(PlacesFromDep[j][q], H)}
    <3>3. \A j \in Contexts : Misses(PlacesFromDep[j][q], H) <=> Misses(Preorder[j], K)
      <4> TAKE j \in Contexts
      <4>1. QED BY <1>1, <2>1, AgreesMisses
    <3>4. d \in T /\ T \in SUBSET Nat
      BY <3>2, <3>3, ShapeFacts
    <3>5. PICK k \in T : \A j \in T : k <= j
      BY <3>4, Least
    <3>6. \A j \in Contexts : up[j] = c /\ j < k => Misses(PlacesFromDep[j][q], H)
      <4> TAKE j \in Contexts
      <4>1. j \in Nat /\ k \in Nat
        BY <3>4, ShapeFacts
      <4>2. QED BY <3>5, <4>1
    <3>7. PlacesFromDep[k][q] \in Seq(Spots)
      BY <1>1, PlacesTyped
    <3>8. PICK z \in Spots : Leads(PlacesFromDep[k][q], H, z)
      <4> HIDE DEF H
      <4>1. QED BY <3>7, MissesOrLeads
    <3> DEFINE x == [at |-> z.at, as |-> package[k]]
    <3>9. MetBelow(c, A, x)
      BY <3>5, <3>6, <3>8 DEF MetBelow
    <3> HIDE DEF x
    <3>10. Leads(g, H, x)
      BY <1>10, <3>9, GlobalLeads
    <3>11. QED BY <3>10 DEF Misses, Leads
  <2>5. QED BY <2>3, <2>4
<1> HIDE DEF m, K, g, s, H
<1>11. QED BY <1>3, <1>5, <1>6, <1>7, <1>8, <1>10 DEF m, K

\* What is met lies below the file that asks, and knows the name.
LEMMA MetTyped ==
  ASSUME Shape, NEW c \in Contexts, NEW p \in Qualifiers, NEW A
  PROVE  LET m == MetBy(c, p, A)
         IN  /\ m.at \in Contexts \cup {Nowhere} /\ m.as \in Qualifiers
             /\ m = [at |-> m.at, as |-> m.as]
             /\ m.at # Nowhere => m \in Spots /\ m.at \in Below(c) /\ m.at \in A
<1> DEFINE m == MetBy(c, p, A)
           s == Places(c, p)
           H == In(A)
<1>1. \/ m = [at |-> Nowhere, as |-> Global]
      \/ m \in Spots /\ Leads(s, H, m)
  BY MetLeads
<1>2. CASE m = [at |-> Nowhere, as |-> Global]
  <2> HIDE DEF m
  <2>1. QED BY <1>2, ShapeFacts DEF m
<1>3. CASE m \in Spots /\ Leads(s, H, m)
  <2>1. s \in Seq(Spots)
    BY PlacesSpots
  <2>2. m.at \in A
    BY <1>3 DEF Leads, In
  <2>3. m \in ToSet(s)
    <3> HIDE DEF s, H, m
    <3>1. QED BY <1>3, <2>1, LeadsOnce
  <2>4. m.at \in Below(c)
    BY <1>3, <2>3, PlacesAreBelow
  <2> HIDE DEF m
  <2>5. m.at \in Contexts /\ m.as \in Qualifiers /\ m = [at |-> m.at, as |-> m.as]
    BY <1>3 DEF Spots
  <2>6. QED BY <1>3, <2>2, <2>4, <2>5 DEF m
<1>4. QED BY <1>1, <1>2, <1>3

\* A name that is declared anew in the file d was unknown there: it changes no
\* answer that d or a file before it has got.
LEMMA MetStays ==
  ASSUME Shape, NEW c \in Contexts, NEW d \in Contexts, c <= d, NEW p \in Qualifiers, NEW A,
         MetBy(d, Global, A).at = Nowhere, MetBy(c, p, A).at # Nowhere
  PROVE  MetBy(c, p, A \cup {d}) = MetBy(c, p, A)
<1> DEFINE B == A \cup {d}
<1>1. CASE c # d
  <2> DEFINE s == Places(c, p)
  <2>1. s \in Seq(Spots)
    BY PlacesSpots
  <2>2. \A y \in Spots : y \in ToSet(s) => y.at # d
    <3>1. Below(c) \subseteq 1 .. c
      BY PreorderTyped
    <3>2. c \in Nat /\ d \in Nat
      BY ShapeFacts
    <3>3. d \notin Below(c)
      BY <1>1, <3>1, <3>2
    <3>4. QED BY <3>3, PlacesAreBelow
  <2> HIDE DEF s
  <2>3. \A i \in DOMAIN s : s[i] \in Spots /\ s[i] \in ToSet(s)
    BY <2>1 DEF ToSet
  <2>4. \A x \in Spots : x.at # d => (x \in In(A) <=> x \in In(B))
    BY DEF In
  <2> HIDE DEF B
  <2>5. \A i \in DOMAIN s : s[i] \in In(A) <=> s[i] \in In(B)
    BY <2>2, <2>3, <2>4
  <2>6. Hits(s, In(A)) = Hits(s, In(B))
    BY <2>5 DEF Hits
  <2>7. QED BY <2>6 DEF MetBy, s, B
<1>2. CASE c = d
  <2> DEFINE m == MetBy(c, p, A)
             n == MetBy(c, p, B)
             K == A \cap Of(p)
  <2>1. p # Global
    BY <1>2
  <2>2. /\ m.at = Nowhere <=> Misses(Preorder[c], K)
        /\ m.at # Nowhere => m \in Spots /\ m.as = p /\ Leads(Preorder[c], K, m.at)
    BY <2>1, MetQualified
  <2>3. package[c] # p
    <3> SUFFICES ASSUME package[c] = p PROVE FALSE
      OBVIOUS
    <3>1. Misses(Preorder[c], K)
      BY <1>2, <2>1, MetPlain
    <3>2. QED BY <2>2, <3>1
  <2>4. B \cap Of(p) = K
    BY <1>2, <2>3 DEF Of
  <2>5. /\ n.at = Nowhere <=> Misses(Preorder[c], B \cap Of(p))
        /\ n.at # Nowhere => n \in Spots /\ n.as = p /\ Leads(Preorder[c], B \cap Of(p), n.at)
    <3> HIDE DEF B
    <3>1. QED BY <2>1, MetQualified
  <2>6. Preorder[c] \in Seq(Contexts)
    BY PreorderTyped
  <2> DEFINE t == Preorder[c]
             a == m.at
             b == n.at
  <2>7. a = b
    <3>1. Leads(t, K, a) /\ ~Misses(t, K) /\ (~Misses(t, K) => Leads(t, K, b))
      BY <2>2, <2>4, <2>5
    <3> HIDE DEF t, K, a, b
    <3>2. QED BY <2>6, <3>1, LeadsOnce DEF t
  <2>8. \A x, y \in Spots : x.at = y.at /\ x.as = y.as => x = y
    BY DEF Spots
  <2> HIDE DEF m, n, K, B
  <2>9. m = n
    BY <2>2, <2>4, <2>5, <2>7, <2>8 DEF m
  <2>10. QED BY <2>9 DEF m, n, B
<1>3. QED BY <1>1, <1>2

----------------------------------------------------------------------------
\* The steps.
LEMMA StepEffect ==
  ASSUME Shape, Tables, Next
  PROVE  /\ UNCHANGED <<up, package>> /\ Shape' /\ ~failed /\ now \in Contexts
         /\ Effect
<1>1. UNCHANGED <<up, package>> /\ ~failed /\ now \in Contexts
  <2>1. UNCHANGED <<up, package>> /\ ~failed /\ now <= N
    BY DEF Next, DeclareStruct, DeclareFunction, DefineFunction, UseType, CallFunction, Reads,
           EndOfFile
  <2>2. QED BY <2>1, SomeFile DEF Tables, Contexts
<1>2. Shape'
  BY <1>1 DEF Shape
<1>3. ASSUME NEW n \in Names, ~FunctionClashes(n), Registers(n, "function") PROVE Effect
  <2>1. CASE Met(now, Global, n).at = Nowhere
    BY <1>3, <2>1 DEF Effect
  <2>2. CASE symbol_type[now][n] = "function"
    <3>1. symbol_type' = symbol_type
      BY <1>1, <1>3, <2>2 DEF Registers, Tables
    <3>2. QED BY <3>1 DEF Effect
  <2>3. QED BY <1>3, <2>1, <2>2 DEF FunctionClashes
<1>4. ASSUME NEW n \in Names, DeclareStruct(n) PROVE Effect
  BY <1>4 DEF DeclareStruct, Effect
<1>5. ASSUME NEW n \in Names, DeclareFunction(n) PROVE Effect
  BY <1>3, <1>5 DEF DeclareFunction, Effect
<1>6. ASSUME NEW n \in Names, NEW s \in Signatures, DefineFunction(n, s) PROVE Effect
  BY <1>3, <1>6 DEF DefineFunction, Effect
<1>7. ASSUME NEW p \in Qualifiers, NEW n \in Names, UseType(p, n) PROVE Effect
  BY <1>7 DEF UseType, Effect
<1>8. ASSUME NEW p \in Qualifiers, NEW n \in Names, NEW s \in Signatures, CallFunction(p, n, s)
      PROVE  Effect
  BY <1>8 DEF CallFunction, Effect
<1>9. ASSUME EndOfFile PROVE Effect
  BY <1>9 DEF EndOfFile, Effect
<1>10. QED BY <1>1, <1>2, <1>4, <1>5, <1>6, <1>7, <1>8, <1>9 DEF Next

\* What is known stays known, as what it was, and nothing that was met is met
\* elsewhere.
LEMMA EffectKeeps ==
  ASSUME Shape, Tables, UNCHANGED <<up, package>>, now \in Contexts, Effect
  PROVE  /\ symbol_type' \in [Contexts -> [Names -> {"unknown", "struct", "function"}]]
         /\ \A c \in Contexts : c # now => symbol_type'[c] = symbol_type[c]
         /\ \A c \in Contexts, n \in Names :
              symbol_type[c][n] # "unknown" => symbol_type'[c][n] = symbol_type[c][n]
         /\ \A c \in Contexts, p \in Qualifiers, n \in Names :
              c <= now /\ Met(c, p, n).at # Nowhere => Met(c, p, n)' = Met(c, p, n)
<1>1. ASSUME NEW c \in Contexts, NEW p \in Qualifiers, NEW n
      PROVE  /\ Met(c, p, n) = MetBy(c, p, Knows(n))
             /\ Met(c, p, n)' = MetBy(c, p, Knows(n)')
  BY MetIsMetBy
<1>2. CASE UNCHANGED symbol_type
  <2>1. \A n : Knows(n)' = Knows(n)
    BY <1>2 DEF Knows
  <2>2. \A c \in Contexts, p \in Qualifiers : \A n : Met(c, p, n)' = Met(c, p, n)
    BY <1>1, <2>1
  <2>3. QED BY <1>2, <2>2 DEF Tables
<1>3. ASSUME NEW m \in Names, NEW t \in {"struct", "function"},
             Met(now, Global, m).at = Nowhere, Registers(m, t)
      PROVE  /\ symbol_type' \in [Contexts -> [Names -> {"unknown", "struct", "function"}]]
             /\ \A c \in Contexts : c # now => symbol_type'[c] = symbol_type[c]
             /\ \A c \in Contexts, n \in Names :
                  symbol_type[c][n] # "unknown" => symbol_type'[c][n] = symbol_type[c][n]
             /\ \A c \in Contexts, p \in Qualifiers, n \in Names :
                  c <= now /\ Met(c, p, n).at # Nowhere => Met(c, p, n)' = Met(c, p, n)
  <2>1. Global \in Qualifiers
    BY ShapeFacts
  <2>2. MetBy(now, Global, Knows(m)).at = Nowhere
    BY <1>1, <1>3, <2>1
  <2>3. now \notin Knows(m)
    <3> DEFINE A == Knows(m)
    <3> HIDE DEF A
    <3>1. MetBy(now, Global, A).at = Nowhere => now \notin A
      BY MetPlain
    <3>2. QED BY <2>2, <3>1 DEF A
  <2>4. symbol_type[now][m] = "unknown"
    BY <2>3 DEF Knows
  <2>5. /\ symbol_type' \in [Contexts -> [Names -> {"unknown", "struct", "function"}]]
        /\ \A c \in Contexts : c # now => symbol_type'[c] = symbol_type[c]
        /\ \A n \in Names : n # m => symbol_type'[now][n] = symbol_type[now][n]
        /\ symbol_type'[now][m] = t
    BY <1>3 DEF Registers, Tables
  <2>6. \A n \in Names : Knows(n)' = IF n = m THEN Knows(n) \cup {now} ELSE Knows(n)
    BY <1>3, <2>5 DEF Knows
  <2>7. \A c \in Contexts, n \in Names :
          symbol_type[c][n] # "unknown" => symbol_type'[c][n] = symbol_type[c][n]
    BY <2>4, <2>5
  <2>8. ASSUME NEW c \in Contexts, NEW p \in Qualifiers, NEW n \in Names,
               c <= now, Met(c, p, n).at # Nowhere
        PROVE  Met(c, p, n)' = Met(c, p, n)
    <3>1. CASE n = m
      <4>1. MetBy(c, p, Knows(m) \cup {now}) = MetBy(c, p, Knows(m))
        BY <1>1, <2>2, <2>8, <3>1, MetStays
      <4>2. QED BY <1>1, <2>6, <3>1, <4>1
    <3>2. CASE n # m
      BY <1>1, <2>6, <3>2
    <3>3. QED BY <3>1, <3>2
  <2>9. QED BY <2>5, <2>7, <2>8
<1>4. QED BY <1>2, <1>3 DEF Effect

\* What a file has registered itself it meets itself.
LEMMA MetOwn ==
  ASSUME Shape, now \in Contexts, NEW n \in Names
  PROVE  /\ Met(now, Global, n).at = Nowhere => symbol_type[now][n] = "unknown"
         /\ symbol_type[now][n] # "unknown" => Met(now, Global, n).at = now
         /\ ~FunctionClashes(n) => /\ symbol_type[now][n] \in {"unknown", "function"}
                                   /\ TypeOf(Met(now, Global, n), n) # "struct"
<1> DEFINE A == Knows(n)
           m == Met(now, Global, n)
<1>1. m = MetBy(now, Global, A)
  BY MetIsMetBy, ShapeFacts
<1>2. now \in A <=> symbol_type[now][n] # "unknown"
  BY DEF Knows
<1>3. now # Nowhere
  BY DEF Contexts, Nowhere
<1>4. /\ now \in A => m.at = now
      /\ m.at = Nowhere => now \notin A
  <2> HIDE DEF A, m
  <2>1. /\ now \in A => MetBy(now, Global, A) = [at |-> now, as |-> package[now]]
        /\ MetBy(now, Global, A).at = Nowhere => now \notin A
    BY MetPlain
  <2>2. QED BY <1>1, <2>1
<1>5. ASSUME ~FunctionClashes(n)
      PROVE  /\ symbol_type[now][n] \in {"unknown", "function"}
             /\ TypeOf(m, n) # "struct"
  <2>1. m.at = Nowhere \/ (m.at = now /\ symbol_type[now][n] = "function")
    BY <1>5 DEF FunctionClashes
  <2> HIDE DEF A, m
  <2>2. CASE m.at = Nowhere
    BY <1>2, <1>4, <2>2 DEF TypeOf
  <2>3. CASE m.at = now /\ symbol_type[now][n] = "function"
    BY <1>3, <2>3 DEF TypeOf
  <2>4. QED BY <2>1, <2>2, <2>3
<1>6. QED BY <1>2, <1>4, <1>5

\* Only the file that is being parsed fills its tables.
LEMMA TablesStep ==
  ASSUME Shape, Tables, Next
  PROVE  Tables'
<1>1. ~failed /\ now \in Contexts /\ Effect /\ UNCHANGED <<up, package>>
  BY StepEffect
<1>2. /\ symbol_type' \in [Contexts -> [Names -> {"unknown", "struct", "function"}]]
      /\ \A c \in Contexts : c # now => symbol_type'[c] = symbol_type[c]
      /\ \A c \in Contexts, n \in Names :
           symbol_type[c][n] # "unknown" => symbol_type'[c][n] = symbol_type[c][n]
  BY <1>1, EffectKeeps
<1>3. \A c \in Contexts : c \in Nat /\ now \in Nat
  BY ShapeFacts DEF Tables
<1>4. /\ struct_decl \in [Contexts -> SUBSET Names]
      /\ functions \in [Contexts -> SUBSET (Names \X Signatures)]
      /\ \A c \in Contexts : struct_decl[c] = {n \in Names : symbol_type[c][n] = "struct"}
      /\ \A c \in Contexts : \A f \in functions[c] : symbol_type[c][f[1]] = "function"
      /\ \A c \in Contexts : c > now => \A n \in Names : symbol_type[c][n] = "unknown"
  BY <1>1 DEF Tables
<1>5. ASSUME Reads PROVE now' = now /\ now' \in 1 .. N + 1 /\ read' \in Nat
  BY <1>5 DEF Reads, Tables
<1>6. ASSUME now' = now
      PROVE  \A c \in Contexts : c > now' => \A n \in Names : symbol_type'[c][n] = "unknown"
  BY <1>2, <1>3, <1>4, <1>6
<1>7. \A c \in Contexts : \A f \in functions[c] : symbol_type'[c][f[1]] = "function"
  <2>1. \A c \in Contexts : \A f \in functions[c] : f[1] \in Names
    BY <1>4
  <2>2. QED BY <1>2, <1>4, <2>1
<1>8. ASSUME NEW n \in Names, DeclareStruct(n) PROVE Tables'
  <2> DEFINE m == Met(now, Global, n)
  <2>1. /\ Reads /\ UNCHANGED functions /\ failed' = (m.at # Nowhere)
        /\ struct_decl' = IF TypeOf(m, n) = "struct" THEN struct_decl
                                                     ELSE [struct_decl EXCEPT ![now] = @ \cup {n}]
        /\ m.at = Nowhere => Registers(n, "struct")
    BY <1>8 DEF DeclareStruct
  <2>2. m.at = Nowhere => TypeOf(m, n) # "struct" /\ symbol_type[now][n] = "unknown"
    BY <1>1, MetOwn DEF TypeOf
  <2> HIDE DEF m
  <2>3. /\ struct_decl' \in [Contexts -> SUBSET Names]
        /\ \A c \in Contexts : c # now => struct_decl'[c] = struct_decl[c]
        /\ m.at = Nowhere => struct_decl'[now] = struct_decl[now] \cup {n}
    BY <1>1, <1>4, <2>1, <2>2
  <2>4. ASSUME m.at = Nowhere
        PROVE  struct_decl'[now] = {i \in Names : symbol_type'[now][i] = "struct"}
    <3>1. /\ \A i \in Names : i # n => symbol_type'[now][i] = symbol_type[now][i]
          /\ symbol_type'[now][n] = "struct"
      BY <1>1, <2>1, <2>4 DEF Registers, Tables
    <3>2. QED BY <1>1, <1>4, <2>3, <2>4, <3>1
  <2>5. \A c \in Contexts : ~failed' \/ c # now =>
          struct_decl'[c] = {i \in Names : symbol_type'[c][i] = "struct"}
    <3> TAKE c \in Contexts
    <3>1. CASE c # now
      BY <1>2, <1>4, <2>3, <3>1
    <3>2. CASE c = now
      <4>1. failed' \/ m.at = Nowhere
        BY <2>1
      <4>2. QED BY <2>4, <3>2, <4>1
    <3>3. QED BY <3>1, <3>2
  <2>6. failed' \in BOOLEAN
    BY <2>1
  <2>7. QED BY <1>2, <1>4, <1>5, <1>6, <1>7, <2>1, <2>3, <2>5, <2>6 DEF Tables
<1>9. ASSUME NEW n \in Names, symbol_type[now][n] \in {"unknown", "function"},
             Registers(n, "function")
      PROVE  /\ \A c \in Contexts : struct_decl[c] = {i \in Names : symbol_type'[c][i] = "struct"}
             /\ symbol_type'[now][n] = "function"
  <2>1. /\ \A i \in Names : i # n => symbol_type'[now][i] = symbol_type[now][i]
        /\ symbol_type'[now][n] = "function"
    BY <1>1, <1>9 DEF Registers, Tables
  <2>2. struct_decl[now] = {i \in Names : symbol_type'[now][i] = "struct"}
    BY <1>1, <1>4, <1>9, <2>1
  <2>3. \A c \in Contexts : c # now =>
          struct_decl[c] = {i \in Names : symbol_type'[c][i] = "struct"}
    BY <1>2, <1>4
  <2>4. QED BY <2>1, <2>2, <2>3
<1>10. ASSUME NEW n \in Names, DeclareFunction(n) PROVE Tables'
  <2>1. /\ Reads /\ UNCHANGED <<struct_decl, functions>> /\ failed' \in BOOLEAN
        /\ \A c \in Contexts : struct_decl[c] = {i \in Names : symbol_type'[c][i] = "struct"}
    <3>1. CASE FunctionClashes(n)
      <4>1. UNCHANGED symbol_type /\ Reads /\ UNCHANGED <<struct_decl, functions>> /\ failed' = TRUE
        BY <1>10, <3>1 DEF DeclareFunction
      <4>2. QED BY <1>4, <4>1
    <3>2. CASE ~FunctionClashes(n)
      <4>1. /\ Registers(n, "function") /\ Reads /\ UNCHANGED <<struct_decl, functions>>
            /\ failed' = FALSE
        BY <1>10, <3>2 DEF DeclareFunction
      <4>2. QED BY <1>1, <1>9, <3>2, <4>1, MetOwn
    <3>3. QED BY <3>1, <3>2
  <2>2. QED BY <1>2, <1>4, <1>5, <1>6, <1>7, <2>1 DEF Tables
<1>11. ASSUME NEW n \in Names, NEW s \in Signatures, DefineFunction(n, s) PROVE Tables'
  <2>1. /\ Reads /\ UNCHANGED struct_decl
        /\ failed' = (FunctionClashes(n) \/ <<n, s>> \in functions[now])
        /\ functions' \in {functions, [functions EXCEPT ![now] = @ \cup {<<n, s>>}]}
    BY <1>11 DEF DefineFunction
  <2>2. functions' \in [Contexts -> SUBSET (Names \X Signatures)]
    BY <1>1, <1>4, <2>1
  <2>3. CASE FunctionClashes(n)
    <3>1. UNCHANGED symbol_type /\ failed' = TRUE
      BY <1>11, <2>1, <2>3 DEF DefineFunction
    <3>2. QED BY <1>2, <1>4, <1>5, <1>6, <2>1, <2>2, <3>1 DEF Tables
  <2>4. CASE ~FunctionClashes(n)
    <3>1. Registers(n, "function")
      BY <1>11, <2>4 DEF DefineFunction
    <3>2. /\ \A c \in Contexts : struct_decl[c] = {i \in Names : symbol_type'[c][i] = "struct"}
          /\ symbol_type'[now][n] = "function"
      BY <1>1, <1>9, <2>4, <3>1, MetOwn
    <3>3. \A c \in Contexts : \A f \in functions'[c] :
            f \in functions[c] \/ (c = now /\ f = <<n, s>>)
      BY <1>1, <1>4, <2>1
    <3>4. \A c \in Contexts : \A f \in functions'[c] : symbol_type'[c][f[1]] = "function"
      BY <1>7, <3>2, <3>3
    <3>5. failed' \in BOOLEAN
      BY <2>1, <2>4
    <3>6. QED BY <1>2, <1>5, <1>6, <2>1, <2>2, <3>2, <3>4, <3>5, <1>4 DEF Tables
  <2>5. QED BY <2>3, <2>4
<1>12. ASSUME NEW p \in Qualifiers, NEW n \in Names, UseType(p, n) PROVE Tables'
  <2>1. Reads /\ UNCHANGED <<symbol_type, struct_decl, functions>> /\ failed' \in BOOLEAN
    BY <1>12 DEF UseType
  <2>2. QED BY <1>2, <1>4, <1>5, <1>6, <1>7, <2>1 DEF Tables
<1>13. ASSUME NEW p \in Qualifiers, NEW n \in Names, NEW s \in Signatures, CallFunction(p, n, s)
       PROVE  Tables'
  <2>1. Reads /\ UNCHANGED <<symbol_type, struct_decl, functions>> /\ failed' \in BOOLEAN
    BY <1>13 DEF CallFunction
  <2>2. QED BY <1>2, <1>4, <1>5, <1>6, <1>7, <2>1 DEF Tables
<1>14. ASSUME EndOfFile PROVE Tables'
  <2>1. /\ UNCHANGED <<symbol_type, struct_decl, functions>> /\ failed' \in BOOLEAN
        /\ now' \in {now, now + 1} /\ read' \in {read, 0}
    BY <1>1, <1>14 DEF EndOfFile, Tables
  <2>2. now' \in 1 .. N + 1 /\ read' \in Nat
    BY <1>1, <2>1, SomeFile DEF Tables, Contexts
  <2>3. \A c \in Contexts : c > now' => c > now
    BY <1>3, <2>1
  <2>4. QED BY <1>2, <1>4, <2>1, <2>2, <2>3 DEF Tables
<1>15. QED BY <1>8, <1>10, <1>11, <1>12, <1>13, <1>14 DEF Next

\* A name is registered only if no file below has it in the package; those above
\* have not begun.
LEMMA NoRedeclarationStep ==
  ASSUME Shape, Tables, NoRedeclaration, Next
  PROVE  NoRedeclaration'
<1>1. ~failed /\ now \in Contexts /\ Effect /\ UNCHANGED <<up, package>>
  BY StepEffect
<1>2. \A c \in Contexts : Below(c)' = Below(c)
  BY <1>1, TreeStays DEF Below
<1>3. SUFFICES ASSUME NEW c \in Contexts, NEW d \in Below(c) \ {c}, package[c] = package[d],
                      NEW n \in Names,
                      symbol_type'[c][n] # "unknown", symbol_type'[d][n] # "unknown"
               PROVE  FALSE
  BY <1>1, <1>2 DEF NoRedeclaration
<1>4. d \in Contexts /\ d < c /\ c \in Nat /\ d \in Nat /\ now \in Nat /\ c <= N /\ now <= N
  <2>1. c \in Nat /\ now \in Nat /\ c <= N /\ now <= N
    BY <1>1, ShapeFacts
  <2>2. d \in 1 .. c
    BY PreorderTyped
  <2>3. QED BY <2>1, <2>2, SomeFile DEF Contexts
<1>5. symbol_type[c][n] = "unknown" \/ symbol_type[d][n] = "unknown"
  BY <1>1, <1>3 DEF NoRedeclaration
<1>6. ~(symbol_type' = symbol_type)
  BY <1>3, <1>5
<1>7. PICK m \in Names, t \in {"struct", "function"} :
        Met(now, Global, m).at = Nowhere /\ Registers(m, t)
  BY <1>1, <1>6 DEF Effect
<1>8. \A e \in Contexts : e # now \/ n # m => symbol_type'[e][n] = symbol_type[e][n]
  BY <1>1, <1>7 DEF Registers, Tables
<1>9. CASE d = now
  <2>1. symbol_type[c][n] = "unknown"
    BY <1>4, <1>9 DEF Tables
  <2>2. QED BY <1>3, <1>4, <1>8, <1>9, <2>1
<1>10. CASE c = now /\ n = m
  <2> DEFINE A == Knows(n)
             K == A \cap Of(package[now])
  <2>1. MetBy(now, Global, A).at = Nowhere
    BY <1>1, <1>7, <1>10, MetIsMetBy, ShapeFacts
  <2>2. package[now] # Global
    <3>1. d # N
      BY <1>4, SomeFile
    <3>2. QED BY <1>3, <1>4, <1>10, <3>1 DEF Shape
  <2>3. Misses(Preorder[now], K)
    <3> HIDE DEF A
    <3>1. QED BY <1>1, <2>1, <2>2, MetPlain
  <2>4. Preorder[now] \in Seq(Contexts)
    BY <1>1, PreorderTyped
  <2>5. ToSet(Preorder[now]) \cap K = {}
    <3> HIDE DEF K
    <3>1. QED BY <2>3, <2>4, MissesOrLeads
  <2>6. d \in K
    <3>1. symbol_type[d][n] # "unknown"
      BY <1>3, <1>4, <1>8, <1>10
    <3>2. QED BY <1>3, <1>4, <1>10, <3>1 DEF Knows, Of
  <2>7. QED BY <1>3, <1>10, <2>5, <2>6 DEF Below
<1>11. CASE d # now /\ ~(c = now /\ n = m)
  BY <1>3, <1>4, <1>5, <1>8, <1>11
<1>12. QED BY <1>9, <1>10, <1>11

\* What was met stands after any step, and what is met now is recorded as it is.
LEMMA AnswersStep ==
  ASSUME Shape, Tables, Answers, Next
  PROVE  Answers'
<1>1. /\ ~failed /\ now \in Contexts /\ Effect /\ UNCHANGED <<up, package>>
      /\ Global \in Qualifiers /\ now \in Nat
  BY StepEffect, ShapeFacts
<1>2. /\ \A c \in Contexts, n \in Names :
           symbol_type[c][n] # "unknown" => symbol_type'[c][n] = symbol_type[c][n]
      /\ \A c \in Contexts, p \in Qualifiers, n \in Names :
           c <= now /\ Met(c, p, n).at # Nowhere => Met(c, p, n)' = Met(c, p, n)
  BY <1>1, EffectKeeps
<1>3. ASSUME NEW u \in Use, u.by <= now, Stands(u) PROVE Stands(u)'
  <2>1. u.by \in Contexts /\ u.prefix \in Qualifiers /\ u.name \in Names
    BY DEF Use
  <2>2. CASE u.met = Nowhere
    BY <2>2 DEF Stands
  <2>3. CASE u.met # Nowhere
    <3>1. Met(u.by, u.prefix, u.name)' = Met(u.by, u.prefix, u.name)
      BY <1>2, <1>3, <2>1, <2>3 DEF Stands
    <3>2. QED BY <1>3, <3>1 DEF Stands
  <2>4. QED BY <2>2, <2>3
<1>4. ASSUME NEW u \in Use, IsStruct(u) PROVE IsStruct(u)'
  BY <1>2, <1>4 DEF IsStruct, Use
<1>5. /\ \A u \in uses : u \in Use /\ u.by = now /\ Stands(u) /\ IsStruct(u)
      /\ \A u \in resolved : u \in Use /\ u.by < now /\ Stands(u) /\ IsStruct(u) /\ u.by \in Nat
  <2>1. \A u \in Use : u.by \in Nat
    BY ShapeFacts DEF Use
  <2>2. QED BY <1>1, <2>1 DEF Answers, Uses
<1>6. /\ \A u \in uses : u \in Use /\ u.by = now /\ Stands(u)' /\ IsStruct(u)'
      /\ \A u \in resolved : u \in Use /\ u.by < now /\ Stands(u)' /\ IsStruct(u)'
  <2>1. \A u \in uses : u.by <= now
    BY <1>1, <1>5
  <2>2. \A u \in resolved : u.by <= now
    BY <1>1, <1>5
  <2>3. QED BY <1>3, <1>4, <1>5, <2>1, <2>2
<1>7. ASSUME now' = now, UNCHANGED <<uses, resolved>> PROVE Answers'
  BY <1>6, <1>7 DEF Answers, Uses
<1>8. ASSUME NEW n \in Names, DeclareStruct(n) PROVE Answers'
  BY <1>7, <1>8 DEF DeclareStruct, Reads
<1>9. ASSUME NEW n \in Names, DeclareFunction(n) PROVE Answers'
  BY <1>7, <1>9 DEF DeclareFunction, Reads
<1>10. ASSUME NEW n \in Names, NEW s \in Signatures, DefineFunction(n, s) PROVE Answers'
  BY <1>7, <1>10 DEF DefineFunction, Reads
\* A use that is read.
<1>11. ASSUME NEW v, v \in Use, v.by = now, Stands(v), now' = now,
              uses' = uses \cup {v}, resolved' = resolved, failed' \/ IsStruct(v)
       PROVE  Answers'
  <2>1. Stands(v)'
    BY <1>1, <1>3, <1>11
  <2>2. failed' \/ IsStruct(v)'
    BY <1>4, <1>11
  <2>3. QED BY <1>6, <1>11, <2>1, <2>2 DEF Answers, Uses
<1>12. ASSUME NEW p \in Qualifiers, NEW n \in Names
       PROVE  LET m == Met(now, p, n)
              IN  /\ m.at \in Contexts \cup {Nowhere} /\ m.as \in Qualifiers
                  /\ TypeOf(m, n) # "unknown" =>
                       m.at \in Contexts /\ symbol_type[m.at][n] = TypeOf(m, n)
  <2> DEFINE m == Met(now, p, n)
  <2>1. m.at \in Contexts \cup {Nowhere} /\ m.as \in Qualifiers
    <3>1. m = MetBy(now, p, Knows(n))
      BY <1>1, MetIsMetBy
    <3>2. QED BY <1>1, <3>1, MetTyped
  <2> HIDE DEF m
  <2>2. QED BY <2>1 DEF TypeOf, m
<1>13. ASSUME NEW p \in Qualifiers, NEW n \in Names, UseType(p, n) PROVE Answers'
  <2> DEFINE m == Met(now, p, n)
             v == [sort |-> "type", by |-> now, prefix |-> p, name |-> n,
                   met |-> m.at, full |-> m.as, decl |-> Nowhere]
  <2>1. /\ now' = now /\ uses' = uses \cup {v} /\ resolved' = resolved
        /\ failed' = (TypeOf(m, n) # "struct")
    BY <1>13 DEF UseType, Reads
  <2>2. v \in Use
    BY <1>1, <1>12 DEF Use
  <2>3. Stands(v) /\ v.by = now
    BY DEF Stands
  <2>4. failed' \/ IsStruct(v)
    <3>1. failed' \/ TypeOf(m, n) = "struct"
      BY <2>1
    <3>2. TypeOf(m, n) = "struct" => IsStruct(v)
      BY <1>12 DEF IsStruct
    <3>3. QED BY <3>1, <3>2
  <2> HIDE DEF v, m
  <2>5. QED BY <1>11, <2>1, <2>2, <2>3, <2>4
<1>14. ASSUME NEW p \in Qualifiers, NEW n \in Names, NEW s \in Signatures, CallFunction(p, n, s)
       PROVE  Answers'
  <2> DEFINE m == Met(now, p, n)
             v == [sort |-> s, by |-> now, prefix |-> p, name |-> n, met |-> m.at,
                   full |-> IF p = Global THEN Global ELSE m.as, decl |-> Nowhere]
  <2>1. now' = now /\ uses' = uses \cup {v} /\ resolved' = resolved
    BY <1>14 DEF CallFunction, Reads
  <2>2. v \in Use
    BY <1>1, <1>12 DEF Use
  <2>3. s # "type"
    BY TypeIsNoSignature
  <2>4. Stands(v) /\ v.by = now /\ IsStruct(v)
    BY <2>3 DEF Stands, IsStruct
  <2> HIDE DEF v, m
  <2>5. QED BY <1>11, <2>1, <2>2, <2>4
<1>15. ASSUME EndOfFile PROVE Answers'
  <2>1. CASE now' = now
    BY <1>7, <1>15, <2>1, <1>1 DEF EndOfFile
  <2>2. CASE now' # now
    <3> DEFINE found == {[u EXCEPT !.decl = DeclarationOf(u)] : u \in uses}
    <3>1. now' = now + 1 /\ uses' = {} /\ resolved' = resolved \cup found
      BY <1>15, <2>2 DEF EndOfFile
    <3>2. ASSUME NEW v \in found
          PROVE  v \in Use /\ v.by = now /\ Stands(v)' /\ IsStruct(v)'
      <4>1. PICK u \in uses : v = [u EXCEPT !.decl = DeclarationOf(u)]
        OBVIOUS
      <4>2. u \in Use /\ u.by = now /\ Stands(u)' /\ IsStruct(u)'
        BY <1>6
      <4>3. DeclarationOf(u) \in Contexts \cup {Nowhere}
        BY <4>2, FirstInLeads DEF DeclarationOf, LookupType, LookupFunction, Use
      <4>4. /\ v \in Use /\ v.by = u.by /\ v.sort = u.sort /\ v.prefix = u.prefix
            /\ v.name = u.name /\ v.met = u.met /\ v.full = u.full
        BY <4>1, <4>2, <4>3 DEF Use
      <4>5. QED BY <4>2, <4>4 DEF Stands, IsStruct
    <3> HIDE DEF found
    <3>3. \A u \in resolved : u.by < now'
      BY <1>1, <1>5, <3>1
    <3>4. now < now'
      BY <1>1, <3>1
    <3>5. QED BY <1>6, <3>1, <3>2, <3>3, <3>4 DEF Answers, Uses
  <2>3. QED BY <2>1, <2>2
<1>16. QED BY <1>8, <1>9, <1>10, <1>13, <1>14, <1>15 DEF Next

\* At the start nothing is known and nothing has been asked.
LEMMA InitInv ==
  ASSUME Init
  PROVE  ContextsInv
<1>1. N \in Contexts /\ N \in Nat /\ 1 \in 1 .. N + 1
  BY SomeFile DEF Contexts
<1>2. Shape
  <2>1. /\ up \in [Contexts -> Contexts \cup {Nowhere}]
        /\ \A c \in Contexts : up[c] = Nowhere <=> c = N
        /\ \A c \in Contexts \ {N} : up[c] > c
    BY DEF Init, Postorder
  <2>2. /\ package \in [Contexts -> Qualifiers]
        /\ \A c \in Contexts \ {N} : package[c] # Global
    BY DEF Init
  <2>3. QED BY <1>1, <2>1, <2>2 DEF Shape
<1>3. Tables
  BY <1>1 DEF Init, Tables
<1>4. Answers
  BY DEF Init, Answers, Uses
<1>5. NoRedeclaration
  <2>1. \A c \in Contexts : Below(c) \subseteq Contexts
    <3>1. \A c \in Contexts : Preorder[c] \in Seq(Contexts)
      BY <1>2, PreorderTyped
    <3>2. QED BY <3>1 DEF Below, ToSet
  <2>2. \A d \in Contexts, n \in Names : symbol_type[d][n] = "unknown"
    BY DEF Init
  <2>3. QED BY <2>1, <2>2 DEF NoRedeclaration
<1>6. QED BY <1>2, <1>3, <1>4, <1>5 DEF ContextsInv

\* Every step preserves the invariant.
LEMMA StepInv ==
  ASSUME ContextsInv, [Next]_vars
  PROVE  ContextsInv'
<1>1. CASE Next
  BY <1>1, StepEffect, TablesStep, AnswersStep, NoRedeclarationStep DEF ContextsInv
<1>2. CASE UNCHANGED vars
  <2>1. Shape' /\ Tables'
    BY <1>2 DEF vars, ContextsInv, Shape, Tables
  <2>2. UNCHANGED <<up, package>>
    BY <1>2 DEF vars
  <2>3. \A c \in Contexts : Below(c)' = Below(c)
    BY <2>2, TreeStays DEF Below
  <2>4. NoRedeclaration'
    BY <1>2, <2>3 DEF vars, ContextsInv, NoRedeclaration
  <2>5. Answers'
    <3>1. \A c, p, n : Met(c, p, n)' = Met(c, p, n)
      <4> TAKE c, p, n
      <4>1. symbol_type' = symbol_type /\ Places(c, p)' = Places(c, p)
        BY <1>2, <2>2, TreeStays DEF vars
      <4>2. QED BY <4>1, Zenon DEF Met
    <3>2. Uses' = Uses
      BY <1>2 DEF vars, Uses
    <3>3. \A u : Stands(u)' <=> Stands(u)
      BY <3>1 DEF Stands
    <3>4. \A u : IsStruct(u)' <=> IsStruct(u)
      BY <1>2 DEF vars, IsStruct
    <3>5. QED BY <1>2, <3>2, <3>3, <3>4 DEF vars, ContextsInv, Answers
  <2>6. QED BY <2>1, <2>4, <2>5 DEF ContextsInv
<1>3. QED BY <1>1, <1>2

\* The inductive invariant.
LEMMA ContextsInductive == Spec => []ContextsInv
<1>1. Init => ContextsInv
  BY InitInv
<1>2. ContextsInv /\ [Next]_vars => ContextsInv'
  BY StepInv
<1>3. QED BY <1>1, <1>2, PTL DEF Spec

----------------------------------------------------------------------------
\* The tables of all files: what is registered as a structure is declared, what is
\* defined is registered as a function, and a file that has not begun knows nothing.
THEOREM TypeCorrect == Spec => []TypeOK
<1>1. ContextsInv => TypeOK
  BY DEF ContextsInv, Tables, TypeOK
<1>2. QED BY <1>1, ContextsInductive, PTL

\* The full name that goes into the tree never has another package than the one
\* that is written (LookupSymbolTypeFromDep, context.cc).
THEOREM PackageKeptProved == Spec => []PackageKept
<1>1. ASSUME ContextsInv PROVE PackageKept
  <2>1. ASSUME NEW u \in Uses, u.prefix # Global, u.met # Nowhere PROVE u.full = u.prefix
    <3>1. u \in Use /\ Stands(u)
      BY <1>1 DEF ContextsInv, Answers, Uses
    <3> DEFINE m == Met(u.by, u.prefix, u.name)
    <3>2. m.at = u.met /\ m.as = u.full
      BY <2>1, <3>1 DEF Stands
    <3>3. m.as = u.prefix
      <4> DEFINE A == Knows(u.name)
                 x == MetBy(u.by, u.prefix, A)
      <4>1. Shape /\ u.by \in Contexts /\ u.prefix \in Qualifiers
        BY <1>1, <3>1 DEF ContextsInv, Use
      <4>2. m = x
        BY <4>1, MetIsMetBy
      <4>3. x.at # Nowhere => x.as = u.prefix
        <5> HIDE DEF A
        <5>1. QED BY <2>1, <4>1, MetQualified
      <4>4. QED BY <2>1, <3>2, <4>2, <4>3
    <3>4. QED BY <3>2, <3>3
  <2>2. QED BY <2>1 DEF PackageKept
<1>2. QED BY <1>1, ContextsInductive, PTL

\* Where the tokenizer has met a name, it would meet it after everything that is
\* declared later, in this file or in any that is parsed after it.
THEOREM AnswerStaysProved == Spec => []AnswerStays
<1>1. ContextsInv => AnswerStays
  BY DEF ContextsInv, Answers, Uses, Stands, AnswerStays
<1>2. QED BY <1>1, ContextsInductive, PTL

\* REGISTER_STRUCT and REGISTER_FUNCDECL let no name of a package be declared by
\* two files of an include path.
THEOREM NoRedeclarationProved == Spec => []NoRedeclaration
<1>1. ContextsInv => NoRedeclaration
  BY DEF ContextsInv
<1>2. QED BY <1>1, ContextsInductive, PTL

\* Among fewer, what led still leads.
LEMMA Narrower ==
  ASSUME NEW X, NEW s \in Seq(X), NEW H, NEW x, Leads(s, H, x),
         NEW G, x \in G, G \cap ToSet(s) \subseteq H
  PROVE  Leads(s, G, x)
<1>1. \A i \in DOMAIN s : s[i] \in ToSet(s)
  BY DEF ToSet
<1>2. QED BY <1>1 DEF Leads

\* LookupType in a package finds the structure that the tokenizer has met there.
LEMMA LookupFinds ==
  ASSUME ContextsInv, NEW u \in Uses, u.sort = "type", NEW q \in Qualifiers,
         Leads(Preorder[u.by], Knows(u.name) \cap Of(q), u.met)
  PROVE  FirstIn(u.by, {d \in Contexts : package[d] = q /\ u.name \in struct_decl[d]}) = u.met
<1> DEFINE c == u.by
           n == u.name
           a == u.met
           H == Knows(n) \cap Of(q)
           G == {d \in Contexts : package[d] = q /\ n \in struct_decl[d]}
           s == Preorder[c]
<1>1. /\ Shape /\ Tables /\ c \in Contexts /\ n \in Names /\ a \in Contexts
      /\ symbol_type[a][n] = "struct"
  BY DEF ContextsInv, Answers, Uses, IsStruct, Use
<1>2. s \in Seq(Contexts) /\ Below(c) \subseteq 1 .. c /\ Below(c) \subseteq Contexts
  <2>1. s \in Seq(Contexts) /\ Below(c) \subseteq 1 .. c
    BY <1>1, PreorderTyped
  <2> HIDE DEF c
  <2>2. Below(c) \subseteq Contexts
    BY <2>1 DEF Below, ToSet
  <2>3. QED BY <2>1, <2>2
<1>3. a \in Below(c) /\ a \in H
  <2> HIDE DEF a, H, s
  <2>1. Leads(s, H, a)
    BY DEF a, H, s
  <2>2. QED BY <1>2, <2>1, LeadsOnce DEF s, Below
<1>4. \A d \in Below(c) : ~failed \/ d # now
  <2>1. ~failed \/ c < now
    BY DEF ContextsInv, Answers, Uses
  <2>2. c \in Nat /\ now \in Nat
    BY <1>1, ShapeFacts DEF Tables
  <2> HIDE DEF c
  <2>3. QED BY <1>2, <2>1, <2>2
<1>5. \A d \in Below(c) : n \in struct_decl[d] <=> symbol_type[d][n] = "struct"
  <2> HIDE DEF c, n
  <2>1. QED BY <1>1, <1>2, <1>4 DEF Tables
<1>6. a \in G
  BY <1>1, <1>3, <1>5 DEF Of
<1>7. G \cap ToSet(s) \subseteq H
  <2>1. ToSet(s) = Below(c)
    BY DEF Below
  <2> HIDE DEF c, n, s
  <2>2. QED BY <1>2, <1>5, <2>1 DEF Knows, Of
<1>8. Leads(s, G, a)
  <2>1. Leads(s, H, a)
    OBVIOUS
  <2> HIDE DEF s, G, H, a
  <2>2. QED BY <1>2, <1>6, <1>7, <2>1, Narrower
<1> HIDE DEF c, G, a
<1>9. FirstIn(c, G) = a
  BY <1>1, <1>8, FirstInLeads DEF s
<1>10. QED BY <1>9 DEF c, G, a

\* The declaration that LookupType finds for the full name is the one that the
\* tokenizer has met, under the conditions of MeansDeclarationUnmixed.
THEOREM MeansDeclarationProved == Spec => []MeansDeclarationUnmixed
<1>1. ASSUME ContextsInv, Unmixed, NEW u \in Uses, u.sort = "type",
             package[u.met] = IF u.prefix = Global THEN package[u.by] ELSE u.prefix
      PROVE  DeclarationOf(u) = u.met
  <2> DEFINE c == u.by
             n == u.name
             q == package[c]
             A == Knows(n)
             m == MetBy(c, u.prefix, A)
             Found(p) == FirstIn(c, {d \in Contexts : package[d] = p /\ n \in struct_decl[d]})
  <2>1. /\ Shape /\ u \in Use /\ c \in Contexts /\ n \in Names /\ u.prefix \in Qualifiers
        /\ u.met \in Contexts /\ symbol_type[u.met][n] = "struct" /\ Stands(u)
        /\ q \in Qualifiers
    <3>1. Shape /\ u \in Use /\ IsStruct(u) /\ Stands(u)
      BY <1>1 DEF ContextsInv, Answers, Uses
    <3>2. QED BY <1>1, <3>1, ShapeFacts DEF IsStruct, Use
  <2>2. u.met # Nowhere
    BY <2>1 DEF Contexts, Nowhere
  <2>3. m.at = u.met /\ m.as = u.full
    BY <1>1, <2>1, <2>2, MetIsMetBy DEF Stands
  <2>4. ASSUME NEW p \in Qualifiers, Leads(Preorder[c], A \cap Of(p), u.met)
        PROVE  Found(p) = u.met
    BY <1>1, <2>4, LookupFinds
  <2>5. DeclarationOf(u) = IF u.full = Global /\ Found(q) # Nowhere THEN Found(q) ELSE Found(u.full)
    BY <1>1 DEF DeclarationOf, LookupType
  <2>6. CASE u.prefix # Global
    <3>1. m.as = u.prefix /\ Leads(Preorder[c], A \cap Of(u.prefix), m.at)
      <4> HIDE DEF A
      <4>1. QED BY <2>1, <2>2, <2>3, <2>6, MetQualified
    <3>2. Found(u.prefix) = u.met
      BY <2>1, <2>3, <2>4, <3>1
    <3> HIDE DEF Found, m
    <3>3. QED BY <2>3, <2>5, <2>6, <3>1, <3>2
  <2>7. CASE u.prefix = Global /\ c \in A
    <3>1. m = [at |-> c, as |-> q]
      <4> HIDE DEF A
      <4>1. QED BY <2>1, <2>7, MetPlain
    <3>2. c \in A \cap Of(q) /\ u.met = c /\ u.full = q
      BY <2>1, <2>3, <2>7, <3>1 DEF Of
    <3>3. Leads(Preorder[c], A \cap Of(q), c)
      <4> DEFINE K == A \cap Of(q)
      <4>1. c \in K
        BY <3>2
      <4> HIDE DEF K, c
      <4>2. Leads(Preorder[c], K, c) <=>
              (c = c /\ c \in K) \/ (c \notin K /\ FirstBelow(c, K, c))
        BY <2>1, PreorderLeads
      <4>3. QED BY <4>1, <4>2 DEF K
    <3>4. Found(q) = u.met
      BY <2>1, <2>4, <3>2, <3>3
    <3> HIDE DEF Found
    <3>5. QED BY <2>5, <3>2, <3>4
  <2>8. CASE u.prefix = Global /\ c \notin A
    <3>1. u.met \in A /\ u.met # c
      <4>1. u.met \in A
        BY <2>1 DEF Knows
      <4>2. QED BY <2>8, <4>1
    <3>2. u.met \in Below(c) /\ package[u.met] = q
      <4>1. m.at # Nowhere => m.at \in Below(c)
        <5> HIDE DEF A
        <5>1. QED BY <2>1, MetTyped
      <4>2. QED BY <1>1, <2>2, <2>3, <2>8, <4>1
    <3>3. q # Global
      <4>1. Below(c) \subseteq 1 .. c /\ c \in Nat /\ c <= N
        BY <2>1, PreorderTyped, ShapeFacts
      <4>2. u.met \in Nat /\ u.met < c
        BY <2>1, <3>1, <3>2, <4>1
      <4>3. u.met # N
        BY <4>1, <4>2, SomeFile
      <4>4. QED BY <2>1, <3>2, <4>3 DEF Shape
    <3>4. /\ Leads(Preorder[c], A \cap Of(q), u.met)
          /\ \E k \in Contexts : up[k] = c /\ u.met \in Below(k) /\ u.full = package[k]
      <4>1. /\ Leads(Preorder[c], A \cap Of(q), m.at)
            /\ CameBy(c, m)
        <5> DEFINE B == A
                   x == MetBy(c, Global, B)
        <5>1. x.at # Nowhere /\ c \notin B
          BY <2>2, <2>3, <2>8
        <5> HIDE DEF B
        <5>2. /\ Leads(Preorder[c], B \cap Of(package[c]), x.at)
              /\ CameBy(c, x)
          <6> HIDE DEF x, c
          <6>1. QED BY <2>1, <3>3, <5>1, MetPlain DEF x
        <5>3. QED BY <2>8, <5>2 DEF B
      <4>2. QED BY <2>3, <4>1 DEF CameBy
    <3>5. PICK k \in Contexts : up[k] = c /\ u.met \in Below(k) /\ u.full = package[k]
      BY <3>4
    <3>6. k \in Below(c)
      <4>1. k \in Below(k)
        BY <2>1, PreorderLeads
      <4>2. QED BY <2>1, <3>5, <4>1, PreorderLeads
    <3>7. u.full = q
      BY <1>1, <2>1, <3>2, <3>5, <3>6 DEF Unmixed
    <3>8. Found(q) = u.met
      BY <2>1, <2>4, <3>4
    <3> HIDE DEF Found
    <3>9. QED BY <2>5, <3>7, <3>8
  <2>9. QED BY <2>6, <2>7, <2>8
<1>2. ContextsInv => MeansDeclarationUnmixed
  BY <1>1 DEF MeansDeclarationUnmixed
<1>3. QED BY <1>2, ContextsInductive, PTL
=============================================================================
