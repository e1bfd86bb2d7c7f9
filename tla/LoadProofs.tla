------------------------------ MODULE LoadProofs ------------------------------
(***************************************************************************)
(* What Load makes of the texts, for all files, texts and keys: a program  *)
(* that is through has one child for every file its text asks for, in the  *)
(* order of the text (ChildrenAreAsked), and Load succeeds exactly if all  *)
(* that is needed can be loaded (VerdictProved).                           *)
(*                                                                         *)
(* The invariant follows the reading: an activation that has come to the   *)
(* n-th statement has stored the paths of the statements before it, and    *)
(* has made one child for each of them that loads a file.  An error is     *)
(* reason enough for Load to fail, and nothing is known of what it leaves. *)
(***************************************************************************)
EXTENDS LinkerProofs, FiniteSetTheorems

\* The #includes of the statements t that make OnAddInclude load a file.
Kept(t) ==
  {i \in DOMAIN t :
     /\ t[i].op = "include"
     /\ t[i].quoted \/ \A j \in 1 .. i - 1 : t[j].op = "include" => t[j].file # t[i].file}

\* The part of S below n, and the place of i in S.
Below(S, n) == {i \in S : i < n}
Rank(S, i) == Cardinality({j \in S : j <= i})

\* An error of the preprocessor, wherever in the file f it is.
Spoiled(f) ==
  LET t == text[f] IN
  \/ \E i \in DOMAIN t : t[i].op = "broken"
  \/ \E i, j \in DOMAIN t : i # j /\ t[i].op = "package" /\ t[j].op = "package"

\* The paths the program p has stored are those of the #includes before the n-th
\* statement.
PathsRead(p, n) ==
  LET t == TextOf(p) IN
  /\ \A f \in programs[p].includes :
       \E i \in DOMAIN t : i < n /\ t[i].op = "include" /\ t[i].file = f
  /\ n \in DOMAIN t =>
       \A i \in DOMAIN t : i < n /\ t[i].op = "include" => t[i].file \in programs[p].includes

\* p has read the statements before the n-th without an error, and has a child for
\* every file they ask for, in their order.
ReadWell(p, n) ==
  LET t == TextOf(p) IN
  /\ \A i \in DOMAIN t : i < n => t[i].op # "broken"
  /\ \A i, j \in DOMAIN t :
       i < n /\ j < n /\ t[i].op = "package" /\ t[j].op = "package" => i = j
  /\ programs[p].package <=> \E i \in DOMAIN t : i < n /\ t[i].op = "package"
  /\ Len(ChildrenOf(p)) = Cardinality(Below(Kept(t), n))
  /\ \A i \in Below(Kept(t), n) :
       programs[ChildrenOf(p)[Rank(Kept(t), i)]].file = t[i].file

\* The end of the text of p.
Behind(p) == Len(TextOf(p)) + 1

\* What is known of the programs while no error has been met.
ProgramsSoFar ==
  /\ 1 \in Programs /\ programs[1].file = Root
  /\ \A p \in Programs :
       /\ programs[p].file \in Needed \cap disk
       /\ p # 1 => programs[p].parent \in Programs
       /\ programs[p].wrong => Spoiled(programs[p].file)
       /\ programs[p].context => ReadWell(p, Behind(p))
       /\ programs[p].parsed = "ok" => programs[p].file \in sound

\* What the activations of Preprocess have read: each stands at its own program,
\* and a program that has met a broken statement is not said to be read well.
StackSoFar ==
  /\ \A i, j \in DOMAIN stack : stack[i].prog = stack[j].prog => i = j
  /\ \A i \in DOMAIN stack :
       LET p == stack[i].prog IN
       /\ ~programs[p].context
       /\ PathsRead(p, stack[i].at)
       /\ ~programs[p].wrong => ReadWell(p, stack[i].at)

\* The parser starts when every text is read; it enters no program without a
\* package but the root.
ParseSoFar ==
  \A p \in Programs :
    /\ programs[p].context
    /\ p # 1 /\ (programs[p].parsed = "ok" \/ OnStack(p)) => programs[p].package

\* The inductive invariant, beside LinkInv.
LoadInv ==
  /\ failed => ~Loadable
  /\ phase = "parse" => ~failed
  /\ phase = "done" => failed \/ result
  /\ result => phase = "done" /\ ~failed /\ programs[1].parsed = "ok"
  /\ ~failed => ProgramsSoFar
  /\ ~failed /\ phase = "preprocess" => StackSoFar
  /\ ~failed /\ phase # "preprocess" => ParseSoFar
----------------------------------------------------------------------------
\* Counting.

\* A set of numbers that is not empty has a least one.
LEMMA Least ==
  ASSUME NEW T \in SUBSET Nat, T # {}
  PROVE  \E m \in T : \A n \in T : m <= n
<1>1. IsWellFoundedOn(OpToRel(<, Nat), Nat)
  BY NatLessThanWellFounded
<1>2. PICK m \in T : \A n \in T : ~(<<n, m>> \in OpToRel(<, Nat))
  BY <1>1, WFMin
<1>3. ASSUME NEW n \in T PROVE m <= n
  <2>1. m \in Nat /\ n \in Nat
    OBVIOUS
  <2>2. ~(n < m)
    BY <1>2, <2>1 DEF OpToRel
  <2>3. QED BY <2>1, <2>2
<1>4. QED BY <1>3

\* The elements of a finite set of numbers are ranked from 1 to its size.
LEMMA RankType ==
  ASSUME NEW S \in SUBSET Nat, IsFiniteSet(S), NEW i \in S
  PROVE  Rank(S, i) \in 1 .. Cardinality(S) /\ Cardinality(S) \in Nat
<1> DEFINE U == {j \in S : j <= i}
<1>1. Cardinality(S) \in Nat
  BY FS_CardinalityType
<1>2. IsFiniteSet(U) /\ Cardinality(U) <= Cardinality(S) /\ Cardinality(U) \in Nat
  BY FS_Subset, FS_CardinalityType
<1>3. Cardinality(U) # 0
  BY <1>2, FS_EmptySet
<1>4. QED BY <1>1, <1>2, <1>3 DEF Rank

LEMMA RankGrows ==
  ASSUME NEW S \in SUBSET Nat, IsFiniteSet(S), NEW i \in S, NEW k \in S, i < k
  PROVE  Rank(S, i) < Rank(S, k)
<1> DEFINE U == {j \in S : j <= i}
           V == {j \in S : j <= k}
<1>1. IsFiniteSet(U) /\ IsFiniteSet(V) /\ Cardinality(U) \in Nat /\ Cardinality(V) \in Nat
  BY FS_Subset, FS_CardinalityType
<1>2. U \cup {k} \subseteq V /\ k \notin U
  <2>1. i \in Nat /\ k \in Nat /\ \A j \in S : j \in Nat
    OBVIOUS
  <2>2. k <= k /\ \A j \in S : j <= i => j <= k /\ j # k
    BY <2>1
  <2>3. QED BY <2>1, <2>2
<1>3. Cardinality(U \cup {k}) = Cardinality(U) + 1
  BY <1>1, <1>2, FS_AddElement
<1>4. Cardinality(U \cup {k}) <= Cardinality(V)
  BY <1>1, <1>2, FS_Subset
<1>5. QED BY <1>1, <1>3, <1>4 DEF Rank

LEMMA RankOnce ==
  ASSUME NEW S \in SUBSET Nat, IsFiniteSet(S), NEW i \in S, NEW k \in S,
         Rank(S, i) = Rank(S, k)
  PROVE  i = k
<1>1. Rank(S, i) \in Nat
  BY RankType
<1>2. ~(i < k) /\ ~(k < i)
  BY <1>1, RankGrows
<1>3. QED BY <1>2

LEMMA RankReached ==
  ASSUME NEW S \in SUBSET Nat, IsFiniteSet(S), NEW n \in 1 .. Cardinality(S)
  PROVE  \E i \in S : Rank(S, i) = n
<1> DEFINE N == 1 .. Cardinality(S)
           f == [i \in S |-> Rank(S, i)]
<1>1. Cardinality(S) \in Nat
  BY FS_CardinalityType
<1>2. f \in [S -> N]
  BY RankType
<1>3. f \in Injection(S, N)
  BY <1>2, RankOnce DEF Injection, IsInjective
<1>4. IsFiniteSet(N) /\ Cardinality(N) = Cardinality(S)
  <2>1. 1 \in Int /\ Cardinality(S) \in Int
    BY <1>1
  <2>2. /\ IsFiniteSet(N)
        /\ Cardinality(N) = IF 1 > Cardinality(S) THEN 0 ELSE Cardinality(S) - 1 + 1
    BY <2>1, FS_Interval
  <2>3. QED BY <1>1, <2>2
<1>5. f \in Surjection(S, N)
  <2> HIDE DEF f, N
  <2>1. QED BY <1>3, <1>4, FS_Injection
<1>6. QED BY <1>5 DEF Surjection

\* The elements below n + 1 are those below n and, if it is one, n, which comes next.
LEMMA NextRank ==
  ASSUME NEW S \in SUBSET Nat, IsFiniteSet(S), NEW n \in Nat
  PROVE  /\ Cardinality(Below(S, n)) \in Nat
         /\ n \in S => /\ Cardinality(Below(S, n + 1)) = Cardinality(Below(S, n)) + 1
                       /\ Rank(S, n) = Cardinality(Below(S, n)) + 1
                       /\ Below(S, n + 1) = Below(S, n) \cup {n}
         /\ n \notin S => Below(S, n + 1) = Below(S, n)
         /\ \A i \in Below(S, n) : Rank(S, i) \in 1 .. Cardinality(Below(S, n))
<1>1. IsFiniteSet(Below(S, n)) /\ Cardinality(Below(S, n)) \in Nat
  BY FS_Subset, FS_CardinalityType DEF Below
<1> \A j \in S : /\ j \in Nat
                 /\ j < n + 1 <=> j < n \/ j = n
                 /\ j <= n <=> j < n \/ j = n
                 /\ ~(n < n)
  OBVIOUS
<1>2. ASSUME n \in S
      PROVE  /\ Cardinality(Below(S, n + 1)) = Cardinality(Below(S, n)) + 1
             /\ Rank(S, n) = Cardinality(Below(S, n)) + 1
             /\ Below(S, n + 1) = Below(S, n) \cup {n}
  <2>1. Below(S, n + 1) = Below(S, n) \cup {n} /\ n \notin Below(S, n)
    BY <1>2 DEF Below
  <2>2. {j \in S : j <= n} = Below(S, n) \cup {n}
    BY <1>2 DEF Below
  <2>3. Cardinality(Below(S, n) \cup {n}) = Cardinality(Below(S, n)) + 1
    BY <1>1, <2>1, FS_AddElement
  <2>4. QED BY <2>1, <2>2, <2>3 DEF Rank
<1>3. n \notin S => Below(S, n + 1) = Below(S, n)
  BY DEF Below
<1>4. ASSUME NEW i \in Below(S, n)
      PROVE  Rank(S, i) \in 1 .. Cardinality(Below(S, n))
  <2>1. {j \in S : j <= i} = {j \in Below(S, n) : j <= i}
    <3>1. i \in Nat /\ i < n /\ \A j \in S : j <= i => j < n
      BY DEF Below
    <3>2. QED BY <3>1 DEF Below
  <2>2. Rank(S, i) = Rank(Below(S, n), i)
    BY <2>1 DEF Rank
  <2>3. Below(S, n) \in SUBSET Nat
    BY DEF Below
  <2>4. QED BY <1>1, <2>2, <2>3, RankType
<1>5. QED BY <1>1, <1>2, <1>3, <1>4

----------------------------------------------------------------------------
\* The files a text asks for.

\* The texts are texts.
TextsTyped == \A f \in Files : text[f] \in Seq(Statements)

LEMMA KeptType ==
  ASSUME NEW t \in Seq(Statements)
  PROVE  /\ Kept(t) \subseteq DOMAIN t /\ Kept(t) \in SUBSET Nat /\ IsFiniteSet(Kept(t))
         /\ DOMAIN t = 1 .. Len(t) /\ Len(t) \in Nat /\ IsFiniteSet(DOMAIN t)
<1>1. DOMAIN t = 1 .. Len(t) /\ Len(t) \in Nat
  BY LenProperties
<1>2. IsFiniteSet(DOMAIN t)
  <2>1. 1 \in Int /\ Len(t) \in Int
    BY <1>1
  <2>2. QED BY <1>1, <2>1, FS_Interval
<1>3. Kept(t) \subseteq DOMAIN t
  BY DEF Kept
<1>4. Kept(t) \in SUBSET Nat /\ IsFiniteSet(Kept(t))
  BY <1>1, <1>2, <1>3, FS_Subset
<1>5. QED BY <1>1, <1>2, <1>3, <1>4

LEMMA AsksByRank ==
  ASSUME TextsTyped, NEW f \in Files
  PROVE  LET K == Kept(text[f]) IN
         /\ DOMAIN Asks(f) = 1 .. Cardinality(K)
         /\ Asks(f) = [n \in 1 .. Cardinality(K) |-> Asks(f)[n]]
         /\ \A i \in K : Rank(K, i) \in DOMAIN Asks(f) /\ Asks(f)[Rank(K, i)] = text[f][i].file
<1> DEFINE t == text[f]
           K == Kept(t)
<1>1. K \in SUBSET Nat /\ IsFiniteSet(K)
  BY KeptType DEF TextsTyped
<1>2. Asks(f) = [n \in 1 .. Cardinality(K) |-> t[CHOOSE i \in K : Rank(K, i) = n].file]
  BY DEF Asks, Kept, Rank
<1> HIDE DEF K
<1>3. ASSUME NEW i \in K
      PROVE  Rank(K, i) \in DOMAIN Asks(f) /\ Asks(f)[Rank(K, i)] = t[i].file
  <2>1. Rank(K, i) \in 1 .. Cardinality(K)
    BY <1>1, RankType
  <2>2. (CHOOSE k \in K : Rank(K, k) = Rank(K, i)) = i
    <3>1. \A k \in K : Rank(K, k) = Rank(K, i) => k = i
      BY <1>1, RankOnce
    <3>2. QED BY <3>1
  <2>3. QED BY <1>2, <2>1, <2>2
<1>4. Asks(f) = [n \in 1 .. Cardinality(K) |-> Asks(f)[n]]
  BY <1>2
<1>5. QED BY <1>2, <1>3, <1>4 DEF K

\* An #include that loads a file asks for it, and nothing else does.
LEMMA AsksOfKept ==
  ASSUME TextsTyped, NEW f \in Files
  PROVE  ToSet(Asks(f)) = {text[f][i].file : i \in Kept(text[f])}
<1> DEFINE t == text[f]
           K == Kept(t)
<1>1. K \in SUBSET Nat /\ IsFiniteSet(K)
  BY KeptType DEF TextsTyped
<1>2. /\ DOMAIN Asks(f) = 1 .. Cardinality(K)
      /\ \A i \in K : Rank(K, i) \in DOMAIN Asks(f) /\ Asks(f)[Rank(K, i)] = t[i].file
  BY AsksByRank
<1> HIDE DEF K
<1>3. ASSUME NEW n \in DOMAIN Asks(f) PROVE \E i \in K : Asks(f)[n] = t[i].file
  <2>1. PICK i \in K : Rank(K, i) = n
    BY <1>1, <1>2, RankReached
  <2>2. QED BY <1>2, <2>1
<1>4. QED BY <1>2, <1>3 DEF ToSet, K

LEMMA TypedTexts ==
  ASSUME Typed
  PROVE  /\ TextsTyped
         /\ \A p \in Programs : programs[p].file \in Files /\ TextOf(p) \in Seq(Statements)
<1>1. TextsTyped
  BY TextsAreStatements DEF Typed, TextsTyped
<1>2. \A p \in Programs : programs[p].file \in Files
  BY ProgramTypes DEF ProgramRecords
<1>3. QED BY <1>1, <1>2 DEF TextsTyped, TextOf

\* The root is needed, and so is what a needed file asks for; nothing else is.
LEMMA NeededGrows ==
  ASSUME TextsTyped
  PROVE  /\ Root \in Needed /\ Needed \subseteq Files
         /\ \A f \in Needed : \A i \in Kept(text[f]) : text[f][i].file \in Needed
<1>1. Root \in Needed /\ Needed \subseteq Files
  BY RootIsAFile DEF Needed
<1>2. ASSUME NEW f \in Needed, NEW i \in Kept(text[f])
      PROVE  text[f][i].file \in Needed
  <2>1. f \in Files /\ text[f] \in Seq(Statements)
    BY <1>1 DEF TextsTyped
  <2>2. text[f][i] \in Statements /\ text[f][i].op = "include"
    BY <2>1, KeptType, ElementOfSeq DEF Kept
  <2>3. text[f][i].file \in Files
    BY <2>2 DEF Statements
  <2>4. text[f][i].file \in ToSet(Asks(f))
    BY <2>1, AsksOfKept
  <2>5. ASSUME NEW S \in SUBSET Files, Root \in S, \A g \in S : ToSet(Asks(g)) \subseteq S
        PROVE  text[f][i].file \in S
    <3>1. f \in S
      BY <2>5 DEF Needed
    <3>2. QED BY <2>4, <2>5, <3>1
  <2>6. QED BY <2>3, <2>5 DEF Needed
<1>3. QED BY <1>1, <1>2

LEMMA NeededLeast ==
  ASSUME NEW S \in SUBSET Files, Root \in S, \A f \in S : ToSet(Asks(f)) \subseteq S
  PROVE  Needed \subseteq S
BY DEF Needed

\* Nothing of this changes during a Load.
LEMMA InputsFixed ==
  ASSUME UNCHANGED inputs
  PROVE  /\ text' = text /\ disk' = disk /\ sound' = sound
         /\ Needed' = Needed /\ (Loadable' <=> Loadable)
         /\ \A f : Spoiled(f)' <=> Spoiled(f)
         /\ \A p : programs'[p].file = programs[p].file => TextOf(p)' = TextOf(p)
<1>1. text' = text /\ disk' = disk /\ sound' = sound
  BY DEF inputs
<1>2. \A f : Asks(f)' = Asks(f)
  BY <1>1 DEF Asks
<1>3. Needed' = Needed
  BY <1>2 DEF Needed
<1>4. Loadable' <=> Loadable
  BY <1>1, <1>3 DEF Loadable
<1>5. QED BY <1>1, <1>3, <1>4 DEF Spoiled, TextOf

\* An error of the preprocessor in a file that is needed is reason enough to fail.
LEMMA SpoiledFails ==
  ASSUME TextsTyped, NEW f \in Needed, Spoiled(f)
  PROVE  ~Loadable
<1>1. f \in Files /\ text[f] \in Seq(Statements)
  BY NeededGrows DEF TextsTyped
<1> DEFINE P == {i \in DOMAIN text[f] : text[f][i].op = "package"}
<1>2. IsFiniteSet(P)
  BY <1>1, KeptType, FS_Subset
<1>3. CASE \E i \in DOMAIN text[f] : text[f][i].op = "broken"
  BY <1>3 DEF Loadable
<1>4. ASSUME NEW i \in P, NEW j \in P, i # j PROVE ~Loadable
  <2>1. IsFiniteSet({i}) /\ Cardinality({i}) = 1
    BY FS_Singleton
  <2>2. Cardinality({i} \cup {j}) = 2
    BY <1>4, <2>1, FS_AddElement
  <2>3. 2 <= Cardinality(P) /\ Cardinality(P) \in Nat
    BY <1>2, <2>2, FS_Subset, FS_CardinalityType
  <2>4. QED BY <2>3 DEF Loadable
<1>5. QED BY <1>3, <1>4 DEF Spoiled

----------------------------------------------------------------------------
\* What a step leaves alone.

\* A program whose preprocessor is not touched.
Undisturbed(p) ==
  /\ programs'[p].file = programs[p].file
  /\ programs'[p].includes = programs[p].includes
  /\ programs'[p].package = programs[p].package
  /\ programs'[p].wrong = programs[p].wrong
  /\ programs'[p].children = programs[p].children

LEMMA StillReadWell ==
  ASSUME Typed, Tree, UNCHANGED inputs, NEW p \in Programs, Undisturbed(p),
         \A q \in Programs : programs'[q].file = programs[q].file,
         NEW n \in Nat
  PROVE  /\ ReadWell(p, n) => ReadWell(p, n)'
         /\ PathsRead(p, n) => PathsRead(p, n)'
         /\ Behind(p)' = Behind(p)
<1>1. TextOf(p)' = TextOf(p) /\ ChildrenOf(p)' = ChildrenOf(p) /\ TextOf(p) \in Seq(Statements)
  BY InputsFixed, TypedTexts DEF Undisturbed, ChildrenOf
<1> DEFINE K == Kept(TextOf(p))
<1>2. K \in SUBSET Nat /\ IsFiniteSet(K)
  BY <1>1, KeptType
<1>3. ASSUME ReadWell(p, n) PROVE ReadWell(p, n)'
  <2>1. ASSUME NEW i \in Below(K, n)
        PROVE  ChildrenOf(p)[Rank(K, i)] \in Programs
    <3>1. Rank(K, i) \in 1 .. Len(ChildrenOf(p))
      BY <1>2, <1>3, NextRank DEF ReadWell
    <3>2. Rank(K, i) \in DOMAIN ChildrenOf(p)
      BY <3>1, ProgramTypes
    <3>3. QED BY <3>2 DEF Tree
  <2>2. \A i \in Below(K, n) :
          programs'[ChildrenOf(p)[Rank(K, i)]].file = TextOf(p)[i].file
    BY <1>3, <2>1 DEF ReadWell
  <2>3. QED BY <1>1, <1>3, <2>2 DEF ReadWell, Undisturbed
<1>4. PathsRead(p, n) => PathsRead(p, n)'
  BY <1>1 DEF PathsRead, Undisturbed
<1>5. Behind(p)' = Behind(p)
  BY <1>1 DEF Behind
<1>6. QED BY <1>3, <1>4, <1>5

\* A program that stays where it is in Load.
Placed(p) ==
  /\ programs'[p].file = programs[p].file
  /\ programs'[p].parent = programs[p].parent
  /\ programs'[p].context = programs[p].context
  /\ programs'[p].parsed = programs[p].parsed

\* c has come to the n-th statement, which is s.
ComesTo(c, n, s) ==
  /\ c \in Programs /\ c = Current
  /\ n \in Nat \ {0} /\ n = Standing
  /\ n \in DOMAIN TextOf(c) /\ s = TextOf(c)[n]
  /\ s \in Statements
  /\ ~programs[c].context
  /\ PathsRead(c, n)
  /\ ~programs[c].wrong => ReadWell(c, n)

LEMMA AtStatement ==
  ASSUME Typed, stack # <<>>, StackSoFar, NEW s \in Statements, Reads(s)
  PROVE  \E c \in Programs, n \in Nat \ {0} : ComesTo(c, n, s)
<1>1. /\ Len(stack) \in DOMAIN stack /\ Current = stack[Len(stack)].prog
      /\ Standing = stack[Len(stack)].at /\ Current \in Programs /\ Standing \in Nat \ {0}
  BY Top
<1>2. PICK c \in Programs, n \in Nat \ {0} : c = Current /\ n = Standing
  BY <1>1
<1>3. TextOf(c) \in Seq(Statements)
  BY TypedTexts
<1>4. n \in DOMAIN TextOf(c) /\ s = TextOf(c)[n]
  BY <1>2, <1>3, KeptType DEF Reads
<1>5. ~programs[c].context /\ PathsRead(c, n) /\ (~programs[c].wrong => ReadWell(c, n))
  BY <1>1, <1>2 DEF StackSoFar
<1>6. QED BY <1>2, <1>4, <1>5 DEF ComesTo

\* An #include loads a file unless the path is stored already.
LEMMA KeptIfLoads ==
  ASSUME Typed, NEW c, NEW n, NEW s, ComesTo(c, n, s)
  PROVE  n \in Kept(TextOf(c)) <=> s.op = "include" /\ ~AlreadyIncluded(c, s)
<1> DEFINE t == TextOf(c)
<1>1. t \in Seq(Statements) /\ n \in DOMAIN t /\ s = t[n] /\ DOMAIN t = 1 .. Len(t) /\ Len(t) \in Nat
  BY TypedTexts, KeptType DEF ComesTo
<1>2. PathsRead(c, n)
  BY DEF ComesTo
<1>3. ASSUME s.op = "include"
      PROVE  s.file \in programs[c].includes
               <=> \E j \in 1 .. n - 1 : t[j].op = "include" /\ t[j].file = s.file
  <2>1. \A j : j \in 1 .. n - 1 <=> j \in DOMAIN t /\ j < n
    BY <1>1
  <2>2. QED BY <1>1, <1>2, <2>1 DEF PathsRead
<1>4. n \in Kept(t) <=>
        /\ s.op = "include"
        /\ s.quoted \/ \A j \in 1 .. n - 1 : t[j].op = "include" => t[j].file # s.file
  BY <1>1 DEF Kept
<1>5. QED BY <1>3, <1>4 DEF AlreadyIncluded

\* What is read of the paths, one statement on.
LEMMA PathsReadOn ==
  ASSUME Typed, UNCHANGED inputs, NEW c, NEW n, NEW s, ComesTo(c, n, s),
         programs'[c].file = programs[c].file,
         programs'[c].includes =
           programs[c].includes \cup (IF s.op = "include" THEN {s.file} ELSE {})
  PROVE  PathsRead(c, n + 1)'
<1> DEFINE t == TextOf(c)
<1>1. t \in Seq(Statements) /\ n \in DOMAIN t /\ s = t[n] /\ DOMAIN t = 1 .. Len(t) /\ Len(t) \in Nat
      /\ TextOf(c)' = t
  BY TypedTexts, KeptType, InputsFixed DEF ComesTo
<1>2. PathsRead(c, n)
  BY DEF ComesTo
<1>3. \A i \in DOMAIN t : (i < n + 1 <=> i < n \/ i = n)
  BY <1>1
<1>4. ASSUME NEW f \in programs'[c].includes
      PROVE  \E i \in DOMAIN t : i < n + 1 /\ t[i].op = "include" /\ t[i].file = f
  <2>1. CASE f \in programs[c].includes
    BY <1>2, <1>3, <2>1 DEF PathsRead
  <2>2. CASE s.op = "include" /\ f = s.file
    BY <1>1, <1>3, <2>2
  <2>3. QED BY <2>1, <2>2
<1>5. ASSUME NEW i \in DOMAIN t, i < n + 1, t[i].op = "include"
      PROVE  t[i].file \in programs'[c].includes
  <2>1. CASE i < n
    BY <1>1, <1>2, <1>5, <2>1 DEF PathsRead
  <2>2. CASE i = n
    BY <1>1, <1>5, <2>2
  <2>3. QED BY <1>3, <1>5, <2>1, <2>2
<1>6. QED BY <1>1, <1>4, <1>5 DEF PathsRead

\* A statement without an error that makes no child.
LEMMA ReadsWellOn ==
  ASSUME Typed, Tree, UNCHANGED inputs, NEW c, NEW n, NEW s, ComesTo(c, n, s), ReadWell(c, n),
         \A q \in Programs : programs'[q].file = programs[q].file,
         programs'[c].children = programs[c].children,
         n \notin Kept(TextOf(c)), s.op # "broken",
         s.op = "package" => ~programs[c].package,
         programs'[c].package <=> programs[c].package \/ s.op = "package"
  PROVE  ReadWell(c, n + 1)'
<1> DEFINE t == TextOf(c)
           K == Kept(t)
<1>1. /\ c \in Programs /\ t \in Seq(Statements) /\ n \in DOMAIN t /\ s = t[n]
      /\ TextOf(c)' = t /\ ChildrenOf(c)' = ChildrenOf(c)
  BY TypedTexts, InputsFixed DEF ComesTo, ChildrenOf
<1>2. K \in SUBSET Nat /\ IsFiniteSet(K) /\ DOMAIN t = 1 .. Len(t) /\ Len(t) \in Nat
  BY <1>1, KeptType
<1>3. n \in Nat /\ \A i \in DOMAIN t : (i < n + 1 <=> i < n \/ i = n)
  BY <1>1, <1>2
<1>4. Below(K, n + 1) = Below(K, n)
  BY <1>2, <1>3, NextRank
<1>5. ASSUME NEW i \in Below(K, n)
      PROVE  ChildrenOf(c)[Rank(K, i)] \in Programs
  <2>1. Rank(K, i) \in 1 .. Len(ChildrenOf(c))
    BY <1>2, <1>3, NextRank DEF ReadWell
  <2>2. Rank(K, i) \in DOMAIN ChildrenOf(c)
    BY <1>1, <2>1, ProgramTypes
  <2>3. QED BY <1>1, <2>2 DEF Tree
<1>6. \A i \in Below(K, n + 1) : programs'[ChildrenOf(c)[Rank(K, i)]].file = t[i].file
  BY <1>4, <1>5 DEF ReadWell
<1>7. Len(ChildrenOf(c)) = Cardinality(Below(K, n + 1))
  BY <1>4 DEF ReadWell
<1>8. \A i \in DOMAIN t : i < n + 1 => t[i].op # "broken"
  BY <1>1, <1>3 DEF ReadWell
<1>9. \A i, j \in DOMAIN t :
        i < n + 1 /\ j < n + 1 /\ t[i].op = "package" /\ t[j].op = "package" => i = j
  BY <1>1, <1>3 DEF ReadWell
<1>10. programs'[c].package <=> \E i \in DOMAIN t : i < n + 1 /\ t[i].op = "package"
  BY <1>1, <1>3 DEF ReadWell
<1>11. QED BY <1>1, <1>6, <1>7, <1>8, <1>9, <1>10 DEF ReadWell

----------------------------------------------------------------------------
\* One step of the preprocessor.

\* A statement of c leaves what it does not concern.
Stays(c) ==
  /\ Programs' = Programs
  /\ \A p \in Programs : Placed(p) /\ (p # c => Undisturbed(p))
  /\ programs'[c].children = programs[c].children

LEMMA StatementSoFar ==
  ASSUME Typed, Tree, stack # <<>>, phase = "preprocess", ProgramsSoFar, StackSoFar,
         UNCHANGED <<inputs, phase, result>>, ~failed', ~result,
         NEW c \in Programs, c = Current, Stays(c),
         NEW n \in Nat \ {0}, stack' = Advanced(n),
         programs'[c].wrong => Spoiled(programs[c].file),
         PathsRead(c, n)',
         ~programs'[c].wrong => ReadWell(c, n)'
  PROVE  LoadInv'
<1>1. /\ Len(stack) \in DOMAIN stack /\ c = stack[Len(stack)].prog
      /\ \A i \in DOMAIN stack : stack[i].prog \in Programs
  BY Top DEF Typed
<1>2. /\ DOMAIN stack' = DOMAIN stack
      /\ \A i \in DOMAIN stack : /\ stack'[i].prog = stack[i].prog
                                 /\ stack'[i].at = IF i = Len(stack) THEN n ELSE stack[i].at
  BY AdvancedStack
<1>3. UNCHANGED inputs /\ phase' = "preprocess" /\ ~result'
  OBVIOUS
<1>4. \A q \in Programs : programs'[q].file = programs[q].file
  BY DEF Stays, Placed
<1>5. ~programs[c].context
  BY <1>1 DEF StackSoFar
<1>6. ASSUME NEW p \in Programs, p # c
      PROVE  /\ Undisturbed(p)
             /\ Behind(p)' = Behind(p) /\ Behind(p) \in Nat
             /\ \A m \in Nat : /\ ReadWell(p, m) => ReadWell(p, m)'
                               /\ PathsRead(p, m) => PathsRead(p, m)'
  <2>1. Undisturbed(p)
    BY <1>6 DEF Stays
  <2>2. Behind(p) \in Nat
    BY TypedTexts, LenProperties DEF Behind
  <2>3. QED BY <1>3, <1>4, <2>1, <2>2, StillReadWell
<1>7. ASSUME NEW p \in Programs
      PROVE  /\ programs'[p].file \in Needed \cap disk
             /\ p # 1 => programs'[p].parent \in Programs
             /\ programs'[p].wrong => Spoiled(programs'[p].file)
             /\ programs'[p].context => ReadWell(p, Behind(p))'
             /\ programs'[p].parsed = "ok" => programs'[p].file \in sound
  <2>1. Placed(p)
    BY DEF Stays
  <2>2. programs'[p].wrong => Spoiled(programs'[p].file)
    <3>1. CASE p = c
      BY <2>1, <3>1 DEF Placed
    <3>2. CASE p # c
      BY <1>6, <2>1, <3>2 DEF Placed, Undisturbed, ProgramsSoFar
    <3>3. QED BY <3>1, <3>2
  <2>3. ASSUME programs'[p].context PROVE ReadWell(p, Behind(p))'
    <3>1. p # c /\ programs[p].context
      BY <1>5, <2>1, <2>3 DEF Placed
    <3>2. PICK m \in Nat : m = Behind(p) /\ m = Behind(p)'
      BY <1>6, <3>1
    <3>3. ReadWell(p, m)
      BY <3>1, <3>2 DEF ProgramsSoFar
    <3>4. ReadWell(p, m)'
      BY <1>6, <3>1, <3>3
    <3>5. QED BY <3>2, <3>4
  <2>4. QED BY <2>1, <2>2, <2>3 DEF Placed, ProgramsSoFar
<1>8. ProgramsSoFar'
  <2>1. /\ Needed' = Needed /\ disk' = disk /\ sound' = sound
        /\ \A f : Spoiled(f)' <=> Spoiled(f)
    BY <1>3, InputsFixed
  <2>2. 1 \in Programs' /\ programs'[1].file = Root /\ Programs' = Programs
    BY <1>4 DEF ProgramsSoFar, Stays
  <2>3. ASSUME NEW p \in Programs
        PROVE  (programs[p].wrong => Spoiled(programs[p].file))'
    <3>1. PICK f : f = programs'[p].file
      OBVIOUS
    <3>2. QED BY <1>7, <2>1, <3>1 DEF Spoiled
  <2>4. QED BY <1>7, <2>1, <2>2, <2>3 DEF ProgramsSoFar
<1>9. StackSoFar'
  <2>1. \A i, j \in DOMAIN stack' : stack'[i].prog = stack'[j].prog => i = j
    BY <1>2 DEF StackSoFar
  <2>2. ASSUME NEW i \in DOMAIN stack'
        PROVE  /\ ~programs'[stack'[i].prog].context
               /\ PathsRead(stack[i].prog, stack[i].at)'
               /\ ~programs'[stack'[i].prog].wrong => ReadWell(stack[i].prog, stack[i].at)'
    <3>1. PICK p \in Programs, m \in Nat :
            /\ p = stack'[i].prog /\ m = stack'[i].at /\ p = stack[i].prog
            /\ m = IF i = Len(stack) THEN n ELSE stack[i].at
      <4>1. stack[i] \in Activations
        BY <1>2, <2>2, LenProperties, ElementOfSeq DEF Typed
      <4>2. QED BY <1>1, <1>2, <2>2, <4>1 DEF Activations
    <3>2. ~programs'[p].context
      BY <1>2, <2>2, <3>1 DEF Stays, Placed, StackSoFar
    <3>3. CASE i = Len(stack)
      <4>1. p = c /\ m = n
        BY <1>1, <3>1, <3>3
      <4>2. PathsRead(p, m)' /\ (~programs'[p].wrong => ReadWell(p, m)')
        BY <4>1
      <4>3. QED BY <3>1, <3>2, <4>2
    <3>4. CASE i # Len(stack)
      <4>1. p # c /\ m = stack[i].at
        BY <1>1, <1>2, <2>2, <3>1, <3>4 DEF StackSoFar
      <4>2. PathsRead(p, m) /\ (~programs[p].wrong => ReadWell(p, m))
        BY <1>2, <2>2, <3>1, <4>1 DEF StackSoFar
      <4>3. PathsRead(p, m)' /\ (~programs'[p].wrong => ReadWell(p, m)')
        BY <1>6, <4>1, <4>2 DEF Undisturbed
      <4>4. QED BY <3>1, <3>2, <4>3
    <3>5. QED BY <3>3, <3>4
  <2>3. QED BY <2>1, <2>2 DEF StackSoFar
<1>10. QED BY <1>3, <1>8, <1>9 DEF LoadInv

LEMMA InTheMiddle ==
  ASSUME LinkInv, LoadInv, ~failed, phase = "preprocess"
  PROVE  Typed /\ Tree /\ stack # <<>> /\ ProgramsSoFar /\ StackSoFar /\ ~result
BY DEF LinkInv, LoadInv, Typed

\* Load has failed for a reason.
LEMMA FailsForReason ==
  ASSUME UNCHANGED inputs, failed', ~Loadable, ~result', phase' # "parse"
  PROVE  LoadInv'
<1>1. ~Loadable'
  BY InputsFixed
<1>2. QED BY <1>1 DEF LoadInv

LEMMA SkipSoFar ==
  ASSUME LinkInv, LoadInv, ~failed, SkipInclude
  PROVE  LoadInv'
<1>1. phase = "preprocess"
  BY DEF SkipInclude, Reads
<1>2. Typed /\ Tree /\ stack # <<>> /\ ProgramsSoFar /\ StackSoFar /\ ~result
  BY <1>1, InTheMiddle
<1>3. PICK s \in Statements :
        /\ Reads(s) /\ s.op = "include" /\ AlreadyIncluded(Current, s)
        /\ stack' = Advanced(Standing + 1)
        /\ UNCHANGED <<inputs, programs, phase, failed, result>>
  BY DEF SkipInclude
<1>4. PICK c \in Programs, n \in Nat \ {0} : ComesTo(c, n, s)
  BY <1>2, <1>3, AtStatement
<1>5. n + 1 \in Nat \ {0} /\ c = Current /\ stack' = Advanced(n + 1)
  BY <1>3, <1>4 DEF ComesTo
<1>6. n \notin Kept(TextOf(c))
  BY <1>2, <1>3, <1>4, <1>5, KeptIfLoads
<1>7. Stays(c)
  BY <1>3 DEF Stays, Placed, Undisturbed, Programs
<1>8. PathsRead(c, n + 1)'
  <2>1. programs'[c].includes = programs[c].includes \cup {s.file}
    BY <1>3, <1>5 DEF AlreadyIncluded
  <2>2. QED BY <1>2, <1>3, <1>4, <2>1, PathsReadOn
<1>9. ~programs'[c].wrong => ReadWell(c, n + 1)'
  <2>1. SUFFICES ASSUME ~programs[c].wrong PROVE ReadWell(c, n + 1)'
    BY <1>3
  <2>2. ReadWell(c, n)
    BY <1>4, <2>1 DEF ComesTo
  <2>3. QED BY <1>2, <1>3, <1>4, <1>6, <2>2, ReadsWellOn
<1>10. programs'[c].wrong => Spoiled(programs[c].file)
  BY <1>2, <1>3 DEF ProgramsSoFar
<1>11. QED
  BY <1>1, <1>2, <1>3, <1>5, <1>7, <1>8, <1>9, <1>10, StatementSoFar

\* The file that is missing is needed.
LEMMA MissingSoFar ==
  ASSUME LinkInv, LoadInv, ~failed, IncludeMissing
  PROVE  LoadInv'
<1>1. phase = "preprocess"
  BY DEF IncludeMissing, Reads
<1>2. Typed /\ Tree /\ stack # <<>> /\ ProgramsSoFar /\ StackSoFar /\ ~result
  BY <1>1, InTheMiddle
<1>3. PICK s \in Statements :
        /\ Reads(s) /\ s.op = "include" /\ ~AlreadyIncluded(Current, s) /\ s.file \notin disk
        /\ failed' /\ UNCHANGED <<inputs, phase, result>>
  BY DEF IncludeMissing
<1>4. PICK c \in Programs, n \in Nat \ {0} : ComesTo(c, n, s)
  BY <1>2, <1>3, AtStatement
<1>5. n \in Kept(TextOf(c)) /\ s = TextOf(c)[n]
  BY <1>2, <1>3, <1>4, KeptIfLoads DEF ComesTo
<1>6. s.file \in Needed
  BY <1>2, <1>4, <1>5, TypedTexts, NeededGrows DEF ProgramsSoFar, TextOf
<1>7. ~Loadable
  BY <1>3, <1>6 DEF Loadable
<1>8. QED BY <1>1, <1>2, <1>3, <1>7, FailsForReason

LEMMA PackageFields ==
  ASSUME Typed, NEW c \in Programs
  PROVE  programs' = [programs EXCEPT ![c].package = TRUE,
                                      ![c].wrong = @ \/ programs[c].package] =>
           /\ Stays(c)
           /\ programs'[c].includes = programs[c].includes
           /\ programs'[c].package = TRUE
           /\ programs'[c].wrong = (programs[c].wrong \/ programs[c].package)
<1> DEFINE r == [programs[c] EXCEPT !.package = TRUE, !.wrong = @ \/ programs[c].package]
           t == [programs EXCEPT ![c] = r]
<1>1. programs[c] \in ProgramRecords
  BY ProgramTypes
<1>2. /\ r.file = programs[c].file /\ r.parent = programs[c].parent
      /\ r.children = programs[c].children /\ r.parsed = programs[c].parsed
      /\ r.context = programs[c].context /\ r.includes = programs[c].includes
      /\ r.package = TRUE /\ r.wrong = (programs[c].wrong \/ programs[c].package)
  BY <1>1 DEF ProgramRecords
<1>3. [programs EXCEPT ![c].package = TRUE, ![c].wrong = @ \/ programs[c].package] = t
  BY <1>1 DEF Programs, ProgramRecords
<1> HIDE DEF r
<1>4. DOMAIN t = Programs /\ \A q \in Programs : t[q] = IF q = c THEN r ELSE programs[q]
  BY DEF Programs
<1> HIDE DEF t
<1>5. SUFFICES ASSUME programs' = t
               PROVE  /\ Stays(c)
                      /\ programs'[c].includes = programs[c].includes
                      /\ programs'[c].package = TRUE
                      /\ programs'[c].wrong = (programs[c].wrong \/ programs[c].package)
  BY <1>3
<1>6. QED BY <1>2, <1>4, <1>5 DEF Stays, Placed, Undisturbed, Programs

LEMMA PackageSoFar ==
  ASSUME LinkInv, LoadInv, ~failed, DeclarePackage
  PROVE  LoadInv'
<1>1. phase = "preprocess"
  BY DEF DeclarePackage, Reads
<1>2. Typed /\ Tree /\ stack # <<>> /\ ProgramsSoFar /\ StackSoFar /\ ~result
  BY <1>1, InTheMiddle
<1>3. PICK s \in Statements :
        /\ Reads(s) /\ s.op = "package"
        /\ programs' = [programs EXCEPT ![Current].package = TRUE,
                                        ![Current].wrong = @ \/ programs[Current].package]
        /\ stack' = Advanced(Standing + 1)
        /\ UNCHANGED <<inputs, phase, failed, result>>
  BY DEF DeclarePackage
<1>4. PICK c \in Programs, n \in Nat \ {0} : ComesTo(c, n, s)
  BY <1>2, <1>3, AtStatement
<1>5. n + 1 \in Nat \ {0} /\ c = Current /\ stack' = Advanced(n + 1)
  BY <1>3, <1>4 DEF ComesTo
<1>6. /\ Stays(c)
      /\ programs'[c].includes = programs[c].includes
      /\ programs'[c].package = TRUE
      /\ programs'[c].wrong = (programs[c].wrong \/ programs[c].package)
  BY <1>2, <1>3, <1>5, PackageFields
<1>7. n \notin Kept(TextOf(c))
  BY <1>2, <1>3, <1>4, KeptIfLoads
<1>8. /\ \A q \in Programs : programs'[q].file = programs[q].file
      /\ programs'[c].children = programs[c].children
      /\ UNCHANGED inputs
  BY <1>3, <1>6 DEF Stays, Placed
<1>9. PathsRead(c, n + 1)'
  BY <1>2, <1>3, <1>4, <1>6, <1>8, PathsReadOn
<1>10. ASSUME ~programs'[c].wrong PROVE ReadWell(c, n + 1)'
  <2>1. ~programs[c].wrong /\ ~programs[c].package
    BY <1>6, <1>10
  <2>2. ReadWell(c, n)
    BY <1>4, <2>1 DEF ComesTo
  <2>3. programs'[c].package <=> programs[c].package \/ s.op = "package"
    BY <1>3, <1>6
  <2>4. QED BY <1>2, <1>3, <1>4, <1>7, <1>8, <2>1, <2>2, <2>3, ReadsWellOn
<1>11. ASSUME programs'[c].wrong PROVE Spoiled(programs[c].file)
  <2>1. CASE programs[c].wrong
    BY <1>2, <2>1 DEF ProgramsSoFar
  <2>2. CASE ~programs[c].wrong /\ programs[c].package
    <3>1. PICK i \in DOMAIN TextOf(c) : i < n /\ TextOf(c)[i].op = "package"
      BY <1>4, <2>2 DEF ComesTo, ReadWell
    <3>2. n \in DOMAIN TextOf(c) /\ TextOf(c)[n].op = "package" /\ i # n
      BY <1>3, <1>4, <3>1 DEF ComesTo
    <3>3. QED BY <3>1, <3>2 DEF Spoiled, TextOf
  <2>3. programs[c].wrong \in BOOLEAN /\ programs[c].package \in BOOLEAN
    BY <1>2, ProgramTypes DEF ProgramRecords
  <2>4. QED BY <1>6, <1>11, <2>1, <2>2, <2>3
<1>12. QED
  BY <1>1, <1>2, <1>3, <1>5, <1>6, <1>9, <1>10, <1>11, StatementSoFar

LEMMA SetInAllStays ==
  ASSUME Typed, NEW c \in Programs, NEW k \in Keys, NEW to \in Effects,
         SetInAll(k, to)
  PROVE  /\ Stays(c) /\ Undisturbed(c)
<1>1. DOMAIN programs' = Programs /\ \A p \in Programs :
        programs'[p] = IF p \in Ancestors(Current)
                         THEN [programs[p] EXCEPT !.defined[k] = to[@]] ELSE programs[p]
  BY DEF SetInAll
<1>2. ASSUME NEW p \in Programs PROVE Placed(p) /\ Undisturbed(p)
  <2>1. programs[p] \in ProgramRecords
    BY ProgramTypes
  <2>2. CASE p \in Ancestors(Current)
    <3>1. programs'[p] = [programs[p] EXCEPT !.defined[k] = to[@]]
      BY <1>1, <2>2
    <3>2. QED BY <2>1, <3>1 DEF Placed, Undisturbed, ProgramRecords
  <2>3. CASE p \notin Ancestors(Current)
    BY <1>1, <2>3 DEF Placed, Undisturbed
  <2>4. QED BY <2>2, <2>3
<1>3. QED BY <1>1, <1>2 DEF Stays, Undisturbed, Programs

LEMMA DefineSoFar ==
  ASSUME LinkInv, LoadInv, ~failed, Define \/ DefineParams \/ Undefine
  PROVE  LoadInv'
<1>1. phase = "preprocess"
  BY DEF Define, DefineParams, Undefine, Reads
<1>2. Typed /\ Tree /\ stack # <<>> /\ ProgramsSoFar /\ StackSoFar /\ ~result
  BY <1>1, InTheMiddle
<1>3. PICK s \in Statements :
        /\ Reads(s) /\ s.op \in {"define", "undef", "params"}
        /\ stack' = Advanced(Standing + 1)
        /\ UNCHANGED <<inputs, phase, failed, result>>
  BY DEF Define, DefineParams, Undefine
<1>4. PICK c \in Programs, n \in Nat \ {0} : ComesTo(c, n, s)
  BY <1>2, <1>3, AtStatement
<1>5. n + 1 \in Nat \ {0} /\ c = Current /\ stack' = Advanced(n + 1)
  BY <1>3, <1>4 DEF ComesTo
<1>6. Stays(c) /\ Undisturbed(c)
  BY <1>2, MacroStatement, SetInAllStays
<1>7. n \notin Kept(TextOf(c))
  BY <1>2, <1>3, <1>4, KeptIfLoads
<1>8. /\ \A q \in Programs : programs'[q].file = programs[q].file
      /\ programs'[c].children = programs[c].children
      /\ programs'[c].wrong = programs[c].wrong
      /\ UNCHANGED inputs
  BY <1>3, <1>6 DEF Stays, Placed, Undisturbed
<1>9. PathsRead(c, n + 1)'
  <2>1. programs'[c].includes = programs[c].includes
    BY <1>6 DEF Undisturbed
  <2>2. QED BY <1>2, <1>3, <1>4, <1>8, <2>1, PathsReadOn
<1>10. ASSUME ~programs'[c].wrong PROVE ReadWell(c, n + 1)'
  <2>1. ReadWell(c, n)
    BY <1>4, <1>8, <1>10 DEF ComesTo
  <2>2. programs'[c].package <=> programs[c].package \/ s.op = "package"
    BY <1>3, <1>6 DEF Undisturbed
  <2>3. QED BY <1>2, <1>3, <1>4, <1>7, <1>8, <2>1, <2>2, ReadsWellOn
<1>11. programs'[c].wrong => Spoiled(programs[c].file)
  BY <1>2, <1>8 DEF ProgramsSoFar
<1>12. QED
  BY <1>1, <1>2, <1>3, <1>5, <1>6, <1>9, <1>10, <1>11, StatementSoFar

LEMMA WrongField ==
  ASSUME Typed, NEW c \in Programs
  PROVE  programs' = [programs EXCEPT ![c].wrong = TRUE] =>
           /\ Stays(c)
           /\ programs'[c].includes = programs[c].includes
           /\ programs'[c].wrong = TRUE
<1> DEFINE r == [programs[c] EXCEPT !.wrong = TRUE]
           t == [programs EXCEPT ![c] = r]
<1>1. programs[c] \in ProgramRecords
  BY ProgramTypes
<1>2. /\ r.file = programs[c].file /\ r.parent = programs[c].parent
      /\ r.children = programs[c].children /\ r.parsed = programs[c].parsed
      /\ r.context = programs[c].context /\ r.includes = programs[c].includes
      /\ r.wrong = TRUE
  BY <1>1 DEF ProgramRecords
<1>3. [programs EXCEPT ![c].wrong = TRUE] = t
  OBVIOUS
<1> HIDE DEF r
<1>4. DOMAIN t = Programs /\ \A q \in Programs : t[q] = IF q = c THEN r ELSE programs[q]
  BY DEF Programs
<1> HIDE DEF t
<1>5. SUFFICES ASSUME programs' = t
               PROVE  /\ Stays(c)
                      /\ programs'[c].includes = programs[c].includes
                      /\ programs'[c].wrong = TRUE
  BY <1>3
<1>6. QED BY <1>2, <1>4, <1>5 DEF Stays, Placed, Undisturbed, Programs

\* What is broken off is broken; what has been read of the paths stays read.
LEMMA BreakOffSoFar ==
  ASSUME LinkInv, LoadInv, ~failed, BreakOff
  PROVE  LoadInv'
<1>1. phase = "preprocess"
  BY DEF BreakOff, Reads
<1>2. Typed /\ Tree /\ stack # <<>> /\ ProgramsSoFar /\ StackSoFar /\ ~result
  BY <1>1, InTheMiddle
<1>3. PICK s \in Statements :
        /\ Reads(s) /\ s.op = "broken"
        /\ programs' = [programs EXCEPT ![Current].wrong = TRUE]
        /\ stack' = Advanced(Len(TextOf(Current)) + 1)
        /\ UNCHANGED <<inputs, phase, failed, result>>
  BY DEF BreakOff
<1>4. PICK c \in Programs, n \in Nat \ {0} : ComesTo(c, n, s)
  BY <1>2, <1>3, AtStatement
<1>5. c = Current /\ n \in DOMAIN TextOf(c) /\ s = TextOf(c)[n] /\ PathsRead(c, n)
  BY <1>4 DEF ComesTo
<1>6. PICK m \in Nat \ {0} : /\ m = Len(TextOf(c)) + 1
                             /\ m \notin DOMAIN TextOf(c) /\ n < m
                             /\ DOMAIN TextOf(c) \subseteq Nat
  <2>1. DOMAIN TextOf(c) = 1 .. Len(TextOf(c)) /\ Len(TextOf(c)) \in Nat
    BY <1>2, TypedTexts, LenProperties
  <2>2. QED BY <1>5, <2>1
<1>7. /\ Stays(c)
      /\ programs'[c].includes = programs[c].includes
      /\ programs'[c].wrong = TRUE
  BY <1>2, <1>3, <1>5, WrongField
<1>8. TextOf(c)' = TextOf(c)
  BY <1>3, <1>7, InputsFixed DEF Stays, Placed
<1>9. PathsRead(c, m)'
  BY <1>5, <1>6, <1>7, <1>8 DEF PathsRead
<1>10. Spoiled(programs[c].file)
  BY <1>3, <1>5 DEF Spoiled, TextOf
<1>11. QED
  BY <1>1, <1>2, <1>3, <1>5, <1>6, <1>7, <1>9, <1>10, StatementSoFar

\* What an include does to the preprocessors.
Entered(f, c, x) ==
  /\ Included(f, c, x)
  /\ \A p \in Programs :
       /\ programs'[p].file = programs[p].file
       /\ programs'[p].package = programs[p].package
       /\ programs'[p].wrong = programs[p].wrong
       /\ p # c => programs'[p].includes = programs[p].includes
  /\ programs'[c].includes = programs[c].includes \cup {f}
  /\ programs'[x].file = f /\ programs'[x].includes = {}
  /\ ~programs'[x].package /\ ~programs'[x].wrong /\ ~programs'[x].context

LEMMA IncludeEnters ==
  ASSUME Typed, NEW f \in Files, NEW c \in Programs, NEW x, x = Len(programs) + 1
  PROVE  programs' = Append([programs EXCEPT ![c].includes = @ \cup {f},
                                             ![c].children = Append(@, x)],
                            NewProgram(f, c))
           => Entered(f, c, x)
<1>1. Len(programs) \in Nat /\ Programs = 1 .. Len(programs)
      /\ \A p \in Programs : programs[p] \in ProgramRecords
  BY ProgramTypes
<1> DEFINE r == [programs[c] EXCEPT !.includes = @ \cup {f}, !.children = Append(@, x)]
           e == [programs EXCEPT ![c] = r]
           n == NewProgram(f, c)
           t == Append(e, n)
<1>2. /\ r.file = programs[c].file /\ r.package = programs[c].package
      /\ r.wrong = programs[c].wrong /\ r.includes = programs[c].includes \cup {f}
  BY <1>1 DEF ProgramRecords
<1>3. [programs EXCEPT ![c].includes = @ \cup {f}, ![c].children = Append(@, x)] = e
  BY <1>1 DEF Programs, ProgramRecords
<1> HIDE DEF r
<1>4. Len(e) = Len(programs) /\ DOMAIN e = Programs
      /\ \A p \in Programs : e[p] = IF p = c THEN r ELSE programs[p]
  BY <1>1 DEF Programs
<1> HIDE DEF e
<1>5. n.file = f /\ n.includes = {} /\ ~n.package /\ ~n.wrong /\ ~n.context
  BY DEF NewProgram
<1> HIDE DEF n
<1>6. (\A p \in Programs : t[p] = e[p]) /\ t[x] = n
  BY <1>1, <1>4
<1> HIDE DEF t
<1>7. \A p \in Programs :
        /\ t[p].file = programs[p].file
        /\ t[p].package = programs[p].package
        /\ t[p].wrong = programs[p].wrong
        /\ p # c => t[p].includes = programs[p].includes
  BY <1>2, <1>4, <1>6
<1>8. t[c].includes = programs[c].includes \cup {f}
  BY <1>2, <1>4, <1>6
<1>9. programs' = t => Included(f, c, x)
  BY <1>3, IncludedPrograms DEF t, n
<1>10. SUFFICES ASSUME programs' = t PROVE Entered(f, c, x)
  BY <1>3 DEF t, n
<1>11. QED BY <1>5, <1>6, <1>7, <1>8, <1>9, <1>10 DEF Entered

\* The includer has got the child its statement asks for.
LEMMA IncluderReadsWell ==
  ASSUME Typed, Tree, UNCHANGED inputs, NEW c, NEW n, NEW s, ComesTo(c, n, s), ReadWell(c, n),
         s.op = "include", n \in Kept(TextOf(c)), NEW x, Entered(s.file, c, x)
  PROVE  ReadWell(c, n + 1)'
<1> DEFINE t == TextOf(c)
           K == Kept(t)
           kids == ChildrenOf(c)
<1>1. /\ c \in Programs /\ t \in Seq(Statements) /\ n \in DOMAIN t /\ s = t[n]
      /\ \A p \in Programs : programs'[p].file = programs[p].file
      /\ programs'[x].file = s.file
      /\ programs'[c].package = programs[c].package
  BY TypedTexts DEF ComesTo, Entered
<1>2. TextOf(c)' = t /\ ChildrenOf(c)' = Append(kids, x)
  BY <1>1, InputsFixed DEF ChildrenOf, Entered, Included
<1>3. K \in SUBSET Nat /\ IsFiniteSet(K) /\ DOMAIN t = 1 .. Len(t) /\ Len(t) \in Nat
  BY <1>1, KeptType
<1>4. n \in Nat /\ \A i \in DOMAIN t : (i < n + 1 <=> i < n \/ i = n)
  BY <1>1, <1>3
<1>5. /\ Cardinality(Below(K, n + 1)) = Cardinality(Below(K, n)) + 1
      /\ Rank(K, n) = Cardinality(Below(K, n)) + 1
      /\ Below(K, n + 1) = Below(K, n) \cup {n}
      /\ \A i \in Below(K, n) : Rank(K, i) \in 1 .. Cardinality(Below(K, n))
  BY <1>3, <1>4, NextRank
<1>6. Len(kids) = Cardinality(Below(K, n))
  BY DEF ReadWell
<1>7. /\ kids \in Seq(Nat) /\ Len(kids) \in Nat /\ DOMAIN kids = 1 .. Len(kids)
  BY <1>1, ProgramTypes
<1>8. /\ Len(Append(kids, x)) = Len(kids) + 1
      /\ Append(kids, x)[Len(kids) + 1] = x
      /\ \A i \in 1 .. Len(kids) : Append(kids, x)[i] = kids[i]
  BY <1>7
<1> DEFINE more == Append(kids, x)
<1> HIDE DEF more
<1>9. ASSUME NEW i \in Below(K, n + 1)
      PROVE  programs'[more[Rank(K, i)]].file = t[i].file
  <2>1. CASE i = n
    BY <1>1, <1>5, <1>6, <1>8, <2>1 DEF more
  <2>2. CASE i \in Below(K, n)
    <3>1. Rank(K, i) \in DOMAIN kids
      BY <1>5, <1>6, <1>7, <2>2
    <3>2. kids[Rank(K, i)] \in Programs
      BY <1>1, <3>1 DEF Tree
    <3>3. programs[kids[Rank(K, i)]].file = t[i].file
      BY <2>2 DEF ReadWell
    <3>4. more[Rank(K, i)] = kids[Rank(K, i)]
      BY <1>7, <1>8, <3>1 DEF more
    <3>5. QED BY <1>1, <3>2, <3>3, <3>4
  <2>3. QED BY <1>5, <2>1, <2>2
<1>10. Len(more) = Cardinality(Below(K, n + 1))
  BY <1>5, <1>6, <1>8 DEF more
<1>11. \A i \in DOMAIN t : i < n + 1 => t[i].op # "broken"
  BY <1>1, <1>4 DEF ReadWell
<1>12. \A i, j \in DOMAIN t :
         i < n + 1 /\ j < n + 1 /\ t[i].op = "package" /\ t[j].op = "package" => i = j
  BY <1>1, <1>4 DEF ReadWell
<1>13. programs'[c].package <=> \E i \in DOMAIN t : i < n + 1 /\ t[i].op = "package"
  BY <1>1, <1>4 DEF ReadWell
<1>14. ChildrenOf(c)' = more
  BY <1>2 DEF more
<1>15. QED BY <1>2, <1>9, <1>10, <1>11, <1>12, <1>13, <1>14 DEF ReadWell

\* The program that is entered has read nothing.
LEMMA EnteredReadsWell ==
  ASSUME Typed, UNCHANGED inputs, NEW f \in Files, NEW c, NEW x, Entered(f, c, x)
  PROVE  PathsRead(x, 1)' /\ ReadWell(x, 1)'
<1>1. /\ programs'[x].file = f /\ programs'[x].includes = {} /\ programs'[x].children = <<>>
      /\ ~programs'[x].package
  BY DEF Entered, Included
<1>2. TextOf(x)' = text[f] /\ text[f] \in Seq(Statements)
  BY <1>1, TypedTexts DEF TextOf, TextsTyped, inputs
<1> DEFINE t == text[f]
<1>3. Kept(t) \in SUBSET Nat /\ Kept(t) \subseteq DOMAIN t /\ DOMAIN t = 1 .. Len(t) /\ Len(t) \in Nat
  BY <1>2, KeptType
<1>4. \A i \in DOMAIN t : ~(i < 1)
  BY <1>3
<1>5. Below(Kept(t), 1) = {} /\ Cardinality({}) = 0 /\ Len(<<>>) = 0
  BY <1>3, <1>4, FS_EmptySet DEF Below
<1>6. PathsRead(x, 1)'
  BY <1>1, <1>2, <1>4 DEF PathsRead
<1>7. Len(ChildrenOf(x))' = Cardinality(Below(Kept(t), 1))
  BY <1>1, <1>5 DEF ChildrenOf
<1>8. QED BY <1>1, <1>2, <1>4, <1>5, <1>6, <1>7 DEF ReadWell

\* The file that is included is needed, and is on the disk.
LEMMA IncludeSoFar ==
  ASSUME LinkInv, LoadInv, ~failed, IncludeFile
  PROVE  LoadInv'
<1>1. phase = "preprocess"
  BY DEF IncludeFile, Reads
<1>2. Typed /\ Tree /\ stack # <<>> /\ ProgramsSoFar /\ StackSoFar /\ ~result
  BY <1>1, InTheMiddle
<1>3. PICK s \in Statements :
        /\ Reads(s) /\ s.op = "include" /\ ~AlreadyIncluded(Current, s) /\ s.file \in disk
        /\ programs' = Append([programs EXCEPT ![Current].includes = @ \cup {s.file},
                                               ![Current].children = Append(@, Len(programs) + 1)],
                              NewProgram(s.file, Current))
        /\ stack' = Append(Advanced(Standing + 1), [prog |-> Len(programs) + 1, at |-> 1])
        /\ UNCHANGED <<inputs, phase, failed, result>>
  BY DEF IncludeFile
<1>4. PICK c \in Programs, n \in Nat \ {0} : ComesTo(c, n, s)
  BY <1>2, <1>3, AtStatement
<1>5. c = Current /\ n = Standing /\ s = TextOf(c)[n] /\ s.file \in Files
      /\ ~programs[c].context /\ n + 1 \in Nat \ {0}
  BY <1>3, <1>4 DEF ComesTo, Statements
<1>6. PICK x \in Nat \ {0} : x = Len(programs) + 1 /\ x \notin Programs
  BY <1>2, ProgramTypes
<1>7. Entered(s.file, c, x)
  BY <1>2, <1>3, <1>5, <1>6, IncludeEnters
<1>8. n \in Kept(TextOf(c))
  BY <1>2, <1>3, <1>4, <1>5, KeptIfLoads
<1>9. s.file \in Needed
  BY <1>2, <1>4, <1>5, <1>8, TypedTexts, NeededGrows DEF ProgramsSoFar, TextOf
<1>10. UNCHANGED inputs /\ phase' = "preprocess" /\ ~result' /\ ~failed'
  BY <1>1, <1>2, <1>3
<1>11. /\ Programs' = Programs \cup {x}
       /\ \A p \in Programs : Placed(p) /\ programs'[p].wrong = programs[p].wrong
       /\ \A p \in Programs : p # c => Undisturbed(p)
       /\ programs'[c].includes = programs[c].includes \cup {s.file}
       /\ programs'[x].file = s.file /\ programs'[x].parent = c /\ programs'[x].parsed = "no"
       /\ ~programs'[x].wrong /\ ~programs'[x].context
  BY <1>7 DEF Entered, Included, Placed, Undisturbed
<1>12. \A q \in Programs : programs'[q].file = programs[q].file
  BY <1>11 DEF Placed
<1>13. PathsRead(c, n + 1)' /\ (~programs'[c].wrong => ReadWell(c, n + 1)')
  <2>1. PathsRead(c, n + 1)'
    BY <1>2, <1>3, <1>4, <1>10, <1>11, <1>12, PathsReadOn
  <2>2. ASSUME ~programs'[c].wrong PROVE ReadWell(c, n + 1)'
    <3>1. ReadWell(c, n)
      BY <1>4, <1>11, <2>2 DEF ComesTo
    <3>2. QED BY <1>2, <1>3, <1>4, <1>7, <1>8, <1>10, <3>1, IncluderReadsWell
  <2>3. QED BY <2>1, <2>2
<1>14. PathsRead(x, 1)' /\ ReadWell(x, 1)'
  BY <1>2, <1>5, <1>7, <1>10, EnteredReadsWell
<1>15. ASSUME NEW p \in Programs, p # c
       PROVE  /\ Behind(p)' = Behind(p) /\ Behind(p) \in Nat
              /\ \A m \in Nat : /\ ReadWell(p, m) => ReadWell(p, m)'
                                /\ PathsRead(p, m) => PathsRead(p, m)'
  <2>1. Behind(p) \in Nat
    BY <1>2, TypedTexts, LenProperties DEF Behind
  <2>2. QED BY <1>2, <1>10, <1>11, <1>12, <1>15, <2>1, StillReadWell
<1>16. ASSUME NEW p \in Programs'
       PROVE  /\ programs'[p].file \in Needed \cap disk
              /\ p # 1 => programs'[p].parent \in Programs
              /\ programs'[p].wrong => Spoiled(programs'[p].file)
              /\ programs'[p].context => ReadWell(p, Behind(p))'
              /\ programs'[p].parsed = "ok" => programs'[p].file \in sound
  <2>1. CASE p = x
    BY <1>3, <1>4, <1>9, <1>11, <2>1 DEF ComesTo
  <2>2. CASE p \in Programs
    <3>1. Placed(p) /\ programs'[p].wrong = programs[p].wrong
      BY <1>11, <2>2
    <3>2. ASSUME programs'[p].context PROVE ReadWell(p, Behind(p))'
      <4>1. p # c /\ programs[p].context
        BY <1>5, <3>1, <3>2 DEF Placed
      <4>2. PICK m \in Nat : m = Behind(p) /\ m = Behind(p)'
        BY <1>15, <2>2, <4>1
      <4>3. ReadWell(p, m)
        BY <1>2, <2>2, <4>1, <4>2 DEF ProgramsSoFar
      <4>4. ReadWell(p, m)'
        BY <1>15, <2>2, <4>1, <4>3
      <4>5. QED BY <4>2, <4>4
    <3>3. QED BY <1>2, <2>2, <3>1, <3>2 DEF Placed, ProgramsSoFar
  <2>3. QED BY <1>11, <1>16, <2>1, <2>2
<1>17. ProgramsSoFar'
  <2>1. Needed' = Needed /\ disk' = disk /\ sound' = sound
    BY <1>10, InputsFixed
  <2>2. 1 \in Programs' /\ programs'[1].file = Root /\ Programs \subseteq Programs'
    BY <1>2, <1>11, <1>12 DEF ProgramsSoFar
  <2>3. ASSUME NEW p \in Programs'
        PROVE  (programs[p].wrong => Spoiled(programs[p].file))'
    <3>1. PICK f : f = programs'[p].file
      OBVIOUS
    <3>2. Spoiled(f)' <=> Spoiled(f)
      BY <1>10, InputsFixed
    <3>3. QED BY <1>16, <3>1, <3>2
  <2>4. QED BY <1>16, <2>1, <2>2, <2>3 DEF ProgramsSoFar
<1>18. /\ Len(stack) \in Nat \ {0} /\ DOMAIN stack = 1 .. Len(stack)
       /\ c = stack[Len(stack)].prog
       /\ \A i \in DOMAIN stack : stack[i].prog \in Programs
       /\ DOMAIN stack' = 1 .. Len(stack) + 1
       /\ \A i \in DOMAIN stack :
            /\ stack'[i].prog = stack[i].prog
            /\ stack'[i].at = IF i = Len(stack) THEN n + 1 ELSE stack[i].at
       /\ stack'[Len(stack) + 1].prog = x /\ stack'[Len(stack) + 1].at = 1
  <2>1. /\ Len(stack) \in Nat \ {0} /\ DOMAIN stack = 1 .. Len(stack)
        /\ c = stack[Len(stack)].prog
        /\ \A i \in DOMAIN stack : stack[i].prog \in Programs
    BY <1>2, <1>5, Top DEF Typed
  <2>2. stack' = Append(Advanced(n + 1), [prog |-> x, at |-> 1])
    BY <1>3, <1>5, <1>6
  <2>3. /\ DOMAIN stack' = 1 .. Len(stack) + 1
        /\ \A i \in DOMAIN stack :
             /\ stack'[i].prog = stack[i].prog
             /\ stack'[i].at = IF i = Len(stack) THEN n + 1 ELSE stack[i].at
        /\ stack'[Len(stack) + 1] = [prog |-> x, at |-> 1]
    BY <1>2, <1>5, <2>2, PushedStack
  <2>4. QED BY <2>1, <2>3
<1>19. ASSUME NEW i \in DOMAIN stack'
       PROVE  /\ ~programs'[stack'[i].prog].context
              /\ PathsRead(stack[i].prog, stack[i].at)'
              /\ ~programs'[stack'[i].prog].wrong => ReadWell(stack[i].prog, stack[i].at)'
  <2>1. CASE i = Len(stack) + 1
    <3>1. PICK p, m : p = stack'[i].prog /\ m = stack'[i].at /\ p = x /\ m = 1
      BY <1>18, <2>1
    <3>2. PathsRead(p, m)' /\ ReadWell(p, m)' /\ ~programs'[p].context
      BY <1>11, <1>14, <3>1
    <3>3. QED BY <3>1, <3>2
  <2>2. CASE i \in DOMAIN stack
    <3>1. PICK p \in Programs, m \in Nat :
            /\ p = stack'[i].prog /\ m = stack'[i].at /\ p = stack[i].prog
            /\ m = IF i = Len(stack) THEN n + 1 ELSE stack[i].at
      <4>1. stack[i] \in Activations
        BY <1>2, <1>18, <2>2, ElementOfSeq DEF Typed
      <4>2. QED BY <1>5, <1>18, <2>2, <4>1 DEF Activations
    <3>2. ~programs'[p].context
      BY <1>2, <1>11, <2>2, <3>1 DEF Placed, StackSoFar
    <3>3. CASE i = Len(stack)
      <4>1. p = c /\ m = n + 1
        BY <1>18, <3>1, <3>3
      <4>2. PathsRead(p, m)' /\ (~programs'[p].wrong => ReadWell(p, m)')
        BY <1>13, <4>1
      <4>3. QED BY <3>1, <3>2, <4>2
    <3>4. CASE i # Len(stack)
      <4>1. p # c /\ m = stack[i].at
        BY <1>2, <1>18, <2>2, <3>1, <3>4 DEF StackSoFar
      <4>2. PathsRead(p, m) /\ (~programs[p].wrong => ReadWell(p, m))
        BY <1>2, <2>2, <3>1, <4>1 DEF StackSoFar
      <4>3. PathsRead(p, m)' /\ (~programs'[p].wrong => ReadWell(p, m)')
        BY <1>11, <1>15, <4>1, <4>2
      <4>4. QED BY <3>1, <3>2, <4>3
    <3>5. QED BY <3>3, <3>4
  <2>3. QED BY <1>18, <1>19, <2>1, <2>2
<1>20. StackSoFar'
  <2>1. \A i \in DOMAIN stack' : i \in DOMAIN stack \/ i = Len(stack) + 1
    BY <1>18
  <2>2. \A i, j \in DOMAIN stack' : stack'[i].prog = stack'[j].prog => i = j
    BY <1>2, <1>6, <1>18, <2>1 DEF StackSoFar
  <2>3. QED BY <1>19, <2>2 DEF StackSoFar
<1>21. QED BY <1>10, <1>17, <1>20 DEF LoadInv

----------------------------------------------------------------------------
\* A program that is through.

\* Behind the last statement nothing is left to read.
LEMMA ReadToEnd ==
  ASSUME Typed, NEW p \in Programs
  PROVE  /\ Behind(p) \in Nat
         /\ Below(Kept(TextOf(p)), Behind(p)) = Kept(TextOf(p))
         /\ \A n \in Nat : n > Len(TextOf(p)) /\ ReadWell(p, n) => ReadWell(p, Behind(p))
<1> DEFINE t == TextOf(p)
           K == Kept(t)
<1>1. t \in Seq(Statements) /\ K \subseteq DOMAIN t /\ DOMAIN t = 1 .. Len(t) /\ Len(t) \in Nat
  BY TypedTexts, KeptType
<1>2. Behind(p) \in Nat /\ \A i \in DOMAIN t : i < Behind(p)
  BY <1>1 DEF Behind
<1>3. Below(K, Behind(p)) = K
  BY <1>1, <1>2 DEF Below
<1>4. ASSUME NEW n \in Nat, n > Len(t), ReadWell(p, n) PROVE ReadWell(p, Behind(p))
  <2>1. \A i \in DOMAIN t : i < n
    BY <1>1, <1>4
  <2>2. Below(K, n) = Below(K, Behind(p))
    BY <1>1, <1>3, <2>1 DEF Below
  <2>3. QED BY <1>2, <1>4, <2>1, <2>2 DEF ReadWell
<1>5. QED BY <1>2, <1>3, <1>4

\* Its children are what its text asks for.
LEMMA MirrorsText ==
  ASSUME Typed, NEW p \in Programs, ReadWell(p, Behind(p))
  PROVE  [i \in DOMAIN ChildrenOf(p) |-> programs[ChildrenOf(p)[i]].file] = Asks(programs[p].file)
<1> DEFINE f == programs[p].file
           K == Kept(TextOf(p))
           kids == ChildrenOf(p)
           files == [i \in DOMAIN kids |-> programs[kids[i]].file]
<1>1. /\ TextsTyped /\ f \in Files /\ TextOf(p) \in Seq(Statements) /\ TextOf(p) = text[f]
      /\ K \in SUBSET Nat /\ IsFiniteSet(K)
  BY TypedTexts, KeptType DEF TextOf
<1>2. /\ DOMAIN Asks(f) = 1 .. Cardinality(K)
      /\ Asks(f) = [m \in 1 .. Cardinality(K) |-> Asks(f)[m]]
      /\ \A i \in K : Asks(f)[Rank(K, i)] = TextOf(p)[i].file
  BY <1>1, AsksByRank
<1>3. Below(K, Behind(p)) = K
  BY ReadToEnd
<1>4. DOMAIN kids = 1 .. Cardinality(K) /\ \A i \in K : programs[kids[Rank(K, i)]].file = TextOf(p)[i].file
  BY <1>3, ProgramTypes DEF ReadWell
<1>5. ASSUME NEW m \in 1 .. Cardinality(K) PROVE files[m] = Asks(f)[m]
  <2>1. PICK i \in K : Rank(K, i) = m
    BY <1>1, RankReached
  <2>2. QED BY <1>2, <1>4, <2>1
<1>6. QED BY <1>2, <1>4, <1>5

\* So the files of the children are those it asks for.
LEMMA AskedAreChildren ==
  ASSUME Typed, Tree, NEW p \in Programs, ReadWell(p, Behind(p))
  PROVE  /\ \A f \in ToSet(Asks(programs[p].file)) :
              \E q \in Programs : q > p /\ programs[q].parent = p /\ programs[q].file = f
         /\ \A q \in Programs :
              programs[q].parent = p => programs[q].file \in ToSet(Asks(programs[p].file))
<1> DEFINE kids == ChildrenOf(p)
           a == Asks(programs[p].file)
<1>1. [i \in DOMAIN kids |-> programs[kids[i]].file] = a
  BY MirrorsText
<1>2. DOMAIN a = DOMAIN kids /\ \A i \in DOMAIN kids : a[i] = programs[kids[i]].file
  BY <1>1
<1> HIDE DEF a
<1>3. ASSUME NEW f \in ToSet(a)
      PROVE  \E q \in Programs : q > p /\ programs[q].parent = p /\ programs[q].file = f
  <2>1. PICK i \in DOMAIN kids : f = programs[kids[i]].file
    BY <1>2 DEF ToSet
  <2>2. kids[i] \in Programs /\ programs[kids[i]].parent = p /\ p < kids[i]
    BY DEF Tree
  <2>3. kids[i] \in Nat /\ p \in Nat
    BY <2>2, ProgramTypes
  <2>4. QED BY <2>1, <2>2, <2>3
<1>4. ASSUME NEW q \in Programs, programs[q].parent = p
      PROVE  programs[q].file \in ToSet(a)
  <2>1. PICK i \in DOMAIN kids : kids[i] = q
    BY <1>4 DEF Tree
  <2>2. QED BY <1>2, <2>1 DEF ToSet
<1>5. QED BY <1>3, <1>4 DEF a

\* When all files are through, none of them has included the root: it would have
\* been included again and again.
LEMMA RootOnce ==
  ASSUME Typed, Tree, ProgramsSoFar, \A p \in Programs : programs[p].context,
         NEW b \in Programs, b # 1
  PROVE  programs[b].file # Root
<1>1. SUFFICES ASSUME programs[b].file = Root PROVE FALSE
  OBVIOUS
<1> DEFINE B == {q \in Programs : q # 1 /\ programs[q].file = Root}
           T == {Len(programs) - q : q \in B}
<1>2. Len(programs) \in Nat /\ Programs = 1 .. Len(programs)
  BY ProgramTypes
<1>3. T \in SUBSET Nat /\ T # {}
  BY <1>1, <1>2
<1>4. PICK m \in B : \A q \in B : q <= m
  <2>1. PICK d \in T : \A e \in T : d <= e
    BY <1>3, Least
  <2>2. PICK m \in B : d = Len(programs) - m
    BY <2>1
  <2>3. ASSUME NEW q \in B PROVE q <= m
    <3>1. Len(programs) - m <= Len(programs) - q
      BY <2>1, <2>2
    <3>2. m \in Nat /\ q \in Nat
      BY <1>2
    <3>3. QED BY <1>2, <3>1, <3>2
  <2>4. QED BY <2>3
<1>5. PICK r \in Programs : r = programs[m].parent
  BY DEF ProgramsSoFar
<1> DEFINE G == {programs[p].file : p \in {p \in Programs : m <= p}}
<1>6. \A p \in Programs : ReadWell(p, Behind(p)) /\ p \in Nat /\ programs[p].file \in Files
  BY ProgramTypes, TypedTexts DEF ProgramsSoFar
<1>7. ASSUME NEW f \in G, NEW g \in ToSet(Asks(f)) PROVE g \in G
  <2>1. PICK p \in Programs : m <= p /\ f = programs[p].file
    OBVIOUS
  <2>2. PICK q \in Programs : q > p /\ programs[q].file = g
    BY <1>6, <1>7, <2>1, AskedAreChildren
  <2>3. m <= q
    BY <1>6, <2>1, <2>2
  <2>4. QED BY <2>2, <2>3
<1>8. Root \in G /\ G \in SUBSET Files
  <2>1. programs[m].file = Root /\ m \in {p \in Programs : m <= p}
    BY <1>6
  <2>2. Root \in G
    BY <2>1
  <2>3. QED BY <1>6, <2>2
<1>9. programs[r].file \in G
  <2>1. Needed \subseteq G
    <3> HIDE DEF G
    <3>1. QED BY <1>7, <1>8, NeededLeast
  <2>2. QED BY <2>1 DEF ProgramsSoFar
<1>10. PICK p \in Programs : m <= p /\ programs[p].file = programs[r].file
  BY <1>9
<1>11. Root \in ToSet(Asks(programs[p].file))
  <2>1. programs[m].file = Root /\ m \in Programs
    OBVIOUS
  <2>2. QED BY <1>5, <1>6, <1>10, <2>1, AskedAreChildren
<1>12. PICK q \in Programs : q > p /\ programs[q].parent = p /\ programs[q].file = Root
  BY <1>6, <1>11, AskedAreChildren
<1>13. q # 1
  BY <1>2, <1>12
<1>14. q <= m
  BY <1>4, <1>12, <1>13
<1>15. QED BY <1>6, <1>10, <1>12, <1>14

\* A step that leaves the preprocessors alone.
LEMMA QuietSoFar ==
  ASSUME Typed, Tree, ProgramsSoFar, UNCHANGED inputs, Programs' = Programs,
         \A p \in Programs :
           /\ Undisturbed(p)
           /\ programs'[p].parent = programs[p].parent
           /\ programs'[p].context => ReadWell(p, Behind(p))
           /\ programs'[p].parsed = "ok" => programs[p].file \in sound
  PROVE  /\ ProgramsSoFar'
         /\ \A p \in Programs : \A n \in Nat : /\ ReadWell(p, n) => ReadWell(p, n)'
                                               /\ PathsRead(p, n) => PathsRead(p, n)'
<1>1. \A q \in Programs : programs'[q].file = programs[q].file
  BY DEF Undisturbed
<1>2. ASSUME NEW p \in Programs
      PROVE  /\ Behind(p)' = Behind(p) /\ Behind(p) \in Nat
             /\ \A n \in Nat : /\ ReadWell(p, n) => ReadWell(p, n)'
                               /\ PathsRead(p, n) => PathsRead(p, n)'
  BY <1>1, StillReadWell, ReadToEnd
<1>3. ASSUME NEW p \in Programs
      PROVE  /\ programs'[p].file \in Needed \cap disk
             /\ p # 1 => programs'[p].parent \in Programs
             /\ programs'[p].wrong => Spoiled(programs'[p].file)
             /\ programs'[p].context => ReadWell(p, Behind(p))'
             /\ programs'[p].parsed = "ok" => programs'[p].file \in sound
  <2>1. ASSUME programs'[p].context PROVE ReadWell(p, Behind(p))'
    <3>1. PICK m \in Nat : m = Behind(p) /\ m = Behind(p)'
      BY <1>2
    <3>2. ReadWell(p, m)'
      BY <1>2, <2>1, <3>1
    <3>3. QED BY <3>1, <3>2
  <2>2. QED BY <1>1, <2>1 DEF Undisturbed, ProgramsSoFar
<1>4. ProgramsSoFar'
  <2>1. Needed' = Needed /\ disk' = disk /\ sound' = sound
    BY InputsFixed
  <2>2. 1 \in Programs' /\ programs'[1].file = Root
    BY <1>1 DEF ProgramsSoFar
  <2>3. ASSUME NEW p \in Programs
        PROVE  (programs[p].wrong => Spoiled(programs[p].file))'
    <3>1. PICK f : f = programs'[p].file
      OBVIOUS
    <3>2. Spoiled(f)' <=> Spoiled(f)
      BY InputsFixed
    <3>3. QED BY <1>3, <3>1, <3>2
  <2>4. QED BY <1>3, <2>1, <2>2, <2>3 DEF ProgramsSoFar
<1>5. QED BY <1>2, <1>4

LEMMA ContextField ==
  ASSUME Typed, NEW c \in Programs
  PROVE  programs' = [programs EXCEPT ![c].context = ~programs[c].wrong] =>
           /\ Programs' = Programs
           /\ \A p \in Programs : /\ Undisturbed(p)
                                  /\ programs'[p].parent = programs[p].parent
                                  /\ programs'[p].parsed = programs[p].parsed
                                  /\ p # c => programs'[p].context = programs[p].context
           /\ programs'[c].context = ~programs[c].wrong
<1> DEFINE r == [programs[c] EXCEPT !.context = ~programs[c].wrong]
           t == [programs EXCEPT ![c] = r]
<1>1. programs[c] \in ProgramRecords
  BY ProgramTypes
<1>2. /\ r.file = programs[c].file /\ r.parent = programs[c].parent
      /\ r.children = programs[c].children /\ r.parsed = programs[c].parsed
      /\ r.includes = programs[c].includes /\ r.package = programs[c].package
      /\ r.wrong = programs[c].wrong /\ r.context = ~programs[c].wrong
  BY <1>1 DEF ProgramRecords
<1>3. [programs EXCEPT ![c].context = ~programs[c].wrong] = t
  OBVIOUS
<1> HIDE DEF r
<1>4. DOMAIN t = Programs /\ \A q \in Programs : t[q] = IF q = c THEN r ELSE programs[q]
  BY DEF Programs
<1> HIDE DEF t
<1>5. SUFFICES ASSUME programs' = t
               PROVE  /\ Programs' = Programs
                      /\ \A p \in Programs :
                           /\ Undisturbed(p)
                           /\ programs'[p].parent = programs[p].parent
                           /\ programs'[p].parsed = programs[p].parsed
                           /\ p # c => programs'[p].context = programs[p].context
                      /\ programs'[c].context = ~programs[c].wrong
  BY <1>3
<1>6. QED BY <1>2, <1>4, <1>5 DEF Undisturbed, Programs

\* Preprocess of c returns without an error.
LEMMA ReturnsWell ==
  ASSUME Typed, Tree, stack # <<>>, ProgramsSoFar, StackSoFar, UNCHANGED inputs,
         NEW c \in Programs, c = Current, Standing > Len(TextOf(c)), ~programs[c].wrong,
         programs' = [programs EXCEPT ![c].context = ~programs[c].wrong]
  PROVE  /\ ProgramsSoFar' /\ Programs' = Programs
         /\ \A p \in Programs : /\ Undisturbed(p)
                                /\ p # c => programs'[p].context = programs[p].context
                                /\ programs'[p].parsed = programs[p].parsed
         /\ programs'[c].context
         /\ \A p \in Programs : \A n \in Nat : /\ ReadWell(p, n) => ReadWell(p, n)'
                                               /\ PathsRead(p, n) => PathsRead(p, n)'
<1>1. /\ Programs' = Programs
      /\ \A p \in Programs : /\ Undisturbed(p)
                             /\ programs'[p].parent = programs[p].parent
                             /\ programs'[p].parsed = programs[p].parsed
                             /\ p # c => programs'[p].context = programs[p].context
      /\ programs'[c].context = ~programs[c].wrong
  BY ContextField
<1>2. ReadWell(c, Behind(c))
  <2>1. /\ Len(stack) \in DOMAIN stack /\ c = stack[Len(stack)].prog
        /\ Standing = stack[Len(stack)].at /\ Standing \in Nat
    BY Top
  <2>2. PICK n \in Nat : n = Standing /\ n = stack[Len(stack)].at
    BY <2>1
  <2>3. ReadWell(c, n)
    BY <2>1, <2>2 DEF StackSoFar
  <2>4. QED BY <2>2, <2>3, ReadToEnd
<1>3. \A p \in Programs :
        /\ programs'[p].context => ReadWell(p, Behind(p))
        /\ programs'[p].parsed = "ok" => programs[p].file \in sound
  BY <1>1, <1>2 DEF ProgramsSoFar
<1>4. QED BY <1>1, <1>3, QuietSoFar

LEMMA WrongForReason ==
  ASSUME Typed, ProgramsSoFar, NEW c \in Programs, programs[c].wrong
  PROVE  ~Loadable
BY TypedTexts, SpoiledFails DEF ProgramsSoFar

LEMMA FinishIncludeSoFar ==
  ASSUME LinkInv, LoadInv, ~failed, FinishInclude
  PROVE  LoadInv'
<1>1. phase = "preprocess" /\ phase' = "preprocess"
  BY DEF FinishInclude
<1>2. Typed /\ Tree /\ stack # <<>> /\ ProgramsSoFar /\ StackSoFar /\ ~result
  BY <1>1, InTheMiddle
<1>3. PICK c \in Programs : c = Current
  BY <1>2, Top
<1>4. /\ programs' = [programs EXCEPT ![c].context = ~programs[c].wrong]
      /\ failed' = (failed \/ programs[c].wrong)
      /\ stack' = Front(stack) /\ Standing > Len(TextOf(c))
      /\ UNCHANGED inputs /\ result' = result
  BY <1>3 DEF FinishInclude
<1>5. CASE programs[c].wrong
  <2>1. ~Loadable
    BY <1>2, <1>5, WrongForReason
  <2>2. failed' /\ ~result' /\ phase' # "parse"
    BY <1>1, <1>2, <1>4, <1>5
  <2>3. QED BY <1>4, <2>1, <2>2, FailsForReason
<1>6. CASE ~programs[c].wrong
  <2>1. /\ ProgramsSoFar' /\ Programs' = Programs
        /\ \A p \in Programs : /\ Undisturbed(p)
                               /\ p # c => programs'[p].context = programs[p].context
        /\ \A p \in Programs : \A n \in Nat : /\ ReadWell(p, n) => ReadWell(p, n)'
                                              /\ PathsRead(p, n) => PathsRead(p, n)'
    BY <1>2, <1>3, <1>4, <1>6, ReturnsWell
  <2>2. /\ Len(stack) \in Nat \ {0} /\ DOMAIN stack = 1 .. Len(stack)
        /\ c = stack[Len(stack)].prog
        /\ \A i \in DOMAIN stack : stack[i].prog \in Programs /\ stack[i] \in Activations
        /\ DOMAIN stack' = 1 .. Len(stack) - 1
        /\ \A i \in 1 .. Len(stack) - 1 : stack'[i] = stack[i]
    <3>1. /\ Len(stack) \in Nat \ {0} /\ DOMAIN stack = 1 .. Len(stack)
          /\ c = stack[Len(stack)].prog
      BY <1>2, <1>3, Top
    <3>2. \A i \in DOMAIN stack : stack[i].prog \in Programs /\ stack[i] \in Activations
      BY <1>2, <3>1, ElementOfSeq DEF Typed
    <3>3. /\ DOMAIN stack' = 1 .. Len(stack) - 1
          /\ \A i \in 1 .. Len(stack) - 1 : stack'[i] = stack[i]
      BY <1>2, <1>4, PoppedStack
    <3>4. QED BY <3>1, <3>2, <3>3
  <2>3. ASSUME NEW i \in DOMAIN stack'
        PROVE  /\ ~programs'[stack'[i].prog].context
               /\ PathsRead(stack[i].prog, stack[i].at)'
               /\ ~programs'[stack'[i].prog].wrong => ReadWell(stack[i].prog, stack[i].at)'
    <3>1. i \in DOMAIN stack /\ i # Len(stack) /\ Len(stack) \in DOMAIN stack
      BY <2>2, <2>3
    <3>2. PICK p \in Programs, m \in Nat :
            /\ p = stack'[i].prog /\ m = stack'[i].at /\ p = stack[i].prog /\ m = stack[i].at
      BY <2>2, <2>3, <3>1 DEF Activations
    <3>3. p # c
      BY <1>2, <2>2, <3>1, <3>2 DEF StackSoFar
    <3>4. PathsRead(p, m) /\ (~programs[p].wrong => ReadWell(p, m)) /\ ~programs[p].context
      BY <1>2, <3>1, <3>2 DEF StackSoFar
    <3>5. PathsRead(p, m)' /\ (~programs'[p].wrong => ReadWell(p, m)') /\ ~programs'[p].context
      BY <2>1, <3>3, <3>4 DEF Undisturbed
    <3>6. QED BY <3>2, <3>5
  <2>4. StackSoFar'
    <3>1. \A i, j \in DOMAIN stack' : stack'[i].prog = stack'[j].prog => i = j
      <4>1. 1 .. Len(stack) - 1 \subseteq 1 .. Len(stack)
        BY <2>2
      <4>2. QED BY <1>2, <2>2, <4>1 DEF StackSoFar
    <3>2. QED BY <2>3, <3>1 DEF StackSoFar
  <2>5. ~failed' /\ ~result'
    BY <1>2, <1>4, <1>6
  <2>6. QED BY <1>1, <2>1, <2>4, <2>5 DEF LoadInv
<1>7. QED BY <1>5, <1>6

\* The root is through: no program is left in the middle of its text.
LEMMA FinishRootSoFar ==
  ASSUME LinkInv, LoadInv, ~failed, FinishRoot
  PROVE  LoadInv'
<1>1. phase = "preprocess"
  BY DEF FinishRoot
<1>2. /\ Typed /\ Tree /\ stack # <<>> /\ ProgramsSoFar /\ StackSoFar /\ ~result
      /\ Preprocessing
  BY <1>1, InTheMiddle DEF LinkInv
<1>3. PICK c \in Programs : c = Current /\ c = 1
  BY <1>2, Top DEF FinishRoot, Preprocessing
<1>4. /\ programs' = [programs EXCEPT ![c].context = ~programs[c].wrong]
      /\ failed' = (failed \/ programs[c].wrong)
      /\ failed' => phase' = "done" /\ stack' = <<>>
      /\ ~failed' => phase' = "parse" /\ stack' = <<[prog |-> 1, at |-> 1]>>
      /\ Standing > Len(TextOf(c)) /\ Len(stack) = 1
      /\ UNCHANGED inputs /\ result' = result
  BY <1>3 DEF FinishRoot
<1>5. CASE programs[c].wrong
  <2>1. ~Loadable
    BY <1>2, <1>5, WrongForReason
  <2>2. failed' /\ ~result' /\ phase' # "parse"
    BY <1>2, <1>4, <1>5
  <2>3. QED BY <1>4, <2>1, <2>2, FailsForReason
<1>6. CASE ~programs[c].wrong
  <2>1. /\ ProgramsSoFar' /\ Programs' = Programs
        /\ \A p \in Programs : /\ Undisturbed(p)
                               /\ p # c => programs'[p].context = programs[p].context
                               /\ programs'[p].parsed = programs[p].parsed
        /\ programs'[c].context
    BY <1>2, <1>3, <1>4, <1>6, ReturnsWell
  <2>2. ~failed' /\ phase' = "parse" /\ stack' = <<[prog |-> 1, at |-> 1]>>
    BY <1>4, <1>6
  <2>3. \A p \in Programs : p # c => programs[p].context
    <3>1. \A i \in DOMAIN stack : stack[i].prog = c
      BY <1>2, <1>3, <1>4, Top DEF Preprocessing
    <3>2. QED BY <1>2, <3>1 DEF Preprocessing, OnStack
  <2>4. \A p \in Programs : programs'[p].context /\ programs'[p].parsed = "no"
    BY <1>2, <2>1, <2>3 DEF Preprocessing
  <2>5. \A p \in Programs : OnStack(p)' => p = 1
    BY <2>2 DEF OnStack
  <2>6. ParseSoFar'
    BY <2>1, <2>4, <2>5 DEF ParseSoFar
  <2>7. QED BY <1>2, <1>4, <2>1, <2>2, <2>6 DEF LoadInv
<1>7. QED BY <1>5, <1>6

----------------------------------------------------------------------------
\* One step of the parser.

LEMMA WhileParsing ==
  ASSUME LinkInv, LoadInv, phase = "parse"
  PROVE  /\ Typed /\ Tree /\ stack # <<>> /\ Parsing /\ ProgramsSoFar /\ ParseSoFar
         /\ ~failed /\ ~result
BY DEF LinkInv, LoadInv, Typed

\* The child an activation has come to.
LEMMA NextChild ==
  ASSUME Typed, Tree, stack # <<>>, NEW c \in Programs, c = Current,
         Standing <= Len(ChildrenOf(c))
  PROVE  /\ ChildrenOf(c)[Standing] \in Programs
         /\ programs[ChildrenOf(c)[Standing]].parent = c
         /\ ChildrenOf(c)[Standing] # 1
<1>1. Standing \in Nat \ {0} /\ c \in Nat \ {0}
  BY Top, ProgramTypes
<1>2. Standing \in DOMAIN ChildrenOf(c)
  BY <1>1, ProgramTypes
<1>3. /\ ChildrenOf(c)[Standing] \in Programs
      /\ programs[ChildrenOf(c)[Standing]].parent = c
      /\ c < ChildrenOf(c)[Standing]
  BY <1>2 DEF Tree
<1>4. ChildrenOf(c)[Standing] # 1
  BY <1>1, <1>3
<1>5. QED BY <1>3, <1>4

\* A file that is included and names no package is needed, and is not the root.
LEMMA RefuseSoFar ==
  ASSUME LinkInv, LoadInv, RefuseChild
  PROVE  LoadInv'
<1>1. phase = "parse"
  BY DEF RefuseChild
<1>2. /\ Typed /\ Tree /\ stack # <<>> /\ ProgramsSoFar /\ ParseSoFar /\ ~result
  BY <1>1, WhileParsing
<1>3. PICK c \in Programs : c = Current
  BY <1>2, Top
<1>4. PICK p \in Programs : p # 1 /\ ~programs[p].package
  BY <1>2, <1>3, NextChild DEF RefuseChild
<1>5. /\ programs[p].file # Root /\ programs[p].file \in Needed
      /\ ReadWell(p, Behind(p)) /\ TextOf(p) = text[programs[p].file]
  BY <1>2, <1>4, RootOnce DEF ParseSoFar, ProgramsSoFar, TextOf
<1>6. \A i \in DOMAIN TextOf(p) : i < Behind(p)
  <2>1. TextOf(p) \in Seq(Statements)
    BY <1>2, TypedTexts
  <2>2. DOMAIN TextOf(p) = 1 .. Len(TextOf(p)) /\ Len(TextOf(p)) \in Nat
    BY <2>1, KeptType
  <2>3. QED BY <2>2 DEF Behind
<1>7. {i \in DOMAIN TextOf(p) : TextOf(p)[i].op = "package"} = {}
  BY <1>4, <1>5, <1>6 DEF ReadWell
<1>8. ~Loadable
  BY <1>5, <1>7, FS_EmptySet DEF Loadable
<1>9. QED
  BY <1>2, <1>8, FailsForReason DEF RefuseChild, GiveUp

LEMMA EnterSoFar ==
  ASSUME LinkInv, LoadInv, EnterChild
  PROVE  LoadInv'
<1>1. phase = "parse" /\ phase' = "parse" /\ programs' = programs
      /\ failed' = failed /\ result' = result /\ UNCHANGED inputs
  BY DEF EnterChild
<1>2. /\ Typed /\ Tree /\ stack # <<>> /\ ProgramsSoFar /\ ParseSoFar /\ ~result /\ ~failed
  BY <1>1, WhileParsing
<1>3. PICK c \in Programs : c = Current
  BY <1>2, Top
<1>4. PICK p \in Programs :
        /\ programs[p].package
        /\ stack' = Append(Advanced(Standing + 1), [prog |-> p, at |-> 1])
  BY <1>2, <1>3, NextChild DEF EnterChild
<1>5. /\ Len(stack) \in Nat \ {0} /\ DOMAIN stack = 1 .. Len(stack)
      /\ DOMAIN stack' = 1 .. Len(stack) + 1
      /\ \A i \in DOMAIN stack : stack'[i].prog = stack[i].prog
      /\ stack'[Len(stack) + 1].prog = p
  <2>1. Standing + 1 \in Nat \ {0} /\ p \in Nat \ {0} /\ Len(stack) \in Nat \ {0}
        /\ DOMAIN stack = 1 .. Len(stack)
    BY <1>2, Top, ProgramTypes
  <2>2. /\ DOMAIN stack' = 1 .. Len(stack) + 1
        /\ \A i \in DOMAIN stack : stack'[i].prog = stack[i].prog
        /\ stack'[Len(stack) + 1] = [prog |-> p, at |-> 1]
    BY <1>2, <1>4, <2>1, PushedStack
  <2>3. QED BY <2>1, <2>2
<1>6. \A q \in Programs : OnStack(q)' => OnStack(q) \/ q = p
  BY <1>5 DEF OnStack
<1>7. ParseSoFar'
  BY <1>1, <1>2, <1>4, <1>6 DEF ParseSoFar, Programs
<1>8. ProgramsSoFar'
  <2>1. /\ Programs' = Programs
        /\ \A q \in Programs : /\ Undisturbed(q)
                               /\ programs'[q].parent = programs[q].parent
    BY <1>1 DEF Undisturbed, Programs
  <2>2. \A q \in Programs : /\ programs'[q].context => ReadWell(q, Behind(q))
                            /\ programs'[q].parsed = "ok" => programs[q].file \in sound
    BY <1>1, <1>2 DEF ProgramsSoFar
  <2>3. QED BY <1>1, <1>2, <2>1, <2>2, QuietSoFar
<1>9. QED BY <1>1, <1>2, <1>7, <1>8 DEF LoadInv

LEMMA LinkedQuiet ==
  ASSUME Typed, NEW c \in Programs, NEW v \in {"ok", "bad"}, programs' = Linked(c, v)
  PROVE  /\ Programs' = Programs
         /\ \A q \in Programs : Undisturbed(q)
<1>1. DOMAIN programs' = Programs /\ \A q \in Programs :
        programs'[q] = IF q = c THEN [programs[q] EXCEPT !.parsed = v]
                       ELSE IF q = programs[c].parent
                              THEN [programs[q] EXCEPT !.kids = Append(@, c)]
                       ELSE programs[q]
  BY DEF Linked
<1>2. ASSUME NEW q \in Programs PROVE Undisturbed(q)
  <2>1. programs[q] \in ProgramRecords
    BY ProgramTypes
  <2>2. CASE q = c
    <3>1. programs'[q] = [programs[q] EXCEPT !.parsed = v]
      BY <1>1, <2>2
    <3>2. QED BY <2>1, <3>1 DEF Undisturbed, ProgramRecords
  <2>3. CASE q # c /\ q = programs[c].parent
    <3>1. programs'[q] = [programs[q] EXCEPT !.kids = Append(@, c)]
      BY <1>1, <2>3
    <3>2. QED BY <2>1, <3>1 DEF Undisturbed, ProgramRecords
  <2>4. CASE q # c /\ q # programs[c].parent
    BY <1>1, <2>4 DEF Undisturbed
  <2>5. QED BY <2>2, <2>3, <2>4
<1>3. QED BY <1>1, <1>2 DEF Programs

LEMMA ParseSoFarKept ==
  ASSUME LinkInv, LoadInv, ParseProgram
  PROVE  LoadInv'
<1>1. phase = "parse" /\ failed' = failed /\ UNCHANGED inputs
  BY DEF ParseProgram
<1>2. /\ Typed /\ Tree /\ stack # <<>> /\ Parsing /\ ProgramsSoFar /\ ParseSoFar
      /\ ~result /\ ~failed
  BY <1>1, WhileParsing
<1>3. PICK c \in Programs : c = Current
  BY <1>2, Top
<1>4. programs' = Linked(c, "ok") /\ programs[c].file \in sound
  BY <1>3 DEF ParseProgram
<1>5. /\ Programs' = Programs
      /\ \A q \in Programs :
           /\ Undisturbed(q)
           /\ programs'[q].parent = programs[q].parent
           /\ programs'[q].context = programs[q].context
           /\ programs'[q].parsed = IF q = c THEN "ok" ELSE programs[q].parsed
  BY <1>2, <1>4, LinkedQuiet, LinkedPrograms DEF ParseEnds
<1>6. \A q \in Programs : /\ programs'[q].context => ReadWell(q, Behind(q))
                          /\ programs'[q].parsed = "ok" => programs[q].file \in sound
  BY <1>2, <1>4, <1>5 DEF ProgramsSoFar
<1>7. ProgramsSoFar'
  BY <1>1, <1>2, <1>5, <1>6, QuietSoFar
<1>8. /\ Len(stack) \in DOMAIN stack /\ DOMAIN stack = 1 .. Len(stack) /\ Len(stack) \in Nat
      /\ c = stack[Len(stack)].prog
  BY <1>2, <1>3, Top
<1>9. OnStack(c)
  BY <1>8 DEF OnStack
<1>10. \A q \in Programs : OnStack(q)' => OnStack(q)
  <2>1. CASE Len(stack) = 1
    <3>1. stack' = <<>> /\ DOMAIN <<>> = {}
      BY <2>1 DEF ParseProgram
    <3>2. QED BY <3>1 DEF OnStack
  <2>2. CASE Len(stack) # 1
    <3>1. stack' = Front(stack)
      BY <2>2 DEF ParseProgram
    <3>2. /\ DOMAIN stack' = 1 .. Len(stack) - 1
          /\ \A i \in 1 .. Len(stack) - 1 : stack'[i] = stack[i]
      BY <1>2, <3>1, PoppedStack
    <3>3. 1 .. Len(stack) - 1 \subseteq DOMAIN stack
      BY <1>8
    <3>4. QED BY <3>2, <3>3 DEF OnStack
  <2>3. QED BY <2>1, <2>2
<1>11. ParseSoFar'
  BY <1>2, <1>5, <1>9, <1>10 DEF ParseSoFar, Undisturbed
<1>12. CASE Len(stack) = 1
  <2>1. phase' = "done" /\ result' = TRUE
    BY <1>12 DEF ParseProgram
  <2>2. c = 1
    BY <1>2, <1>8, <1>12 DEF Parsing
  <2>3. programs'[1].parsed = "ok"
    BY <1>5, <2>2
  <2>4. QED BY <1>1, <1>2, <1>7, <1>11, <2>1, <2>3 DEF LoadInv
<1>13. CASE Len(stack) # 1
  <2>1. phase' = "parse" /\ result' = result
    BY <1>1, <1>13 DEF ParseProgram
  <2>2. QED BY <1>1, <1>2, <1>7, <1>11, <2>1 DEF LoadInv
<1>14. QED BY <1>12, <1>13

LEMMA RejectSoFar ==
  ASSUME LinkInv, LoadInv, RejectProgram
  PROVE  LoadInv'
<1>1. phase = "parse"
  BY DEF RejectProgram
<1>2. /\ Typed /\ stack # <<>> /\ ProgramsSoFar /\ ~result
  BY <1>1, WhileParsing
<1>3. Current \in Programs
  BY <1>2, Top
<1>4. ~Loadable
  BY <1>2, <1>3 DEF RejectProgram, ProgramsSoFar, Loadable
<1>5. QED
  BY <1>2, <1>4, FailsForReason DEF RejectProgram, GiveUp

----------------------------------------------------------------------------
\* After an error.

\* A failed Load stays failed.
LEMMA FailedStays ==
  ASSUME LinkInv, LoadInv, failed, [Next]_vars
  PROVE  LoadInv'
<1>1. Typed /\ ~Loadable /\ ~result /\ phase # "parse"
  BY DEF LinkInv, LoadInv
<1>2. ASSUME Next PROVE failed' /\ phase' # "parse" /\ result' = result /\ UNCHANGED inputs
  BY <1>1, <1>2 DEF Next, SkipInclude, IncludeMissing, IncludeFile, DeclarePackage, Define,
     DefineParams, Undefine, BreakOff, FinishInclude, FinishRoot, RefuseChild, EnterChild, ParseProgram,
     RejectProgram
<1>3. CASE Next
  BY <1>1, <1>2, <1>3, FailsForReason
<1>4. CASE UNCHANGED vars
  BY <1>1, <1>4, FailsForReason DEF vars, inputs
<1>5. QED BY <1>3, <1>4

----------------------------------------------------------------------------
\* The whole Load.

LEMMA LoadInit == Init => LoadInv
<1>1. SUFFICES ASSUME Init PROVE LoadInv
  OBVIOUS
<1> DEFINE r == NewProgram(Root, 0)
<1>2. /\ r.file = Root /\ r.includes = {} /\ r.children = <<>> /\ r.package = FALSE
      /\ r.wrong = FALSE /\ r.context = FALSE /\ r.parsed = "no"
  BY DEF NewProgram
<1>3. /\ programs = <<r>> /\ stack = <<[prog |-> 1, at |-> 1]>> /\ phase = "preprocess"
      /\ failed = FALSE /\ result = FALSE /\ Root \in disk
  BY <1>1 DEF Init
<1>4. Typed /\ TextsTyped
  BY <1>1, InitHolds, TypedTexts DEF LinkInv
<1> HIDE DEF r
<1>5. Programs = {1} /\ programs[1] = r
  BY <1>3 DEF Programs
<1>6. DOMAIN stack = {1} /\ stack[1].prog = 1 /\ stack[1].at = 1
  BY <1>3
<1> DEFINE t == text[Root]
<1>7. TextOf(1) = t /\ t \in Seq(Statements)
  BY <1>2, <1>4, <1>5, RootIsAFile DEF TextOf, TextsTyped
<1>8. \A i \in DOMAIN t : ~(i < 1)
  BY <1>7, KeptType
<1>9. Below(Kept(t), 1) = {} /\ Cardinality({}) = 0 /\ Len(<<>>) = 0
  BY <1>7, <1>8, KeptType, FS_EmptySet DEF Below
<1>10. PathsRead(1, 1)
  BY <1>2, <1>5, <1>7, <1>8 DEF PathsRead
<1>11. Len(ChildrenOf(1)) = Cardinality(Below(Kept(t), 1))
  BY <1>2, <1>5, <1>9 DEF ChildrenOf
<1>12. ReadWell(1, 1)
  BY <1>2, <1>5, <1>7, <1>8, <1>9, <1>11 DEF ReadWell
<1>13. ProgramsSoFar
  BY <1>2, <1>3, <1>4, <1>5, NeededGrows DEF ProgramsSoFar
<1>14. StackSoFar
  BY <1>2, <1>5, <1>6, <1>10, <1>12 DEF StackSoFar
<1>15. QED BY <1>3, <1>13, <1>14 DEF LoadInv

LEMMA StutterSoFar ==
  ASSUME LinkInv, LoadInv, ~failed, UNCHANGED vars
  PROVE  LoadInv'
<1>1. /\ UNCHANGED inputs /\ programs' = programs /\ stack' = stack /\ phase' = phase
      /\ failed' = failed /\ result' = result
  BY DEF vars, inputs
<1>2. Typed /\ Tree /\ ProgramsSoFar
  BY DEF LinkInv, LoadInv
<1>3. /\ Programs' = Programs
      /\ \A p \in Programs : Undisturbed(p) /\ programs'[p].parent = programs[p].parent
  BY <1>1 DEF Undisturbed, Programs
<1>4. \A p \in Programs : /\ programs'[p].context => ReadWell(p, Behind(p))
                          /\ programs'[p].parsed = "ok" => programs[p].file \in sound
  BY <1>1, <1>2 DEF ProgramsSoFar
<1>5. /\ ProgramsSoFar'
      /\ \A p \in Programs : \A n \in Nat : /\ ReadWell(p, n) => ReadWell(p, n)'
                                            /\ PathsRead(p, n) => PathsRead(p, n)'
  BY <1>1, <1>2, <1>3, <1>4, QuietSoFar
<1>6. ASSUME StackSoFar, NEW i \in DOMAIN stack
      PROVE  /\ PathsRead(stack[i].prog, stack[i].at)'
             /\ ~programs[stack[i].prog].wrong => ReadWell(stack[i].prog, stack[i].at)'
  <2>1. stack[i] \in Activations /\ stack[i].prog \in Programs
    BY <1>2, ElementOfSeq, LenProperties DEF Typed
  <2>2. PICK p \in Programs, n \in Nat : p = stack[i].prog /\ n = stack[i].at
    BY <2>1 DEF Activations
  <2>3. PathsRead(p, n) /\ (~programs[p].wrong => ReadWell(p, n))
    BY <1>6, <2>2 DEF StackSoFar
  <2>4. PathsRead(p, n)' /\ (~programs[p].wrong => ReadWell(p, n)')
    BY <1>5, <2>3
  <2>5. QED BY <1>1, <2>2, <2>4
<1>7. StackSoFar => StackSoFar'
  BY <1>1, <1>6 DEF StackSoFar
<1>8. ParseSoFar => ParseSoFar'
  BY <1>1 DEF ParseSoFar, OnStack, Programs
<1>9. Loadable' <=> Loadable
  BY <1>1, InputsFixed
<1>10. QED BY <1>1, <1>5, <1>7, <1>8, <1>9 DEF LoadInv

LEMMA LoadInductive == Spec => [](LinkInv /\ LoadInv)
<1>1. LinkInv /\ LoadInv /\ [Next]_vars => LoadInv'
  <2>1. SUFFICES ASSUME LinkInv, LoadInv, [Next]_vars PROVE LoadInv'
    OBVIOUS
  <2>2. CASE failed
    BY <2>1, <2>2, FailedStays
  <2>3. CASE ~failed
    <3>1. CASE SkipInclude        BY <2>1, <2>3, <3>1, SkipSoFar
    <3>2. CASE IncludeMissing     BY <2>1, <2>3, <3>2, MissingSoFar
    <3>3. CASE IncludeFile        BY <2>1, <2>3, <3>3, IncludeSoFar
    <3>4. CASE DeclarePackage     BY <2>1, <2>3, <3>4, PackageSoFar
    <3>5. CASE Define \/ DefineParams \/ Undefine
      BY <2>1, <2>3, <3>5, DefineSoFar
    <3>6. CASE BreakOff           BY <2>1, <2>3, <3>6, BreakOffSoFar
    <3>7. CASE FinishInclude      BY <2>1, <2>3, <3>7, FinishIncludeSoFar
    <3>8. CASE FinishRoot         BY <2>1, <2>3, <3>8, FinishRootSoFar
    <3>9. CASE RefuseChild        BY <2>1, <3>9, RefuseSoFar
    <3>10. CASE EnterChild        BY <2>1, <3>10, EnterSoFar
    <3>11. CASE ParseProgram      BY <2>1, <3>11, ParseSoFarKept
    <3>12. CASE RejectProgram     BY <2>1, <3>12, RejectSoFar
    <3>13. CASE UNCHANGED vars    BY <2>1, <2>3, <3>13, StutterSoFar
    <3>14. QED
      BY <2>1, <3>1, <3>2, <3>3, <3>4, <3>5, <3>6, <3>7, <3>8, <3>9, <3>10, <3>11, <3>12, <3>13
         DEF Next
  <2>4. QED BY <2>2, <2>3
<1>2. QED BY Inductive, LoadInit, <1>1, PTL DEF Spec

\* While no error has been met, a program that is through has as its children
\* the programs of the files its own text asks for, in the order of the text:
\* what OnAddInclude does for the files below it leaves no trace in its list.
THEOREM ChildrenAreAsked == Spec => []ChildrenMirrorText
<1>1. LinkInv /\ LoadInv => ChildrenMirrorText
  <2>1. SUFFICES ASSUME LinkInv, LoadInv, NEW p \in Programs, programs[p].context, ~failed
                 PROVE  [i \in DOMAIN ChildrenOf(p) |-> programs[ChildrenOf(p)[i]].file]
                          = Asks(programs[p].file)
    BY DEF ChildrenMirrorText
  <2>2. Typed /\ ReadWell(p, Behind(p))
    BY <2>1 DEF LinkInv, LoadInv, ProgramsSoFar
  <2>3. QED BY <2>2, MirrorsText
<1>2. QED BY LoadInductive, <1>1, PTL

\* The root is parsed last.
LEMMA AllParsed ==
  ASSUME Typed, Tree, BottomUp, ProgramsSoFar, programs[1].parsed = "ok",
         NEW p \in Programs
  PROVE  programs[p].parsed = "ok"
<1> DEFINE T == {q \in Programs : programs[q].parsed # "ok"}
<1>1. SUFFICES ASSUME T # {} PROVE FALSE
  OBVIOUS
<1>2. T \in SUBSET Nat
  BY ProgramTypes
<1>3. PICK m \in T : \A q \in T : m <= q
  BY <1>1, <1>2, Least
<1>4. PICK r \in Programs : r = programs[m].parent
  BY DEF ProgramsSoFar
<1>5. r < m /\ r \in Nat /\ m \in Nat
  BY <1>4, ProgramTypes DEF Tree
<1>6. programs[r].parsed = "ok"
  BY <1>3, <1>5
<1>7. m \in ToSet(ChildrenOf(r))
  BY <1>4 DEF Tree, ToSet
<1>8. programs[m].parsed = "ok"
  BY <1>6, <1>7 DEF BottomUp
<1>9. QED BY <1>8

\* What the program p has read well can be loaded.
LEMMA ReadFileLoads ==
  ASSUME Typed, Tree, ProgramsSoFar, ParseSoFar, NEW p \in Programs, programs[p].parsed = "ok"
  PROVE  LET f == programs[p].file
             packages == {i \in DOMAIN text[f] : text[f][i].op = "package"}
         IN  /\ \A i \in DOMAIN text[f] : text[f][i].op # "broken"
             /\ Cardinality(packages) <= 1
             /\ f # Root => Cardinality(packages) = 1
<1> DEFINE t == TextOf(p)
           packages == {i \in DOMAIN t : t[i].op = "package"}
<1>1. ReadWell(p, Behind(p)) /\ t = text[programs[p].file]
  BY DEF ParseSoFar, ProgramsSoFar, TextOf
<1>2. \A i \in DOMAIN t : i < Behind(p)
  <2>1. DOMAIN t = 1 .. Len(t) /\ Len(t) \in Nat
    BY TypedTexts, KeptType
  <2>2. QED BY <2>1 DEF Behind
<1>3. /\ \A i \in DOMAIN t : t[i].op # "broken"
      /\ \A i, j \in packages : i = j
      /\ programs[p].package => packages # {}
  BY <1>1, <1>2 DEF ReadWell
<1>4. CASE packages = {}
  <2>1. Cardinality(packages) = 0
    BY <1>4, FS_EmptySet
  <2>2. programs[p].file = Root
    BY <1>3, <1>4 DEF ProgramsSoFar, ParseSoFar
  <2>3. QED BY <1>1, <1>3, <2>1, <2>2
<1>5. CASE packages # {}
  <2>1. PICK i : packages = {i}
    BY <1>3, <1>5
  <2>2. Cardinality(packages) = 1
    BY <2>1, FS_Singleton
  <2>3. QED BY <1>1, <1>3, <2>2
<1>6. QED BY <1>4, <1>5

\* AfxLinker::Load returns true exactly if every file that is needed, at
\* whatever depth, is there, is preprocessed and parsed without an error, and
\* names its package unless it is the root: no error below is lost on the way
\* up, and none is made up.
THEOREM VerdictProved == Spec => []VerdictIsRight
<1>1. ASSUME LinkInv, LoadInv, phase = "done", result PROVE Loadable
  <2>1. /\ Typed /\ Tree /\ BottomUp /\ ProgramsSoFar /\ ParseSoFar
        /\ programs[1].parsed = "ok"
    BY <1>1 DEF LinkInv, LoadInv
  <2>2. \A p \in Programs : programs[p].parsed = "ok"
    BY <2>1, AllParsed
  <2> DEFINE F == {programs[p].file : p \in Programs}
  <2>3. Root \in F /\ F \subseteq Files
    BY <2>1, TypedTexts DEF ProgramsSoFar
  <2>4. ASSUME NEW f \in F PROVE ToSet(Asks(f)) \subseteq F
    <3>1. PICK p \in Programs : f = programs[p].file
      OBVIOUS
    <3>2. ReadWell(p, Behind(p))
      BY <2>1 DEF ProgramsSoFar, ParseSoFar
    <3>3. QED BY <2>1, <3>1, <3>2, AskedAreChildren
  <2>5. Needed \subseteq F
    <3> HIDE DEF F
    <3>1. QED BY <2>3, <2>4, NeededLeast
  <2>6. Needed \subseteq disk \cap sound
    BY <2>1, <2>2, <2>5 DEF ProgramsSoFar
  <2>7. ASSUME NEW f \in Needed
        PROVE  LET packages == {i \in DOMAIN text[f] : text[f][i].op = "package"} IN
               /\ \A i \in DOMAIN text[f] : text[f][i].op # "broken"
               /\ Cardinality(packages) <= 1
               /\ f # Root => Cardinality(packages) = 1
    <3>1. PICK p \in Programs : f = programs[p].file
      BY <2>5
    <3>2. QED BY <2>1, <2>2, <3>1, ReadFileLoads
  <2>8. QED BY <2>6, <2>7 DEF Loadable
<1>2. ASSUME LinkInv, LoadInv, phase = "done", ~result PROVE ~Loadable
  BY <1>2 DEF LoadInv
<1>3. LinkInv /\ LoadInv => VerdictIsRight
  BY <1>1, <1>2 DEF VerdictIsRight, LinkInv, Typed
<1>4. QED BY LoadInductive, <1>3, PTL
=============================================================================
