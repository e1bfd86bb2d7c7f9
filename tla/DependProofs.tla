---------------------------- MODULE DependProofs ----------------------------
(***************************************************************************)
(* DependCalactor collects everything the entry needs, and nothing else,   *)
(* if nothing shares a name with anything else (TypeCorrect, Complete),    *)
(* and writes nothing more often than it has names, whatever the names are *)
(* (OnceUnderEachName).                                                    *)
(*                                                                         *)
(* A name in inserted_ must stand for a definition that has been stored,   *)
(* a stored declaration must have its structure stored with it, and what   *)
(* the traversal has passed must be stored.  When the traversal has passed *)
(* all of depend_, what is stored is closed under "needs", and Needed is   *)
(* the least such set.                                                     *)
(***************************************************************************)
EXTENDS DependCalactor, NaturalsInduction, WellFoundedInduction, FiniteSetTheorems,
        SequenceTheorems, TLAPS

UniqueNames == \A x, y \in Referables : Name[x] = Name[y] => x = y

Kept == Functions \cup Globals \cup Structs   \* what depend_ holds
Texts == Functions \cup Globals               \* what is traversed

Meant(d) == {Definition(x) : x \in ToSet(refs[d])}   \* what the text of d refers to

StructsOf(d) == IF d \in Globals \cup Uniforms THEN {struct_of[d]} \ {NoStruct} ELSE {}

NamesAreHeld ==
  \A x \in Referables :
    Name[x] \in inserted => Definition(x) \in ToSet(depend) \cup ToSet(uniforms)

StructsAreHeld == \A d \in Collection : StructsOf(d) \subseteq Collection

PassedIsHeld ==
  /\ at > 0 => Meant(Entry) \subseteq Collection
  /\ \A i \in 1 .. at - 1 : depend[i] \in Texts => Meant(depend[i]) \subseteq Collection
  /\ Traversed \in Texts =>
       \A i \in DOMAIN refs[Traversed] :
          i < pos => Definition(refs[Traversed][i]) \in Collection

DoneAtTheEnd ==
  done => at = Len(depend) /\ (Traversed \in Texts => pos > Len(refs[Traversed]))

DependInv ==
  /\ TypeOK
  /\ NamesAreHeld
  /\ StructsAreHeld
  /\ PassedIsHeld
  /\ DoneAtTheEnd
  /\ Collection \subseteq Needed

Longer(t, q) == Len(q) <= Len(t) /\ \A i \in 1 .. Len(q) : t[i] = q[i]

Lists == [depend : Seq(Kept), inserted : SUBSET {Name[x] : x \in Referables}]

\* nm tells the entries of q that are the same definition apart by a name of it.
Naming(q, nm) ==
  /\ \A i \in DOMAIN q : nm[i] \in NamesOf(q[i])
  /\ \A i, j \in DOMAIN q : q[i] = q[j] /\ nm[i] = nm[j] => i = j

\* q holds a definition at most once under each of its names, which are in N.
Named(q, N) == \E nm : Naming(q, nm) /\ \A i \in DOMAIN q : nm[i] \in N

\* Whose name has been inserted is not stored again under it, and uni_depend is searched.
ListsApart ==
  Named(depend, inserted) /\ Named(uniforms, inserted) /\ IsInjective(uni_depend)

\* What Add is given and gives back.
Apart(list) == Named(list.depend, list.inserted)

-----------------------------------------------------------------------------
(* Sequences and Add. *)

LEMMA ToSetAppend ==
  ASSUME NEW S, NEW q \in Seq(S), NEW e \in S
  PROVE  ToSet(Append(q, e)) = ToSet(q) \cup {e}
<1>1. DOMAIN Append(q, e) = DOMAIN q \cup {Len(q) + 1}
  OBVIOUS
<1>2. \A i \in DOMAIN q : Append(q, e)[i] = q[i]
  OBVIOUS
<1>3. Append(q, e)[Len(q) + 1] = e
  OBVIOUS
<1>4. QED
  BY <1>1, <1>2, <1>3, Zenon DEF ToSet

LEMMA DefinitionIsDef ==
  ASSUME NEW x \in Referables
  PROVE  /\ Definition(x) \in Defs
         /\ x \in Symbols => Definition(x) = Decl[x] /\ Decl[x] \in Globals \cup Uniforms
         /\ x \notin Symbols => Definition(x) = x /\ x \in Functions \cup Structs
BY SymbolsAreDeclared DEF Referables, Definition, Defs

LEMMA AddTyped ==
  ASSUME NEW list \in Lists, NEW e \in Kept, NEW x \in Referables
  PROVE  /\ Add(list, Name[x], e) \in Lists
         /\ Longer(Add(list, Name[x], e).depend, list.depend)
<1>1. CASE Name[x] \in list.inserted
  BY <1>1 DEF Add, Lists, Longer
<1>2. CASE Name[x] \notin list.inserted
  <2>1. Append(list.depend, e) \in Seq(Kept)
    BY DEF Lists
  <2>2. list.inserted \cup {Name[x]} \subseteq {Name[y] : y \in Referables}
    BY DEF Lists
  <2>3. Longer(Append(list.depend, e), list.depend)
    BY DEF Lists, Longer
  <2>4. QED
    BY <1>2, <2>1, <2>2, <2>3 DEF Add, Lists
<1>3. QED
  BY <1>1, <1>2

\* With unique names Add puts what x refers to into the list unless it is there.
LEMMA AddCollects ==
  ASSUME UniqueNames,
         NEW list \in Lists, NEW us, us \subseteq Uniforms,
         NEW x \in Referables, Definition(x) \in Kept,
         \A y \in Referables :
            Name[y] \in list.inserted => Definition(y) \in ToSet(list.depend) \cup us,
         NEW new, new = Add(list, Name[x], Definition(x))
  PROVE  /\ ToSet(new.depend) = ToSet(list.depend) \cup {Definition(x)}
         /\ \A y \in Referables :
               Name[y] \in new.inserted => Definition(y) \in ToSet(new.depend) \cup us
<1> DEFINE e == Definition(x)
<1>0. e \in Kept /\ e \notin us
  BY KindsAreDisjoint DEF Kept, Defs
<1>1. CASE Name[x] \in list.inserted
  <2>1. e \in ToSet(list.depend)
    BY <1>0, <1>1
  <2>2. new = list
    BY <1>1 DEF Add
  <2> HIDE DEF e
  <2>3. QED
    BY <2>1, <2>2 DEF e
<1>2. CASE Name[x] \notin list.inserted
  <2>1. new.depend = Append(list.depend, e) /\ new.inserted = list.inserted \cup {Name[x]}
    BY <1>2 DEF Add
  <2>2. ToSet(new.depend) = ToSet(list.depend) \cup {e}
    <3> HIDE DEF e
    <3>1. QED BY <1>0, <2>1, ToSetAppend DEF Lists
  <2>3. QED
    BY <2>1, <2>2 DEF UniqueNames
<1>3. QED
  BY <1>1, <1>2

-----------------------------------------------------------------------------
(* The reference the traversal has come to, and type correctness. *)

LEMMA ReferredIsDef ==
  ASSUME TypeOK, MeetsReference
  PROVE  /\ Traversed \in Texts
         /\ refs[Traversed] \in Seq(Referables)
         /\ pos \in DOMAIN refs[Traversed]
         /\ Referred \in Referables
         /\ Definition(Referred) \in Meant(Traversed)
<1>1. Traversed \in Texts
  BY DEF MeetsReference, Texts
<1>2. refs[Traversed] \in Seq(Referables)
  BY <1>1 DEF TypeOK, Texts
<1>3. pos \in DOMAIN refs[Traversed]
  BY <1>2 DEF TypeOK, MeetsReference
<1>4. Referred \in Referables
  BY <1>2, <1>3 DEF Referred
<1>5. Referred \in ToSet(refs[Traversed])
  BY <1>3 DEF ToSet, Referred
<1>6. QED
  BY <1>1, <1>2, <1>3, <1>4, <1>5 DEF Meant

LEMMA CollectedTyped ==
  ASSUME TypeOK
  PROVE  Collected \in Lists
BY DEF TypeOK, Lists, Collected, Kept

LEMMA WithStructTyped ==
  ASSUME TypeOK, NEW list \in Lists, NEW v \in Globals
  PROVE  /\ WithStruct(list, v) \in Lists
         /\ Longer(WithStruct(list, v).depend, list.depend)
<1>1. struct_of[v] \in Structs \cup {NoStruct}
  BY DEF TypeOK
<1>2. CASE struct_of[v] = NoStruct
  BY <1>2 DEF WithStruct, Longer, Lists
<1>3. CASE struct_of[v] # NoStruct
  BY <1>1, <1>3, AddTyped DEF WithStruct, Kept, Referables
<1>4. QED
  BY <1>2, <1>3

LEMMA LongerIsTransitive ==
  ASSUME NEW p \in Seq(Kept), NEW q \in Seq(Kept), NEW t \in Seq(Kept),
         Longer(p, q), Longer(q, t)
  PROVE  Longer(p, t)
BY DEF Longer

\* What a visit that collects list does to the variables' types.
LEMMA CollectsTyped ==
  ASSUME TypeOK, NEW list \in Lists, Longer(list.depend, depend), Collects(list),
         pos' = pos + 1, UNCHANGED <<input, uniforms, uni_depend, at, done>>
  PROVE  TypeOK' /\ Longer(depend', depend)
<1>1. depend' \in Seq(Functions \cup Globals \cup Structs)
  BY DEF Collects, Lists, Kept
<1>2. inserted' \subseteq {Name[x] : x \in Referables}
  BY DEF Collects, Lists
<1>3. Longer(depend', depend)
  BY DEF Collects
<1>4. at' \in 0 .. Len(depend')
  BY <1>1, <1>3 DEF TypeOK, Longer
<1>5. pos' \in Nat \ {0}
  BY DEF TypeOK
<1>6. QED
  BY <1>1, <1>2, <1>3, <1>4, <1>5 DEF TypeOK, input

LEMMA DefinitionTyped ==
  ASSUME TypeOK, VisitDefinition
  PROVE  TypeOK' /\ Longer(depend', depend)
<1> DEFINE new == Add(Collected, Name[Referred], Referred)
<1>1. Referred \in Kept /\ Referred \in Referables
  BY DEF VisitDefinition, Kept, Referables
<1>2. new \in Lists /\ Longer(new.depend, depend)
  BY <1>1, CollectedTyped, AddTyped DEF Collected
<1>3. QED
  BY <1>2, CollectsTyped DEF VisitDefinition

LEMMA GlobalTyped ==
  ASSUME TypeOK, VisitGlobal
  PROVE  /\ Add(Collected, Name[Referred], Decl[Referred]) \in Lists
         /\ TypeOK' /\ Longer(depend', depend)
<1> DEFINE d == Decl[Referred]
           one == Add(Collected, Name[Referred], d)
           two == WithStruct(one, d)
<1>1. d \in Globals /\ d \in Kept /\ Referred \in Referables
  BY DEF VisitGlobal, RefersTo, Kept, Referables
<1>2. one \in Lists /\ Longer(one.depend, depend)
  BY <1>1, CollectedTyped, AddTyped DEF Collected
<1>3. two \in Lists /\ Longer(two.depend, one.depend)
  BY <1>1, <1>2, WithStructTyped
<1>4. Longer(two.depend, depend)
  <2>1. depend \in Seq(Kept) /\ one.depend \in Seq(Kept) /\ two.depend \in Seq(Kept)
    BY <1>2, <1>3 DEF Lists, TypeOK, Kept
  <2>2. QED
    BY <2>1, <1>2, <1>3, LongerIsTransitive
<1>5. Collects(two) /\ pos' = pos + 1 /\ UNCHANGED <<input, uniforms, uni_depend, at, done>>
  BY DEF VisitGlobal
<1>6. TypeOK' /\ Longer(depend', depend)
  BY <1>3, <1>4, <1>5, CollectsTyped
<1>7. QED
  BY <1>2, <1>6

LEMMA UniformTyped ==
  ASSUME TypeOK, VisitUniform
  PROVE  TypeOK'
<1> DEFINE d == Decl[Referred]
<1>1. d \in Uniforms /\ Referred \in Referables
  BY DEF VisitUniform, RefersTo, Referables
<1>2. uniforms' \in Seq(Uniforms)
  BY <1>1 DEF TypeOK, VisitUniform
<1>3. uni_depend' \in Seq(Structs)
  <2>1. struct_of[d] \in Structs \cup {NoStruct}
    BY <1>1 DEF TypeOK
  <2>2. CASE struct_of[d] \in {NoStruct} \cup ToSet(uni_depend)
    BY <2>2 DEF TypeOK, VisitUniform
  <2>3. CASE struct_of[d] \notin {NoStruct} \cup ToSet(uni_depend)
    BY <2>1, <2>3 DEF TypeOK, VisitUniform
  <2>4. QED
    BY <2>2, <2>3
<1>4. inserted' \subseteq {Name[x] : x \in Referables}
  BY <1>1 DEF TypeOK, VisitUniform
<1>5. pos' \in Nat \ {0}
  BY DEF TypeOK, VisitUniform
<1>6. QED
  BY <1>2, <1>3, <1>4, <1>5 DEF TypeOK, VisitUniform, input

LEMMA NextDefinitionTyped ==
  ASSUME TypeOK, NextDefinition
  PROVE  TypeOK'
<1>1. /\ Len(depend) \in Nat /\ depend' = depend
      /\ at \in 0 .. Len(depend) /\ pos \in Nat \ {0} /\ done \in BOOLEAN
  BY DEF TypeOK, NextDefinition
<1>2. CASE at < Len(depend)
  <2>1. at' = at + 1 /\ pos' = 1 /\ done' = done
    BY <1>2 DEF NextDefinition
  <2>2. at' \in 0 .. Len(depend') /\ pos' \in Nat \ {0} /\ done' \in BOOLEAN
    BY <1>1, <1>2, <2>1
  <2>3. QED
    BY <2>2 DEF TypeOK, NextDefinition, input
<1>3. CASE ~(at < Len(depend))
  BY <1>1, <1>3 DEF TypeOK, NextDefinition, input
<1>4. QED
  BY <1>2, <1>3

LEMMA InitTyped ==
  ASSUME Init
  PROVE  TypeOK
<1>1. /\ refs \in [Functions \cup Globals -> Seq(Referables)]
      /\ struct_of \in [Globals \cup Uniforms -> Structs \cup {NoStruct}]
  BY SourcesAreTexts DEF Init
<1>2. depend \in Seq(Functions \cup Globals \cup Structs) /\ Len(depend) = 0
  BY DEF Init
<1>3. uniforms \in Seq(Uniforms) /\ uni_depend \in Seq(Structs)
  BY DEF Init
<1>4. inserted \subseteq {Name[x] : x \in Referables} /\ done \in BOOLEAN
  BY DEF Init
<1>5. at \in 0 .. Len(depend) /\ pos \in Nat \ {0}
  BY <1>2 DEF Init
<1>6. QED
  BY <1>1, <1>2, <1>3, <1>4, <1>5 DEF TypeOK

\* What is stored is of the kind its list is for, and the index of the
\* traversal stays within the growing vector.
THEOREM TypeCorrect == Spec => []TypeOK
<1>1. Init => TypeOK
  BY InitTyped
<1>2. TypeOK /\ [Next]_vars => TypeOK'
  <2> SUFFICES ASSUME TypeOK, [Next]_vars PROVE TypeOK'
    OBVIOUS
  <2>1. CASE VisitDefinition
    BY <2>1, DefinitionTyped
  <2>2. CASE VisitGlobal
    BY <2>2, GlobalTyped
  <2>3. CASE VisitUniform
    BY <2>3, UniformTyped
  <2>4. CASE NextDefinition
    BY <2>4, NextDefinitionTyped
  <2>5. CASE UNCHANGED vars
    BY <2>5 DEF TypeOK, vars
  <2>6. QED
    BY <2>1, <2>2, <2>3, <2>4, <2>5 DEF Next
<1>3. QED
  BY <1>1, <1>2, PTL DEF Spec

-----------------------------------------------------------------------------
(* Needed is closed under DirectNeeds, and the least closed set. *)

LEMMA DirectNeedsAreDefs ==
  ASSUME TypeOK, NEW d \in Defs
  PROVE  DirectNeeds(d) \subseteq Defs
<1>1. d \in Texts => Meant(d) \subseteq Defs
  <2>1. d \in Texts => refs[d] \in Seq(Referables)
    BY DEF TypeOK, Texts
  <2>2. d \in Texts => ToSet(refs[d]) \subseteq Referables
    BY <2>1 DEF ToSet
  <2>3. QED
    BY <2>2, DefinitionIsDef DEF Meant
<1>2. d \in Globals \cup Uniforms => struct_of[d] \in Structs \cup {NoStruct}
  BY DEF TypeOK
<1>3. QED
  BY <1>1, <1>2 DEF DirectNeeds, Defs, Texts, Meant

LEMMA DirectNeedsSplit ==
  ASSUME NEW d
  PROVE  DirectNeeds(d) = (IF d \in Texts THEN Meant(d) ELSE {}) \cup StructsOf(d)
BY DEF DirectNeeds, StructsOf, Texts, Meant

LEMMA NeededClosed ==
  ASSUME TypeOK, NEW d \in Needed \cup {Entry}
  PROVE  DirectNeeds(d) \subseteq Needed
<1>1. d \in Defs
  BY EntryIsFunction DEF Needed, Defs
<1>2. SUFFICES ASSUME NEW e \in DirectNeeds(d), NEW S \in SUBSET Defs,
                      DirectNeeds(Entry) \subseteq S, \A x \in S : DirectNeeds(x) \subseteq S
               PROVE  e \in S
  BY <1>1, DirectNeedsAreDefs DEF Needed
<1>3. CASE d = Entry
  BY <1>2, <1>3
<1>4. CASE d \in Needed
  <2>1. d \in S
    BY <1>2, <1>4 DEF Needed
  <2>2. QED
    BY <1>2, <2>1
<1>5. QED
  BY <1>3, <1>4

LEMMA NeededLeast ==
  ASSUME NEW S \in SUBSET Defs,
         DirectNeeds(Entry) \subseteq S, \A x \in S : DirectNeeds(x) \subseteq S
  PROVE  Needed \subseteq S
BY DEF Needed

LEMMA SameInputSameNeeds ==
  ASSUME input' = input
  PROVE  /\ Needed' = Needed
         /\ \A d : StructsOf(d)' = StructsOf(d)
<1>1. refs' = refs /\ struct_of' = struct_of
  BY DEF input
<1>2. \A d : DirectNeeds(d)' = DirectNeeds(d)
  BY <1>1 DEF DirectNeeds
<1>3. QED
  BY <1>1, <1>2 DEF Needed, StructsOf

LEMMA CollectionIsDefs ==
  ASSUME TypeOK
  PROVE  Collection \subseteq Defs
<1>1. ToSet(depend) \subseteq Defs
  BY DEF TypeOK, ToSet, Defs
<1>2. ToSet(uniforms) \subseteq Defs
  BY DEF TypeOK, ToSet, Defs
<1>3. ToSet(uni_depend) \subseteq Defs
  BY DEF TypeOK, ToSet, Defs
<1>4. QED
  BY <1>1, <1>2, <1>3 DEF Collection

LEMMA TraversedIsNeeded ==
  ASSUME DependInv
  PROVE  Traversed \in Needed \cup {Entry}
<1>1. CASE at = 0
  BY <1>1 DEF Traversed
<1>2. CASE at # 0
  <2>1. at \in DOMAIN depend
    BY <1>2 DEF DependInv, TypeOK
  <2>2. depend[at] \in Collection
    BY <2>1 DEF Collection, ToSet
  <2>3. QED
    BY <1>2, <2>2 DEF Traversed, DependInv
<1>3. QED
  BY <1>1, <1>2

-----------------------------------------------------------------------------
(* The steps. *)

\* A visit stores what is referred to, with its structure.
VisitStores ==
  /\ TypeOK'
  /\ Longer(depend', depend)
  /\ Collection' = Collection \cup {Definition(Referred)} \cup StructsOf(Definition(Referred))
  /\ NamesAreHeld'
  /\ pos' = pos + 1
  /\ UNCHANGED <<input, at, done>>

LEMMA VisitPreserves ==
  ASSUME DependInv, MeetsReference, VisitStores
  PROVE  DependInv'
<1> USE DEF DependInv
<1> DEFINE d == Definition(Referred)
<1>1. Traversed \in Texts /\ d \in Defs /\ d \in DirectNeeds(Traversed)
  BY ReferredIsDef, DefinitionIsDef, DirectNeedsSplit
<1>2. Collection \subseteq Collection'
  BY DEF VisitStores
<1>3. Traversed' = Traversed
  BY DEF VisitStores, Longer, Traversed, TypeOK
<1>4. refs' = refs /\ struct_of' = struct_of
  BY DEF VisitStores, input
<1>5. Needed' = Needed /\ \A e : StructsOf(e)' = StructsOf(e)
  BY SameInputSameNeeds DEF VisitStores
<1>6. Collection' \subseteq Needed'
  <2>1. d \in Needed
    BY <1>1, TraversedIsNeeded, NeededClosed
  <2>2. StructsOf(d) \subseteq Needed
    BY <2>1, NeededClosed, DirectNeedsSplit
  <2>3. QED
    BY <1>5, <2>1, <2>2 DEF VisitStores
<1>7. StructsAreHeld'
  <2>1. SUFFICES ASSUME NEW e \in Collection' PROVE StructsOf(e) \subseteq Collection'
    BY <1>5 DEF StructsAreHeld
  <2>2. CASE e \in Collection
    BY <1>2, <2>2 DEF StructsAreHeld
  <2>3. CASE e = d
    BY <2>3 DEF VisitStores
  <2>4. CASE e \in StructsOf(d)
    <3>1. e \in Structs
      BY <1>1, <2>4 DEF StructsOf, TypeOK
    <3>2. e \notin Globals \cup Uniforms
      BY <3>1, KindsAreDisjoint
    <3>3. QED
      BY <3>2 DEF StructsOf
  <2>5. QED
    BY <2>1, <2>2, <2>3, <2>4 DEF VisitStores
<1>8. PassedIsHeld'
  <2>1. at' > 0 => Meant(Entry)' \subseteq Collection'
    BY <1>2, <1>4 DEF PassedIsHeld, VisitStores, Meant
  <2>2. \A i \in 1 .. at' - 1 :
          depend'[i] \in Texts => Meant(depend[i])' \subseteq Collection'
    <3>1. \A i \in 1 .. at' - 1 : i \in 1 .. at - 1 /\ depend'[i] = depend[i]
      BY DEF VisitStores, Longer, TypeOK
    <3>2. QED
      BY <1>2, <1>4, <3>1 DEF PassedIsHeld, Meant
  <2>3. \A i \in DOMAIN refs[Traversed] : i < pos' => Definition(refs[Traversed][i]) \in Collection'
    <3>1. SUFFICES ASSUME NEW i \in DOMAIN refs[Traversed], i < pos'
                   PROVE  Definition(refs[Traversed][i]) \in Collection'
      OBVIOUS
    <3>2. i < pos \/ i = pos
      BY <3>1, ReferredIsDef DEF VisitStores, TypeOK
    <3>3. CASE i < pos
      BY <1>1, <1>2, <3>3 DEF PassedIsHeld
    <3>4. CASE i = pos
      BY <3>4 DEF VisitStores, Referred
    <3>5. QED
      BY <3>2, <3>3, <3>4
  <2>4. QED
    BY <1>3, <1>4, <2>1, <2>2, <2>3 DEF PassedIsHeld, Meant
<1>9. DoneAtTheEnd'
  BY DEF VisitStores, MeetsReference, DoneAtTheEnd
<1>10. QED
  BY <1>6, <1>7, <1>8, <1>9 DEF VisitStores

LEMMA DefinitionStores ==
  ASSUME UniqueNames, DependInv, VisitDefinition
  PROVE  VisitStores
<1> USE DEF DependInv
<1>1. /\ Referred \in Referables /\ Definition(Referred) = Referred
      /\ Referred \in Kept /\ Referred \notin Globals \cup Uniforms
  BY KindsAreDisjoint, SymbolsAreDeclared DEF VisitDefinition, Kept, Referables, Definition
<1>2. StructsOf(Referred) = {}
  BY <1>1 DEF StructsOf
<1>3. TypeOK' /\ Longer(depend', depend)
  BY DefinitionTyped
<1>4. Collected \in Lists /\ ToSet(uniforms) \subseteq Uniforms
  BY CollectedTyped DEF TypeOK, ToSet
<1>5. \A x \in Referables : Name[x] \in Collected.inserted =>
         Definition(x) \in ToSet(Collected.depend) \cup ToSet(uniforms)
  BY DEF NamesAreHeld, Collected
<1> DEFINE new == Add(Collected, Name[Referred], Definition(Referred))
<1>6. depend' = new.depend /\ inserted' = new.inserted
  BY <1>1 DEF VisitDefinition, Collects
<1> HIDE DEF new
<1>7. /\ ToSet(new.depend) = ToSet(Collected.depend) \cup {Definition(Referred)}
      /\ \A x \in Referables : Name[x] \in new.inserted =>
            Definition(x) \in ToSet(new.depend) \cup ToSet(uniforms)
  BY <1>1, <1>4, <1>5, AddCollects DEF new
<1>8. ToSet(depend') = ToSet(depend) \cup {Referred}
  BY <1>1, <1>6, <1>7 DEF Collected
<1>9. uniforms' = uniforms /\ uni_depend' = uni_depend
  BY DEF VisitDefinition
<1>10. Collection' = Collection \cup {Referred}
  BY <1>8, <1>9 DEF Collection
<1>11. NamesAreHeld'
  BY <1>6, <1>7, <1>9 DEF NamesAreHeld
<1>12. QED
  BY <1>1, <1>2, <1>3, <1>10, <1>11 DEF VisitStores, VisitDefinition

LEMMA GlobalStores ==
  ASSUME UniqueNames, DependInv, VisitGlobal
  PROVE  VisitStores
<1> USE DEF DependInv
<1> DEFINE d == Decl[Referred]
           one == Add(Collected, Name[Referred], d)
           two == WithStruct(one, d)
<1>1. Referred \in Referables /\ Definition(Referred) = d /\ d \in Globals /\ d \in Kept
  BY DEF VisitGlobal, RefersTo, Kept, Referables, Definition
<1>2. one \in Lists /\ TypeOK' /\ Longer(depend', depend)
  BY GlobalTyped
<1>3. Collected \in Lists /\ ToSet(uniforms) \subseteq Uniforms
  BY CollectedTyped DEF TypeOK, ToSet
<1>4. \A x \in Referables : Name[x] \in Collected.inserted =>
         Definition(x) \in ToSet(Collected.depend) \cup ToSet(uniforms)
  BY DEF NamesAreHeld, Collected
<1>5. /\ ToSet(one.depend) = ToSet(Collected.depend) \cup {d}
      /\ \A x \in Referables : Name[x] \in one.inserted =>
            Definition(x) \in ToSet(one.depend) \cup ToSet(uniforms)
  <2>1. one = Add(Collected, Name[Referred], Definition(Referred))
    BY <1>1
  <2> HIDE DEF d, one
  <2>2. QED BY <1>1, <1>3, <1>4, <2>1, AddCollects
<1>6. /\ ToSet(two.depend) = ToSet(one.depend) \cup StructsOf(d)
      /\ \A x \in Referables : Name[x] \in two.inserted =>
            Definition(x) \in ToSet(two.depend) \cup ToSet(uniforms)
  <2>1. CASE struct_of[d] = NoStruct
    <3>1. two = one /\ StructsOf(d) = {}
      BY <2>1 DEF WithStruct, StructsOf
    <3>2. QED
      BY <1>5, <3>1
  <2>2. CASE struct_of[d] # NoStruct
    <3> DEFINE e == struct_of[d]
    <3>1. e \in Structs /\ e \in Kept /\ e \in Referables /\ Definition(e) = e
      BY <1>1, <2>2, SymbolsAreDeclared DEF TypeOK, Kept, Referables, Definition
    <3>2. two = Add(one, Name[e], Definition(e)) /\ StructsOf(d) = {e}
      BY <1>1, <2>2, <3>1 DEF WithStruct, StructsOf
    <3> HIDE DEF d, e, one, two
    <3>3. /\ ToSet(two.depend) = ToSet(one.depend) \cup {Definition(e)}
          /\ \A x \in Referables : Name[x] \in two.inserted =>
                Definition(x) \in ToSet(two.depend) \cup ToSet(uniforms)
      BY <1>2, <1>3, <1>5, <3>1, <3>2, AddCollects
    <3>4. QED
      BY <3>1, <3>2, <3>3
  <2>3. QED
    BY <2>1, <2>2
<1>7. depend' = two.depend /\ inserted' = two.inserted
  BY DEF VisitGlobal, Collects
<1>8. uniforms' = uniforms /\ uni_depend' = uni_depend
  BY DEF VisitGlobal
<1> HIDE DEF one, two
<1>9. ToSet(depend') = ToSet(depend) \cup {d} \cup StructsOf(d)
  BY <1>5, <1>6, <1>7 DEF Collected
<1>10. Collection' = Collection \cup {d} \cup StructsOf(d)
  BY <1>8, <1>9 DEF Collection
<1>11. NamesAreHeld'
  BY <1>6, <1>7, <1>8 DEF NamesAreHeld
<1>12. QED
  BY <1>1, <1>2, <1>10, <1>11 DEF VisitStores, VisitGlobal

LEMMA UniformStores ==
  ASSUME UniqueNames, DependInv, VisitUniform
  PROVE  VisitStores
<1> USE DEF DependInv
<1> DEFINE d == Decl[Referred]
<1>1. Referred \in Referables /\ Definition(Referred) = d /\ d \in Uniforms
  BY DEF VisitUniform, RefersTo, Referables, Definition
<1>2. TypeOK'
  BY UniformTyped
<1>3. depend' = depend /\ Longer(depend', depend)
  BY DEF VisitUniform, Longer, TypeOK
<1>4. inserted' = inserted \cup {Name[Referred]}
  BY DEF VisitUniform
<1>5. ToSet(uniforms') = ToSet(uniforms) \cup {d}
  <2>1. CASE Name[Referred] \in inserted
    <3>1. d \notin ToSet(depend)
      BY <1>1, KindsAreDisjoint DEF TypeOK, ToSet
    <3>2. d \in ToSet(uniforms)
      BY <1>1, <2>1, <3>1 DEF NamesAreHeld
    <3>3. QED
      BY <2>1, <3>2 DEF VisitUniform
  <2>2. CASE Name[Referred] \notin inserted
    <3>1. uniforms' = Append(uniforms, d)
      BY <2>2 DEF VisitUniform
    <3>2. QED
      BY <1>1, <3>1, ToSetAppend DEF TypeOK
  <2>3. QED
    BY <2>1, <2>2
<1>6. ToSet(uni_depend') = ToSet(uni_depend) \cup StructsOf(d)
  <2>1. StructsOf(d) = {struct_of[d]} \ {NoStruct}
    BY <1>1 DEF StructsOf
  <2>2. CASE struct_of[d] \in {NoStruct} \cup ToSet(uni_depend)
    BY <2>1, <2>2 DEF VisitUniform
  <2>3. CASE struct_of[d] \notin {NoStruct} \cup ToSet(uni_depend)
    <3>1. uni_depend' = Append(uni_depend, struct_of[d])
      BY <2>3 DEF VisitUniform
    <3>2. struct_of[d] \in Structs
      BY <1>1, <2>3 DEF TypeOK
    <3>3. ToSet(uni_depend') = ToSet(uni_depend) \cup {struct_of[d]}
      BY <3>1, <3>2, ToSetAppend DEF TypeOK
    <3>4. QED
      BY <2>1, <2>3, <3>3
  <2>4. QED
    BY <2>2, <2>3
<1>7. Collection' = Collection \cup {d} \cup StructsOf(d)
  BY <1>3, <1>5, <1>6 DEF Collection
<1>8. NamesAreHeld'
  BY <1>1, <1>3, <1>4, <1>5 DEF NamesAreHeld, UniqueNames
<1>9. QED
  BY <1>1, <1>2, <1>3, <1>7, <1>8 DEF VisitStores, VisitUniform

LEMMA NextDefinitionPreserves ==
  ASSUME DependInv, NextDefinition
  PROVE  DependInv'
<1> USE DEF DependInv
<1>1. TypeOK'
  BY NextDefinitionTyped
<1>2. /\ input' = input /\ depend' = depend /\ uniforms' = uniforms
      /\ uni_depend' = uni_depend /\ inserted' = inserted
      /\ refs' = refs /\ struct_of' = struct_of
  BY DEF NextDefinition, input
<1>3. Collection' = Collection
  BY <1>2 DEF Collection
<1>4. NamesAreHeld' /\ StructsAreHeld' /\ (Collection \subseteq Needed)'
  BY <1>2, <1>3, SameInputSameNeeds DEF NamesAreHeld, StructsAreHeld
<1>5. Traversed \in Texts => Meant(Traversed) \subseteq Collection
  <2>1. SUFFICES ASSUME Traversed \in Texts, NEW i \in DOMAIN refs[Traversed]
                 PROVE  Definition(refs[Traversed][i]) \in Collection
    BY DEF ToSet, Meant
  <2>2. refs[Traversed] \in Seq(Referables)
    BY <2>1 DEF TypeOK, Texts
  <2>3. i < pos
    BY <2>1, <2>2 DEF NextDefinition, Texts, TypeOK
  <2>4. QED
    BY <2>1, <2>3 DEF PassedIsHeld
<1>6. CASE at < Len(depend)
  <2>1. at' = at + 1 /\ pos' = 1 /\ done' = FALSE
    BY <1>6 DEF NextDefinition
  <2>2. Meant(Entry) \subseteq Collection
    <3>1. CASE at = 0
      BY <1>5, <3>1, EntryIsFunction DEF Traversed, Texts
    <3>2. CASE at # 0
      BY <3>2 DEF PassedIsHeld, TypeOK
    <3>3. QED
      BY <3>1, <3>2
  <2>3. \A i \in 1 .. at' - 1 : depend[i] \in Texts => Meant(depend[i]) \subseteq Collection
    <3>1. SUFFICES ASSUME NEW i \in 1 .. at, depend[i] \in Texts
                   PROVE  Meant(depend[i]) \subseteq Collection
      BY <2>1 DEF TypeOK
    <3>2. CASE i = at
      BY <1>5, <3>1, <3>2 DEF Traversed, TypeOK
    <3>3. CASE i # at
      <4>1. i \in 1 .. at - 1
        BY <3>1, <3>3 DEF TypeOK
      <4>2. QED
        BY <3>1, <4>1 DEF PassedIsHeld
    <3>4. QED
      BY <3>2, <3>3
  <2>4. Traversed' \in Texts =>
          \A i \in DOMAIN refs[Traversed'] : i < 1 => Definition(refs[Traversed'][i]) \in Collection
    <3>1. Traversed' \in Texts => refs[Traversed'] \in Seq(Referables)
      BY DEF TypeOK, Texts
    <3>2. QED
      BY <3>1
  <2>5. PassedIsHeld'
    BY <1>2, <1>3, <2>1, <2>2, <2>3, <2>4 DEF PassedIsHeld, Meant
  <2>6. DoneAtTheEnd'
    BY <2>1 DEF DoneAtTheEnd
  <2>7. QED
    BY <1>1, <1>4, <2>5, <2>6
<1>7. CASE ~(at < Len(depend))
  <2>1. at' = at /\ pos' = pos /\ done' = TRUE /\ at = Len(depend)
    BY <1>7 DEF NextDefinition, TypeOK
  <2>2. Traversed' = Traversed
    BY <1>2, <2>1 DEF Traversed
  <2>3. PassedIsHeld'
    BY <1>2, <1>3, <2>1, <2>2 DEF PassedIsHeld, Meant
  <2>4. DoneAtTheEnd'
    BY <1>2, <2>1, <2>2 DEF DoneAtTheEnd, NextDefinition, Texts
  <2>5. QED
    BY <1>1, <1>4, <2>3, <2>4
<1>8. QED
  BY <1>6, <1>7

LEMMA DependInitial ==
  ASSUME Init
  PROVE  DependInv
<1>1. TypeOK
  BY InitTyped
<1>2. ToSet(depend) = {} /\ ToSet(uniforms) = {} /\ ToSet(uni_depend) = {}
  BY DEF Init, ToSet
<1>3. Collection = {}
  BY <1>2 DEF Collection
<1>4. NamesAreHeld
  BY DEF Init, NamesAreHeld
<1>5. StructsAreHeld
  BY <1>3 DEF StructsAreHeld
<1>6. at = 0 /\ pos = 1 /\ done = FALSE
  BY DEF Init
<1>7. Traversed \in Texts => refs[Traversed] \in Seq(Referables)
  BY <1>1 DEF TypeOK, Texts
<1>8. PassedIsHeld
  BY <1>6, <1>7 DEF PassedIsHeld
<1>9. DoneAtTheEnd
  BY <1>6 DEF DoneAtTheEnd
<1>10. QED
  BY <1>1, <1>3, <1>4, <1>5, <1>8, <1>9 DEF DependInv

LEMMA DependStep ==
  ASSUME UniqueNames, DependInv, [Next]_vars
  PROVE  DependInv'
<1>1. CASE VisitDefinition
  BY <1>1, DefinitionStores, VisitPreserves DEF VisitDefinition
<1>2. CASE VisitGlobal
  BY <1>2, GlobalStores, VisitPreserves DEF VisitGlobal
<1>3. CASE VisitUniform
  BY <1>3, UniformStores, VisitPreserves DEF VisitUniform
<1>4. CASE NextDefinition
  BY <1>4, NextDefinitionPreserves
<1>5. CASE UNCHANGED vars
  <2>1. /\ input' = input /\ Collection' = Collection
        /\ Traversed' = Traversed /\ TypeOK'
    BY <1>5 DEF vars, input, Collection, Traversed, DependInv, TypeOK
  <2>2. Needed' = Needed /\ \A d : StructsOf(d)' = StructsOf(d)
    BY <2>1, SameInputSameNeeds
  <2>3. NamesAreHeld' /\ StructsAreHeld' /\ DoneAtTheEnd'
    BY <1>5, <2>1, <2>2 DEF vars, DependInv, NamesAreHeld, StructsAreHeld, DoneAtTheEnd
  <2>4. PassedIsHeld'
    BY <1>5, <2>1 DEF vars, DependInv, PassedIsHeld, Meant
  <2>5. QED
    BY <2>1, <2>2, <2>3, <2>4 DEF DependInv
<1>6. QED
  BY <1>1, <1>2, <1>3, <1>4, <1>5 DEF Next

\* At the end everything that is stored has been passed.
LEMMA DoneIsClosed ==
  ASSUME DependInv, done
  PROVE  Needed \subseteq Collection
<1> USE DEF DependInv
<1>1. \A i \in DOMAIN depend : depend[i] \in Texts => Meant(depend[i]) \subseteq Collection
  <2>1. SUFFICES ASSUME NEW i \in DOMAIN depend, depend[i] \in Texts
                 PROVE  Meant(depend[i]) \subseteq Collection
    OBVIOUS
  <2>2. CASE i = at
    <3>1. Traversed = depend[i] /\ refs[Traversed] \in Seq(Referables)
      BY <2>1, <2>2 DEF Traversed, TypeOK, Texts
    <3>2. \A j \in DOMAIN refs[Traversed] : j < pos
      BY <2>1, <3>1 DEF DoneAtTheEnd, TypeOK
    <3>3. QED
      BY <2>1, <3>1, <3>2 DEF PassedIsHeld, ToSet, Meant
  <2>3. CASE i # at
    <3>1. i \in 1 .. at - 1
      BY <2>1, <2>3 DEF DoneAtTheEnd, TypeOK
    <3>2. QED
      BY <2>1, <3>1 DEF PassedIsHeld
  <2>4. QED
    BY <2>2, <2>3
<1>2. Meant(Entry) \subseteq Collection
  <2>1. CASE at = 0
    <3>1. Traversed = Entry /\ Entry \in Texts /\ refs[Entry] \in Seq(Referables)
      BY <2>1, EntryIsFunction DEF Traversed, TypeOK, Texts
    <3>2. \A j \in DOMAIN refs[Entry] : j < pos
      BY <3>1 DEF DoneAtTheEnd, TypeOK
    <3>3. QED
      BY <3>1, <3>2 DEF PassedIsHeld, ToSet, Meant
  <2>2. CASE at # 0
    BY <2>2 DEF PassedIsHeld, TypeOK
  <2>3. QED
    BY <2>1, <2>2
<1>3. DirectNeeds(Entry) \subseteq Collection
  <2>1. Entry \notin Globals \cup Uniforms
    BY EntryIsFunction, KindsAreDisjoint
  <2>2. QED
    BY <1>2, <2>1, DirectNeedsSplit DEF StructsOf
<1>4. ASSUME NEW d \in Collection PROVE DirectNeeds(d) \subseteq Collection
  <2>1. d \in Texts => d \in ToSet(depend)
    <3>1. ToSet(uniforms) \subseteq Uniforms /\ ToSet(uni_depend) \subseteq Structs
      BY DEF TypeOK, ToSet
    <3>2. QED
      BY <3>1, KindsAreDisjoint DEF Collection, Texts
  <2>2. d \in Texts => Meant(d) \subseteq Collection
    BY <1>1, <2>1 DEF ToSet
  <2>3. StructsOf(d) \subseteq Collection
    BY <1>4 DEF StructsAreHeld
  <2>4. QED
    BY <2>2, <2>3, DirectNeedsSplit
<1>5. QED
  BY <1>3, <1>4, CollectionIsDefs, NeededLeast

\* What Calc has saved is, when it returns, all that the entry needs, at any
\* depth and through recursion, and never anything else, provided that no two
\* functions, structures or variables have the same name there (Calc and Add of
\* depend_calactor.cc; the promise is the comment in depend_calactor.h).
THEOREM Complete ==
  ASSUME UniqueNames
  PROVE  Spec => []AllDependencies
<1>1. Init => DependInv
  BY DependInitial
<1>2. DependInv /\ [Next]_vars => DependInv'
  BY DependStep
<1>3. DependInv => AllDependencies
  BY DoneIsClosed DEF DependInv, AllDependencies
<1>4. QED
  BY <1>1, <1>2, <1>3, PTL DEF Spec

-----------------------------------------------------------------------------
(* Nothing is written more often than it has names. *)

\* A set of numbers that is not empty has a least one.
LEMMA Least ==
  ASSUME NEW T \in SUBSET Nat, T # {}
  PROVE  \E m \in T : \A n \in T : m <= n
<1>1. IsWellFoundedOn(OpToRel(<, Nat), Nat)
  BY NatLessThanWellFounded
<1>2. PICK m \in T : \A n \in T : ~(<<n, m>> \in OpToRel(<, Nat))
  BY <1>1, WFMin
<1>3. ASSUME NEW n \in T PROVE m <= n
  <2>1. m \in Nat /\ n \in Nat
    OBVIOUS
  <2>2. ~(n < m)
    BY <1>2, <2>1 DEF OpToRel
  <2>3. QED BY <2>1, <2>2
<1>4. QED BY <1>3

\* Lists without repetitions that have nothing in common are one such list.
LEMMA JoinedApart ==
  ASSUME NEW S, NEW q \in Seq(S), NEW r \in Seq(S),
         IsInjective(q), IsInjective(r), ToSet(q) \cap ToSet(r) = {}
  PROVE  /\ q \o r \in Seq(S) /\ IsInjective(q \o r)
         /\ ToSet(q \o r) = ToSet(q) \cup ToSet(r)
<1> DEFINE t == q \o r
<1>1. /\ t \in Seq(S) /\ Len(q) \in Nat /\ Len(r) \in Nat
      /\ DOMAIN t = 1 .. Len(q) + Len(r) /\ DOMAIN q = 1 .. Len(q) /\ DOMAIN r = 1 .. Len(r)
      /\ \A i \in 1 .. Len(q) + Len(r) : t[i] = IF i <= Len(q) THEN q[i] ELSE r[i - Len(q)]
  BY ConcatProperties
<1> HIDE DEF t
<1>2. \A i \in DOMAIN q : i \in DOMAIN t /\ t[i] = q[i]
  BY <1>1
<1>3. \A i \in DOMAIN r : Len(q) + i \in DOMAIN t /\ t[Len(q) + i] = r[i]
  <2>1. SUFFICES ASSUME NEW i \in DOMAIN r PROVE Len(q) + i \in DOMAIN t /\ t[Len(q) + i] = r[i]
    OBVIOUS
  <2>2. Len(q) + i \in 1 .. Len(q) + Len(r) /\ ~(Len(q) + i <= Len(q)) /\ Len(q) + i - Len(q) = i
    BY <1>1
  <2>3. QED BY <1>1, <2>2
<1>4. \A i \in DOMAIN t : \/ i \in DOMAIN q /\ t[i] = q[i]
                          \/ i - Len(q) \in DOMAIN r /\ t[i] = r[i - Len(q)]
  BY <1>1
<1>5. ToSet(t) = ToSet(q) \cup ToSet(r)
  <2>1. ToSet(q) \subseteq ToSet(t)
    BY <1>2, Zenon DEF ToSet
  <2>2. ToSet(r) \subseteq ToSet(t)
    BY <1>3, Zenon DEF ToSet
  <2>3. ToSet(t) \subseteq ToSet(q) \cup ToSet(r)
    BY <1>4 DEF ToSet
  <2>4. QED BY <2>1, <2>2, <2>3
<1>6. ASSUME NEW i \in DOMAIN t, NEW j \in DOMAIN t, t[i] = t[j] PROVE i = j
  <2>1. CASE i \in DOMAIN q /\ t[i] = q[i] /\ j \in DOMAIN q /\ t[j] = q[j]
    BY <1>6, <2>1 DEF IsInjective
  <2>2. CASE /\ i - Len(q) \in DOMAIN r /\ t[i] = r[i - Len(q)]
             /\ j - Len(q) \in DOMAIN r /\ t[j] = r[j - Len(q)]
    <3>1. i - Len(q) = j - Len(q)
      BY <1>6, <2>2 DEF IsInjective
    <3>2. QED BY <1>1, <3>1
  <2>3. CASE i \in DOMAIN q /\ t[i] = q[i] /\ j - Len(q) \in DOMAIN r /\ t[j] = r[j - Len(q)]
    <3>1. t[i] \in ToSet(q) /\ t[j] \in ToSet(r)
      BY <2>3, Zenon DEF ToSet
    <3>2. QED BY <1>6, <3>1
  <2>4. CASE j \in DOMAIN q /\ t[j] = q[j] /\ i - Len(q) \in DOMAIN r /\ t[i] = r[i - Len(q)]
    <3>1. t[j] \in ToSet(q) /\ t[i] \in ToSet(r)
      BY <2>4, Zenon DEF ToSet
    <3>2. QED BY <1>6, <3>1
  <2>5. QED BY <1>4, <2>1, <2>2, <2>3, <2>4
<1>7. QED BY <1>1, <1>5, <1>6 DEF t, IsInjective

LEMMA OneApart ==
  ASSUME NEW S, NEW e \in S
  PROVE  <<e>> \in Seq(S) /\ IsInjective(<<e>>) /\ ToSet(<<e>>) = {e}
BY DEF IsInjective, ToSet

LEMMA NamedUp ==
  ASSUME NEW q, NEW M, NEW N, M \subseteq N, Named(q, M)
  PROVE  Named(q, N)
BY DEF Named

\* A name that has not been used allows one more entry.
LEMMA AppendNamed ==
  ASSUME NEW S, NEW q \in Seq(S), NEW e \in S, NEW N, Named(q, N),
         NEW n \in NamesOf(e), n \notin N
  PROVE  Named(Append(q, e), N \cup {n})
<1>1. PICK nm : Naming(q, nm) /\ \A i \in DOMAIN q : nm[i] \in N
  BY DEF Named
<1> DEFINE t == Append(q, e)
           h == [i \in 1 .. Len(q) + 1 |-> IF i <= Len(q) THEN nm[i] ELSE n]
<1>2. /\ Len(q) \in Nat /\ DOMAIN q = 1 .. Len(q) /\ DOMAIN t = 1 .. Len(q) + 1
      /\ \A i \in 1 .. Len(q) : t[i] = q[i]
      /\ t[Len(q) + 1] = e
  OBVIOUS
<1>3. /\ \A i \in DOMAIN q : i \in DOMAIN t /\ h[i] = nm[i]
      /\ h[Len(q) + 1] = n
  BY <1>2
<1> HIDE DEF t, h
<1>4. \A i \in DOMAIN t : i \in DOMAIN q \/ i = Len(q) + 1
  BY <1>2
<1>5. \A i \in DOMAIN t : h[i] \in NamesOf(t[i]) /\ h[i] \in N \cup {n}
  BY <1>1, <1>2, <1>3, <1>4 DEF Naming
<1>6. \A i, j \in DOMAIN t : t[i] = t[j] /\ h[i] = h[j] => i = j
  BY <1>1, <1>2, <1>3, <1>4 DEF Naming
<1>7. QED BY <1>5, <1>6 DEF Named, Naming, t

LEMMA ReversedNamed ==
  ASSUME NEW S, NEW q \in Seq(S), NEW N, Named(q, N)
  PROVE  Reverse(q) \in Seq(S) /\ Named(Reverse(q), N) /\ ToSet(Reverse(q)) \subseteq ToSet(q)
<1>1. PICK nm : Naming(q, nm) /\ \A i \in DOMAIN q : nm[i] \in N
  BY DEF Named
<1> DEFINE t == Reverse(q)
           At(i) == (Len(q) - i) + 1
           h == [i \in 1 .. Len(q) |-> nm[At(i)]]
<1>2. /\ t \in Seq(S) /\ DOMAIN t = 1 .. Len(q) /\ DOMAIN q = 1 .. Len(q) /\ Len(q) \in Nat
      /\ \A i \in 1 .. Len(q) : At(i) \in 1 .. Len(q) /\ t[i] = q[At(i)]
      /\ \A i, j \in 1 .. Len(q) : At(i) = At(j) => i = j
  BY DEF Reverse
<1>3. \A i \in 1 .. Len(q) : h[i] = nm[At(i)]
  OBVIOUS
<1> HIDE DEF t, h, At
<1>4. ToSet(t) \subseteq ToSet(q)
  BY <1>2, Zenon DEF ToSet
<1>5. \A i \in DOMAIN t : h[i] \in NamesOf(t[i]) /\ h[i] \in N
  BY <1>1, <1>2, <1>3 DEF Naming
<1>6. \A i, j \in DOMAIN t : t[i] = t[j] /\ h[i] = h[j] => i = j
  BY <1>1, <1>2, <1>3 DEF Naming
<1>7. QED BY <1>2, <1>4, <1>5, <1>6 DEF Named, Naming, t

\* Lists that have nothing in common do not get into each other's way.
LEMMA JoinedNamed ==
  ASSUME NEW S, NEW q \in Seq(S), NEW r \in Seq(S), NEW M, NEW N, Named(q, M), Named(r, N),
         ToSet(q) \cap ToSet(r) = {}
  PROVE  /\ q \o r \in Seq(S) /\ Named(q \o r, M \cup N)
         /\ ToSet(q \o r) \subseteq ToSet(q) \cup ToSet(r)
<1>1. PICK m : Naming(q, m) /\ \A i \in DOMAIN q : m[i] \in M
  BY DEF Named
<1>2. PICK n : Naming(r, n) /\ \A i \in DOMAIN r : n[i] \in N
  BY DEF Named
<1> DEFINE t == q \o r
           h == [i \in 1 .. Len(q) + Len(r) |-> IF i <= Len(q) THEN m[i] ELSE n[i - Len(q)]]
           Left(i) == i \in DOMAIN q /\ t[i] = q[i] /\ h[i] = m[i]
           Right(i) == /\ i - Len(q) \in DOMAIN r /\ t[i] = r[i - Len(q)]
                       /\ h[i] = n[i - Len(q)]
<1>3. /\ t \in Seq(S) /\ Len(q) \in Nat /\ Len(r) \in Nat
      /\ DOMAIN t = 1 .. Len(q) + Len(r) /\ DOMAIN q = 1 .. Len(q) /\ DOMAIN r = 1 .. Len(r)
      /\ \A i \in 1 .. Len(q) + Len(r) : t[i] = IF i <= Len(q) THEN q[i] ELSE r[i - Len(q)]
  BY ConcatProperties
<1>4. \A i \in 1 .. Len(q) + Len(r) : h[i] = IF i <= Len(q) THEN m[i] ELSE n[i - Len(q)]
  OBVIOUS
<1> HIDE DEF t, h
<1>5. \A i \in DOMAIN t : Left(i) \/ Right(i)
  BY <1>3, <1>4
<1>6. \A i \in DOMAIN t : i \in Int
  BY <1>3
<1>7. Len(q) \in Int
  BY <1>3
<1>8. ToSet(t) \subseteq ToSet(q) \cup ToSet(r)
  BY <1>5 DEF ToSet
<1>9. \A i \in DOMAIN t : h[i] \in NamesOf(t[i]) /\ h[i] \in M \cup N
  BY <1>1, <1>2, <1>5 DEF Naming
<1>10. ASSUME NEW i \in DOMAIN t, NEW j \in DOMAIN t, t[i] = t[j], h[i] = h[j] PROVE i = j
  <2>1. CASE Left(i) /\ Left(j)
    BY <1>1, <1>10, <2>1 DEF Naming
  <2>2. CASE Right(i) /\ Right(j)
    <3>1. i - Len(q) = j - Len(q)
      BY <1>2, <1>10, <2>2 DEF Naming
    <3>2. QED BY <1>6, <1>7, <3>1
  <2>3. CASE Left(i) /\ Right(j)
    <3>1. t[i] \in ToSet(q) /\ t[j] \in ToSet(r)
      BY <2>3, Zenon DEF ToSet
    <3>2. QED BY <1>10, <3>1
  <2>4. CASE Left(j) /\ Right(i)
    <3>1. t[j] \in ToSet(q) /\ t[i] \in ToSet(r)
      BY <2>4, Zenon DEF ToSet
    <3>2. QED BY <1>10, <3>1
  <2>5. QED BY <1>5, <2>1, <2>2, <2>3, <2>4
<1>11. QED BY <1>3, <1>8, <1>9, <1>10 DEF Named, Naming, t

\* A list of structures without repetitions.
LEMMA StructsNamed ==
  ASSUME NEW q \in Seq(Structs), IsInjective(q)
  PROVE  \E N : Named(q, N)
<1> DEFINE h == [i \in DOMAIN q |-> Name[q[i]]]
           N == {h[i] : i \in DOMAIN q}
<1>1. \A i \in DOMAIN q : NamesOf(q[i]) = {Name[q[i]]}
  BY KindsAreDisjoint DEF NamesOf
<1>2. Naming(q, h)
  BY <1>1 DEF Naming, IsInjective
<1> HIDE DEF h
<1>3. \A i \in DOMAIN q : h[i] \in N
  OBVIOUS
<1> HIDE DEF N
<1>4. QED BY <1>2, <1>3 DEF Named

LEMMA NamesAreFinite ==
  ASSUME NEW d
  PROVE  IsFiniteSet(NamesOf(d))
<1> DEFINE f == [x \in SymbolsOf(d) |-> Name[x]]
           T == {Name[x] : x \in SymbolsOf(d)}
<1>1. IsFiniteSet(SymbolsOf(d))
  <2>1. SymbolsOf(d) \in SUBSET Symbols
    BY DEF SymbolsOf
  <2>2. QED BY <2>1, SymbolsAreDeclared, FS_Subset
<1>2. f \in Surjection(SymbolsOf(d), T)
  BY DEF Surjection
<1>3. IsFiniteSet(T)
  <2> HIDE DEF f, T
  <2>1. QED BY <1>1, <1>2, FS_Surjection
<1>4. IsFiniteSet({Name[d]})
  BY FS_Singleton
<1>5. QED BY <1>3, <1>4 DEF NamesOf

\* Named counts the entries.
LEMMA NamedCounts ==
  ASSUME NEW q, NEW N, Named(q, N), NEW d
  PROVE  Cardinality({i \in DOMAIN q : q[i] = d}) <= Cardinality(NamesOf(d))
<1>1. PICK nm : Naming(q, nm)
  BY DEF Named
<1> DEFINE W == {i \in DOMAIN q : q[i] = d}
           f == [i \in W |-> nm[i]]
<1>2. f \in Injection(W, NamesOf(d))
  BY <1>1 DEF Naming, Injection, IsInjective
<1> HIDE DEF f, W
<1>3. QED BY <1>2, NamesAreFinite, FS_Injection DEF W

\* GenUniformDeps writes each structure once, and none that depend_ holds.
LEMMA UniformTypesApart ==
  ASSUME TypeOK, IsInjective(uni_depend)
  PROVE  /\ UniformTypes \in Seq(Structs) /\ IsInjective(UniformTypes)
         /\ ToSet(UniformTypes) \cap ToSet(depend) = {}
<1> DEFINE n == Len(uni_depend)
           One(i) == IF uni_depend[i] \in ToSet(depend) THEN <<>> ELSE <<uni_depend[i]>>
           Good(g) == g = [i \in 0 .. n |-> IF i = 0 THEN <<>> ELSE One(i) \o g[i - 1]]
           Right(g, m) == g[0] = <<>> /\ \A i \in 1 .. m : g[i] = One(i) \o g[i - 1]
           Done(m) == \E g : Right(g, m)
           T == {m \in 0 .. n : ~Done(m)}
<1>1. n \in Nat /\ DOMAIN uni_depend = 1 .. n /\ \A i \in 1 .. n : uni_depend[i] \in Structs
  BY DEF TypeOK
<1>2. UniformTypes = (CHOOSE g : Good(g))[n]
  BY DEF UniformTypes
<1> HIDE DEF n, One
<1>3. Done(n)
  <2>1. SUFFICES ASSUME T # {} PROVE FALSE
    <3> HIDE DEF Done
    <3>1. QED BY <1>1
  <2>2. T \in SUBSET Nat
    BY <1>1
  <2>3. PICK m \in T : \A i \in T : m <= i
    BY <2>1, <2>2, Least
  <2>4. Right([i \in 0 .. n |-> <<>>], 0)
    BY <1>1
  <2>5. m - 1 \in 0 .. n /\ m \in 1 .. n
    <3>1. m # 0
      BY <2>4
    <3> HIDE DEF Done
    <3>2. QED BY <1>1, <3>1
  <2>6. PICK g : Right(g, m - 1)
    <3> HIDE DEF Done
    <3>1. m - 1 \notin T
      <4> HIDE DEF T
      <4>1. QED BY <1>1, <2>3, <2>5
    <3>2. Done(m - 1)
      BY <2>5, <3>1
    <3>3. QED BY <3>2 DEF Done
  <2> DEFINE h == [i \in 0 .. n |-> IF i = m THEN One(m) \o g[m - 1] ELSE g[i]]
  <2>7. \A i \in 0 .. n : h[i] = IF i = m THEN One(m) \o g[m - 1] ELSE g[i]
    OBVIOUS
  <2> HIDE DEF h
  <2>8. h[0] = <<>>
    BY <1>1, <2>5, <2>6, <2>7
  <2>9. ASSUME NEW i \in 1 .. m PROVE h[i] = One(i) \o h[i - 1]
    <3>1. i \in 1 .. n /\ i - 1 \in 0 .. n /\ i - 1 # m
      BY <1>1, <2>5
    <3>2. h[i - 1] = g[i - 1]
      BY <2>7, <3>1
    <3>3. CASE i = m
      BY <2>7, <3>1, <3>2, <3>3
    <3>4. CASE i # m
      <4>1. i \in 1 .. m - 1
        BY <1>1, <2>5, <3>1, <3>4
      <4>2. h[i] = g[i]
        BY <2>7, <3>1, <3>4
      <4>3. QED BY <2>6, <3>2, <4>1, <4>2
    <3>5. QED BY <3>3, <3>4
  <2>10. Done(m)
    BY <2>8, <2>9
  <2>11. QED
    <3> HIDE DEF Done
    <3>1. QED BY <2>10
<1>4. \E g : Good(g)
  <2>1. PICK g : Right(g, n)
    BY <1>3
  <2> DEFINE h == [i \in 0 .. n |-> g[i]]
  <2>2. Good(h)
    <3>1. \A i \in 1 .. n : h[i] = g[i] /\ h[i - 1] = g[i - 1]
      BY <1>1
    <3>2. h[0] = g[0]
      BY <1>1
    <3> DEFINE k == [i \in 0 .. n |-> IF i = 0 THEN <<>> ELSE One(i) \o h[i - 1]]
    <3>3. ASSUME NEW i \in 0 .. n PROVE k[i] = g[i]
      <4>1. CASE i = 0
        BY <2>1, <4>1
      <4>2. CASE i # 0
        <5>1. i \in 1 .. n
          BY <1>1, <4>2
        <5> HIDE DEF h
        <5>2. QED BY <2>1, <3>1, <4>2, <5>1
      <4>3. QED BY <4>1, <4>2
    <3>4. h = k
      <4> HIDE DEF k
      <4>1. k = [i \in 0 .. n |-> k[i]]
        BY DEF k
      <4>2. QED BY <3>3, <4>1
    <3>5. QED BY <3>4
  <2>3. QED BY <2>2
<1> DEFINE f == CHOOSE g : Good(g)
<1>5. UniformTypes = f[n] /\ Good(f)
  BY <1>2, <1>4
<1> HIDE DEF f
<1>6. f[0] = <<>> /\ \A i \in 1 .. n : f[i] = One(i) \o f[i - 1]
  <2>1. f = [i \in 0 .. n |-> IF i = 0 THEN <<>> ELSE One(i) \o f[i - 1]]
    BY <1>5
  <2>2. \A i \in 0 .. n : f[i] = IF i = 0 THEN <<>> ELSE One(i) \o f[i - 1]
    BY <2>1
  <2>3. 0 \in 0 .. n /\ \A i \in 1 .. n : i \in 0 .. n /\ i # 0
    BY <1>1
  <2>4. QED BY <2>2, <2>3
<1> HIDE DEF Good, Right, Done, T
<1> DEFINE So(q, i) == /\ q \in Seq(Structs) /\ IsInjective(q)
                       /\ \A x \in ToSet(q) : /\ x \notin ToSet(depend)
                                              /\ \E j \in 1 .. i : x = uni_depend[j]
           U == {i \in 0 .. n : ~So(f[i], i)}
<1>7. ASSUME NEW m \in 1 .. n, So(f[m - 1], m - 1) PROVE So(f[m], m)
  <2> DEFINE o == One(m)
             q == f[m - 1]
  <2>1. /\ o \in Seq(Structs) /\ IsInjective(o)
        /\ \A x \in ToSet(o) : x \notin ToSet(depend) /\ x = uni_depend[m]
    <3>1. CASE uni_depend[m] \in ToSet(depend)
      <4>1. o = <<>>
        BY <3>1 DEF One
      <4>2. DOMAIN <<>> = {}
        OBVIOUS
      <4>3. QED BY <4>1, <4>2 DEF IsInjective, ToSet
    <3>2. CASE uni_depend[m] \notin ToSet(depend)
      <4>1. o = <<uni_depend[m]>>
        BY <3>2 DEF One
      <4>2. uni_depend[m] \in Structs
        BY <1>1
      <4>3. o \in Seq(Structs) /\ IsInjective(o) /\ ToSet(o) = {uni_depend[m]}
        BY <4>1, <4>2, OneApart
      <4>4. QED BY <3>2, <4>3
    <3>3. QED BY <3>1, <3>2
  <2>2. ToSet(o) \cap ToSet(q) = {}
    <3>1. SUFFICES ASSUME NEW x \in ToSet(q), x = uni_depend[m] PROVE FALSE
      BY <2>1
    <3>2. PICK j \in 1 .. m - 1 : x = uni_depend[j]
      BY <1>7
    <3>3. j \in 1 .. n /\ m \in 1 .. n /\ j # m
      BY <1>1, <3>2
    <3>4. QED BY <1>1, <3>1, <3>2, <3>3 DEF IsInjective
  <2>3. f[m] = o \o q
    BY <1>6
  <2>4. q \in Seq(Structs) /\ IsInjective(q)
    BY <1>7
  <2> HIDE DEF o, q
  <2>5. /\ o \o q \in Seq(Structs) /\ IsInjective(o \o q)
        /\ ToSet(o \o q) = ToSet(o) \cup ToSet(q)
    BY <2>1, <2>2, <2>4, JoinedApart
  <2>6. ASSUME NEW x \in ToSet(f[m])
        PROVE  x \notin ToSet(depend) /\ \E j \in 1 .. m : x = uni_depend[j]
    <3>1. x \in ToSet(o) \/ x \in ToSet(q)
      BY <2>3, <2>5
    <3>2. CASE x \in ToSet(o)
      BY <1>1, <2>1, <3>2
    <3>3. CASE x \in ToSet(q)
      <4>1. x \notin ToSet(depend) /\ \E j \in 1 .. m - 1 : x = uni_depend[j]
        BY <1>7, <3>3 DEF q
      <4>2. \A j \in 1 .. m - 1 : j \in 1 .. m
        BY <1>1
      <4>3. QED BY <4>1, <4>2
    <3>4. QED BY <3>1, <3>2, <3>3
  <2>7. QED BY <2>3, <2>5, <2>6
<1>8. So(f[0], 0)
  <2>1. DOMAIN <<>> = {} /\ <<>> \in Seq(Structs)
    OBVIOUS
  <2>2. QED BY <1>6, <2>1 DEF IsInjective, ToSet
<1>9. So(f[n], n)
  <2>1. SUFFICES ASSUME U # {} PROVE FALSE
    <3> HIDE DEF So
    <3>1. QED BY <1>1
  <2>2. U \in SUBSET Nat
    BY <1>1
  <2>3. PICK m \in U : \A i \in U : m <= i
    BY <2>1, <2>2, Least
  <2> HIDE DEF So
  <2>4. m - 1 \in 0 .. n /\ m \in 1 .. n
    BY <1>1, <1>8
  <2>5. m - 1 \notin U
    <3> HIDE DEF U
    <3>1. QED BY <1>1, <2>3, <2>4
  <2>6. QED BY <1>7, <2>4, <2>5
<1>10. QED BY <1>5, <1>9

LEMMA AppendApart ==
  ASSUME NEW S, NEW q \in Seq(S), IsInjective(q), NEW e \in S, e \notin ToSet(q)
  PROVE  IsInjective(Append(q, e))
<1> DEFINE t == Append(q, e)
<1>1. /\ Len(q) \in Nat /\ DOMAIN q = 1 .. Len(q) /\ DOMAIN t = 1 .. Len(q) + 1
      /\ \A i \in 1 .. Len(q) : t[i] = q[i]
      /\ t[Len(q) + 1] = e
  OBVIOUS
<1> HIDE DEF t
<1>2. \A i \in DOMAIN q : q[i] # e
  BY Zenon DEF ToSet
<1>3. ASSUME NEW i \in DOMAIN t, NEW j \in DOMAIN t, t[i] = t[j] PROVE i = j
  <2>1. CASE i \in DOMAIN q /\ j \in DOMAIN q
    BY <1>1, <1>3, <2>1 DEF IsInjective
  <2>2. CASE i \notin DOMAIN q /\ j \notin DOMAIN q
    BY <1>1, <2>2
  <2>3. CASE i \in DOMAIN q <=> j \notin DOMAIN q
    <3>1. (i = Len(q) + 1 /\ j \in DOMAIN q) \/ (j = Len(q) + 1 /\ i \in DOMAIN q)
      BY <1>1, <2>3
    <3>2. QED BY <1>1, <1>2, <1>3, <3>1
  <2>4. QED BY <2>1, <2>2, <2>3
<1>4. QED BY <1>3 DEF t, IsInjective

LEMMA AddApart ==
  ASSUME NEW list \in Lists, NEW e \in Kept, NEW n \in NamesOf(e), Apart(list)
  PROVE  /\ Apart(Add(list, n, e))
         /\ list.inserted \subseteq Add(list, n, e).inserted
<1>1. CASE n \in list.inserted
  BY <1>1 DEF Add
<1>2. CASE n \notin list.inserted
  <2>1. /\ Add(list, n, e).depend = Append(list.depend, e)
        /\ Add(list, n, e).inserted = list.inserted \cup {n}
    BY <1>2 DEF Add
  <2>2. list.depend \in Seq(Kept)
    BY DEF Lists
  <2>3. Named(Append(list.depend, e), list.inserted \cup {n})
    BY <1>2, <2>2, AppendNamed DEF Apart
  <2>4. QED BY <2>1, <2>3 DEF Apart
<1>3. QED BY <1>1, <1>2

LEMMA CollectsApart ==
  ASSUME ListsApart, NEW list, Apart(list), inserted \subseteq list.inserted,
         Collects(list), UNCHANGED <<uniforms, uni_depend>>
  PROVE  ListsApart'
<1>1. Named(uniforms, list.inserted)
  BY NamedUp DEF ListsApart
<1>2. QED BY <1>1 DEF ListsApart, Apart, Collects

LEMMA UniformApart ==
  ASSUME TypeOK, ListsApart, VisitUniform
  PROVE  ListsApart'
<1> DEFINE d == Decl[Referred]
           n == Name[Referred]
<1>1. d \in Uniforms /\ uniforms \in Seq(Uniforms) /\ uni_depend \in Seq(Structs)
  BY DEF VisitUniform, RefersTo, TypeOK
<1>2. /\ depend' = depend /\ inserted' = inserted \cup {n} /\ inserted \subseteq inserted'
      /\ uniforms' = IF n \in inserted THEN uniforms ELSE Append(uniforms, d)
  BY DEF VisitUniform
<1>3. n \in NamesOf(d)
  BY DEF VisitUniform, RefersTo, NamesOf, SymbolsOf
<1>4. Named(depend, inserted')
  BY <1>2, NamedUp DEF ListsApart
<1>5. Named(uniforms', inserted')
  <2>1. CASE n \in inserted
    BY <1>2, <2>1, NamedUp DEF ListsApart
  <2>2. CASE n \notin inserted
    <3> HIDE DEF d, n
    <3>1. Named(Append(uniforms, d), inserted \cup {n})
      BY <1>1, <1>3, <2>2, AppendNamed DEF ListsApart
    <3>2. QED BY <1>2, <2>2, <3>1
  <2>3. QED BY <2>1, <2>2
<1>6. IsInjective(uni_depend')
  <2> DEFINE e == struct_of[d]
  <2>1. e \in Structs \cup {NoStruct}
    BY <1>1 DEF TypeOK
  <2>2. CASE e \in {NoStruct} \cup ToSet(uni_depend)
    BY <2>2 DEF VisitUniform, ListsApart
  <2>3. CASE e \notin {NoStruct} \cup ToSet(uni_depend)
    <3>1. uni_depend' = Append(uni_depend, e) /\ e \in Structs /\ e \notin ToSet(uni_depend)
      BY <2>1, <2>3 DEF VisitUniform
    <3> HIDE DEF e
    <3>2. QED BY <1>1, <3>1, AppendApart DEF ListsApart
  <2>4. QED BY <2>2, <2>3
<1>7. QED BY <1>2, <1>4, <1>5, <1>6 DEF ListsApart

LEMMA ApartStep ==
  ASSUME TypeOK, ListsApart, [Next]_vars
  PROVE  ListsApart'
<1>1. Collected \in Lists /\ Apart(Collected) /\ Collected.inserted = inserted
  BY CollectedTyped DEF Collected, Apart, ListsApart
<1>2. \A e \in Functions \cup Structs : Name[e] \in NamesOf(e)
  BY KindsAreDisjoint DEF NamesOf
<1>3. CASE VisitDefinition
  <2> DEFINE new == Add(Collected, Name[Referred], Referred)
  <2>1. Referred \in Kept /\ Name[Referred] \in NamesOf(Referred)
    BY <1>2, <1>3 DEF VisitDefinition, Kept
  <2>2. Apart(new) /\ inserted \subseteq new.inserted
    BY <1>1, <2>1, AddApart
  <2>3. Collects(new) /\ UNCHANGED <<uniforms, uni_depend>>
    BY <1>3 DEF VisitDefinition
  <2> HIDE DEF new
  <2>4. QED BY <2>2, <2>3, CollectsApart
<1>4. CASE VisitGlobal
  <2> DEFINE d == Decl[Referred]
             one == Add(Collected, Name[Referred], d)
             two == WithStruct(one, d)
  <2>1. d \in Globals /\ d \in Kept /\ Name[Referred] \in NamesOf(d)
    BY <1>4 DEF VisitGlobal, RefersTo, Kept, NamesOf, SymbolsOf
  <2>2. one \in Lists /\ Apart(one) /\ inserted \subseteq one.inserted
    BY <1>1, <1>4, <2>1, GlobalTyped, AddApart
  <2>3. Apart(two) /\ inserted \subseteq two.inserted
    <3> DEFINE e == struct_of[d]
    <3>1. CASE e = NoStruct
      BY <2>2, <3>1 DEF WithStruct
    <3>2. CASE e # NoStruct
      <4>1. e \in Kept /\ Name[e] \in NamesOf(e)
        BY <1>2, <2>1, <3>2 DEF TypeOK, Kept
      <4>2. two = Add(one, Name[e], e)
        BY <3>2 DEF WithStruct
      <4> HIDE DEF one, two, e
      <4>3. QED BY <2>2, <4>1, <4>2, AddApart
    <3>3. QED BY <3>1, <3>2
  <2>4. Collects(two) /\ UNCHANGED <<uniforms, uni_depend>>
    BY <1>4 DEF VisitGlobal
  <2> HIDE DEF two
  <2>5. QED BY <2>3, <2>4, CollectsApart
<1>5. CASE VisitUniform
  BY <1>5, UniformApart
<1>6. CASE NextDefinition
  BY <1>6 DEF NextDefinition, ListsApart
<1>7. CASE UNCHANGED vars
  BY <1>7 DEF vars, ListsApart
<1>8. QED
  BY <1>3, <1>4, <1>5, <1>6, <1>7 DEF Next

\* What the three parts of the text write, they write under different names.
LEMMA WrittenOnce ==
  ASSUME TypeOK, ListsApart
  PROVE  \E N : Named(Front(Emitted), N)
<1> DEFINE a == Reverse(depend)
           b == UniformTypes
           t == a \o b \o uniforms
<1>1. /\ depend \in Seq(Defs) /\ uniforms \in Seq(Defs)
      /\ ToSet(depend) \cap Uniforms = {} /\ ToSet(uniforms) \subseteq Uniforms
  <2>1. ToSet(depend) \subseteq Functions \cup Globals \cup Structs
    BY DEF TypeOK, ToSet
  <2>2. ToSet(uniforms) \subseteq Uniforms
    BY DEF TypeOK, ToSet
  <2>3. QED BY <2>1, <2>2, KindsAreDisjoint DEF TypeOK, Defs
<1>2. a \in Seq(Defs) /\ Named(a, inserted) /\ ToSet(a) \subseteq ToSet(depend)
  BY <1>1, ReversedNamed DEF ListsApart
<1>3. b \in Seq(Structs) /\ IsInjective(b) /\ ToSet(b) \cap ToSet(depend) = {}
  BY UniformTypesApart DEF ListsApart
<1>4. b \in Seq(Defs) /\ ToSet(b) \subseteq Structs
  BY <1>3 DEF Defs, ToSet
<1> HIDE DEF a, b
<1>5. PICK M : Named(b, M)
  BY <1>3, StructsNamed
<1>6. /\ a \o b \in Seq(Defs) /\ Named(a \o b, inserted \cup M)
      /\ ToSet(a \o b) \subseteq ToSet(a) \cup ToSet(b)
  <2>1. ToSet(a) \cap ToSet(b) = {}
    BY <1>2, <1>3
  <2>2. QED BY <1>2, <1>4, <1>5, <2>1, JoinedNamed
<1>7. ToSet(a \o b) \cap ToSet(uniforms) = {}
  BY <1>1, <1>2, <1>4, <1>6, KindsAreDisjoint
<1>8. t \in Seq(Defs) /\ \E N : Named(t, N)
  <2> DEFINE ab == a \o b
  <2>1. ab \in Seq(Defs) /\ Named(ab, inserted \cup M) /\ ToSet(ab) \cap ToSet(uniforms) = {}
    BY <1>6, <1>7
  <2> HIDE DEF ab
  <2>2. ab \o uniforms \in Seq(Defs) /\ Named(ab \o uniforms, (inserted \cup M) \cup inserted)
    BY <1>1, <2>1, JoinedNamed DEF ListsApart
  <2>3. QED BY <2>2 DEF ab
<1>9. Emitted = t \o <<Entry>>
  BY DEF Emitted, a, b
<1> HIDE DEF t
<1>10. Front(t \o <<Entry>>) = t
  <2> DEFINE e == t \o <<Entry>>
  <2>1. Entry \in Defs /\ <<Entry>> \in Seq(Defs) /\ Len(<<Entry>>) = 1
    BY EntryIsFunction DEF Defs
  <2>2. /\ e \in Seq(Defs) /\ Len(e) = Len(t) + 1 /\ Len(t) \in Nat
        /\ \A i \in 1 .. Len(t) : e[i] = t[i]
    BY <1>8, <2>1, ConcatProperties
  <2> HIDE DEF e
  <2>3. Front(e) = SubSeq(e, 1, Len(t))
    BY <2>2 DEF Front
  <2>4. /\ SubSeq(e, 1, Len(t)) \in Seq(Defs) /\ Len(SubSeq(e, 1, Len(t))) = Len(t)
        /\ \A i \in 1 .. Len(t) : SubSeq(e, 1, Len(t))[i] = e[i]
    BY <2>2
  <2>5. SubSeq(e, 1, Len(t)) = t
    BY <1>8, <2>2, <2>4, SeqEqual
  <2>6. QED BY <2>3, <2>5 DEF e
<1>11. QED BY <1>8, <1>9, <1>10

\* The generated shader defines nothing more often than it has names, whatever the
\* names are: each copy of a declaration has come under another of its variables (Add
\* and AddUniTypeDep of depend_calactor.cc, GenUniDepend of afx_codegen.cc).
THEOREM OnceUnderEachName == Spec => []EmittedOncePerName
<1>1. Init => TypeOK /\ ListsApart
  <2>1. ASSUME Init PROVE ListsApart
    <3>1. DOMAIN <<>> = {}
      OBVIOUS
    <3>2. QED BY <2>1, <3>1 DEF Init, ListsApart, Named, Naming, IsInjective
  <2>2. QED BY <2>1, InitTyped
<1>2. TypeOK /\ ListsApart /\ [Next]_vars => ListsApart'
  BY ApartStep
<1>3. TypeOK /\ ListsApart => EmittedOncePerName
  <2>1. SUFFICES ASSUME TypeOK, ListsApart, NEW d \in Defs
                 PROVE  Cardinality(Written(d)) <= Cardinality(NamesOf(d))
    BY DEF EmittedOncePerName
  <2>2. PICK N : Named(Front(Emitted), N)
    BY <2>1, WrittenOnce
  <2>3. QED BY <2>2, NamedCounts DEF Written
<1>4. QED BY <1>1, <1>2, <1>3, TypeCorrect, PTL DEF Spec
=============================================================================
