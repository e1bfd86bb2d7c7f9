---------------------------- MODULE ScenesProofs ----------------------------
(***************************************************************************)
(* What the dictionaries of Resources promise, while scenes are built and  *)
(* clients ask, and what GetScene promises of the scenes, for every set of *)
(* files and names and every text of them.                                 *)
(*                                                                         *)
(* First the dictionaries alone: their invariant is IInv.  The rest of the *)
(* state has four parts: what GetSceneNodeInfo remembers (InfoInv), the    *)
(* tree and the map, compared with the text (BuildInv), the activations of *)
(* RecursiveCreateNode, compared with the tree they are making (WorkInv),  *)
(* and the mesh that is being loaded (LoadingInv).  AllInv is inductive    *)
(* and implies the properties.  The links are those of AstNodeProofs.      *)
(***************************************************************************)
EXTENDS Scenes, FiniteSetTheorems, SequenceTheorems, TLAPS

Tree == INSTANCE AstNodeProofs WITH torn <- FALSE

\* What is in the dictionary: the objects of the last load, all of them, and
\* nothing the file does not hold.
DictExact ==
  \A n \in Names : dict[n] = IF Holds(n) THEN made[n[1]] ELSE 0

\* A file is loaded again only because of an item it does not hold.
ReloadedInVain ==
  \A f \in Packages : /\ made[f] > 0 => f \in sound
                      /\ made[f] > 1 => AskedInVain(f)

GivenSoFar ==
  \A n \in Names, g \in given : g.name = n => g.object \in 0 .. made[n[1]]

\* A mesh that is being loaded.
Loadings == [mesh : Meshes, groups : Seq(Nat), desc : Nat]

Typed ==
  /\ dict \in [Names -> Nat]
  /\ made \in [Packages \cup Textures -> Nat]
  /\ text \in Contents
  /\ loading \in {NotLoading} \cup Loadings

IInv == Typed /\ DictExact /\ ReloadedInVain /\ GivenSoFar /\ FoundWhereItStands

LEMMA InitIInv == SceneInit => IInv
<1> SUFFICES ASSUME SceneInit PROVE IInv
  OBVIOUS
<1>1. /\ dict = [n \in Names |-> 0] /\ made = [f \in Packages \cup Textures |-> 0]
      /\ text \in Contents /\ loading = NotLoading /\ given = {}
  BY DEF SceneInit, ResInit
<1>2. \A n \in Names : n[1] \in Packages
  BY DEF Names
<1> QED
  BY <1>1, <1>2
  DEF IInv, Typed, DictExact, ReloadedInVain, GivenSoFar, FoundWhereItStands, Holds

\* What does not touch the dictionaries.
LEMMA UntouchedIInv ==
  ASSUME IInv, UNCHANGED <<text, sound, dict, made, given>>, Typed'
  PROVE  IInv'
BY DEF IInv, DictExact, ReloadedInVain, GivenSoFar, FoundWhereItStands, Holds, AskedInVain

\* The three ways a call of Get ends: the item is there, its file is loaded, or
\* the file cannot be read.
LEMMA AskIInv ==
  ASSUME IInv, NEW n \in Names, Ask(n), UNCHANGED <<text, sound>>,
         loading' \in {NotLoading} \cup Loadings
  PROVE  IInv'
<1> DEFINE f == n[1]
           g == [name |-> n, object |-> dict'[n], readable |-> f \in sound]
<1>1. /\ f \in Packages /\ f \in Packages \cup Textures /\ f \notin Textures
      /\ \A m \in Names : m[1] \in Packages
  BY KindsApart DEF Names
<1>2. /\ dict \in [Names -> Nat] /\ made \in [Packages \cup Textures -> Nat]
      /\ DictExact /\ ReloadedInVain /\ GivenSoFar /\ FoundWhereItStands
  BY DEF IInv, Typed
<1>3. given' = given \cup {g} /\ dict' = DictAfter(n) /\ made' = MadeAfter(n)
  BY DEF Ask
<1>4. \A m \in Names : Holds(m)' <=> Holds(m)
  BY DEF Holds
<1>5. CASE Misses(n)
  <2>1. /\ made' = [made EXCEPT ![f] = @ + 1]
        /\ dict' = [m \in Names |-> IF m[1] = f /\ Holds(m) THEN made[f] + 1 ELSE dict[m]]
        /\ dict[n] = 0 /\ f \in sound
    BY <1>3, <1>5 DEF MadeAfter, DictAfter, Misses
  <2>2. made[f] \in Nat /\ made'[f] = made[f] + 1 /\ \A h \in Packages : h # f => made'[h] = made[h]
    BY <1>1, <1>2, <2>1
  <2>3. Typed'
    <3>1. dict' \in [Names -> Nat]
      BY <1>2, <2>1, <2>2
    <3>2. made' \in [Packages \cup Textures -> Nat]
      BY <1>1, <1>2, <2>1, <2>2
    <3> QED BY <3>1, <3>2 DEF IInv, Typed
  <2>4. DictExact'
    BY <1>1, <1>2, <1>4, <2>1, <2>2 DEF DictExact
  <2>5. dict'[n] = IF Holds(n) THEN made'[f] ELSE 0
    BY <1>4, <2>4 DEF DictExact
  <2>6. ReloadedInVain'
    <3>1. ASSUME NEW h \in Packages, AskedInVain(h) PROVE AskedInVain(h)'
      BY <1>3, <1>4, <3>1 DEF AskedInVain
    <3>2. ASSUME made'[f] > 1 PROVE AskedInVain(f)'
      <4>1. ~Holds(n)
        BY <1>2, <2>1, <2>2, <3>2 DEF DictExact
      <4>2. g \in given' /\ g.name = n /\ g.readable
        BY <1>3, <2>1
      <4> QED BY <1>4, <4>1, <4>2 DEF AskedInVain
    <3> QED BY <1>2, <2>1, <2>2, <3>1, <3>2 DEF ReloadedInVain
  <2>7. GivenSoFar'
    <3> SUFFICES ASSUME NEW m \in Names, NEW q \in given', q.name = m
                 PROVE  q.object \in 0 .. made'[m[1]]
      BY DEF GivenSoFar
    <3>1. made[m[1]] \in Nat /\ made'[m[1]] \in Nat /\ made[m[1]] <= made'[m[1]]
      BY <1>1, <1>2, <2>2
    <3>2. CASE q \in given
      BY <1>2, <3>1, <3>2 DEF GivenSoFar
    <3>3. CASE q = g
      <4>1. q.object = dict'[n] /\ q.name = n
        BY <3>3
      <4>2. m = n
        BY <4>1
      <4>3. made'[f] \in Nat
        BY <3>1, <4>2
      <4>4. dict'[n] = made'[f] \/ dict'[n] = 0
        BY <2>5
      <4>5. dict'[n] \in 0 .. made'[f]
        BY <4>3, <4>4
      <4> QED BY <4>1, <4>2, <4>5
    <3> QED BY <1>3, <3>2, <3>3
  <2>8. FoundWhereItStands'
    <3>1. g.object # 0 <=> g.readable /\ Holds(n)
      <4>1. g.object = dict'[n] /\ (g.readable <=> f \in sound)
        OBVIOUS
      <4>2. CASE Holds(n)
        <5>1. dict'[n] = made[f] + 1 /\ made[f] + 1 # 0
          BY <2>2, <2>5, <4>2
        <5> QED BY <2>1, <4>1, <4>2, <5>1
      <4>3. CASE ~Holds(n)
        BY <2>5, <4>1, <4>3
      <4> QED BY <4>2, <4>3
    <3> QED BY <1>2, <1>3, <1>4, <3>1 DEF FoundWhereItStands
  <2> QED BY <2>3, <2>4, <2>6, <2>7, <2>8 DEF IInv
<1>6. CASE ~Misses(n)
  <2>1. made' = made /\ dict' = dict
    BY <1>3, <1>6 DEF MadeAfter, DictAfter
  <2>2. \A m \in Names : made[m[1]] \in Nat
    BY <1>1, <1>2
  <2>3. Typed' /\ DictExact'
    BY <1>2, <1>4, <2>1 DEF IInv, Typed, DictExact
  <2>4. dict[n] = IF Holds(n) THEN made[f] ELSE 0
    BY <1>2 DEF DictExact
  <2>5. ReloadedInVain'
    <3>1. ASSUME NEW h \in Packages, AskedInVain(h) PROVE AskedInVain(h)'
      BY <1>3, <1>4, <3>1 DEF AskedInVain
    <3> QED BY <1>2, <2>1, <3>1 DEF ReloadedInVain
  <2>6. GivenSoFar'
    <3> SUFFICES ASSUME NEW m \in Names, NEW q \in given', q.name = m
                 PROVE  q.object \in 0 .. made'[m[1]]
      BY DEF GivenSoFar
    <3>1. CASE q \in given
      BY <1>2, <2>1, <3>1 DEF GivenSoFar
    <3>2. CASE q = g
      BY <2>1, <2>2, <2>4, <3>2
    <3> QED BY <1>3, <3>1, <3>2
  <2>7. FoundWhereItStands'
    <3>1. g.object # 0 <=> g.readable /\ Holds(n)
      <4>1. CASE dict[n] = 0
        BY <1>6, <2>1, <4>1 DEF Misses
      <4>2. CASE dict[n] # 0
        <5>1. Holds(n) /\ made[f] > 0
          BY <2>2, <2>4, <4>2
        <5>2. f \in sound
          BY <1>1, <1>2, <5>1 DEF ReloadedInVain
        <5> QED BY <2>1, <4>2, <5>1, <5>2
      <4> QED BY <4>1, <4>2
    <3> QED BY <1>2, <1>3, <1>4, <3>1 DEF FoundWhereItStands
  <2> QED BY <2>3, <2>5, <2>6, <2>7 DEF IInv
<1> QED BY <1>5, <1>6

\* Textures are counted apart from the items of packages.
LEMMA TextureIInv ==
  ASSUME IInv, NEW f \in Textures, GetTexture(f)
  PROVE  IInv'
<1>1. /\ \A n \in Names : n[1] \in Packages /\ n[1] # f /\ n # f
      /\ \A h \in Packages : h # f
      /\ f \in Packages \cup Textures
  BY KindsApart DEF Names
<1>2. /\ UNCHANGED <<text, sound, dict, loading>>
      /\ \E k \in {made[f], made[f] + 1} : made' = [made EXCEPT ![f] = k]
      /\ \E g : g.name = f /\ given' = given \cup {g}
  <2> DEFINE obj == IF f \in sound THEN made[f] + 1 ELSE 0
             g == [name |-> f, object |-> obj, readable |-> f \in sound]
  <2>1. g.name = f
    OBVIOUS
  <2>2. given' = given \cup {g} /\ made' = [made EXCEPT ![f] = IF obj = 0 THEN @ ELSE obj]
    BY DEF GetTexture
  <2>3. UNCHANGED <<text, sound, dict, loading>>
    BY DEF GetTexture
  <2>4. (IF obj = 0 THEN made[f] ELSE obj) \in {made[f], made[f] + 1}
    OBVIOUS
  <2> QED BY <2>1, <2>2, <2>3, <2>4
<1>3. \A h \in Packages : made'[h] = made[h]
  BY <1>1, <1>2 DEF IInv, Typed
<1>4. Typed'
  <2>1. made \in [Packages \cup Textures -> Nat]
    BY DEF IInv, Typed
  <2>2. made[f] \in Nat /\ made[f] + 1 \in Nat
    BY <1>1, <2>1
  <2>3. made' \in [Packages \cup Textures -> Nat]
    BY <1>2, <2>1, <2>2
  <2> QED BY <1>2, <2>3 DEF IInv, Typed
<1>5. \A n \in Names : Holds(n)' <=> Holds(n)
  BY <1>2 DEF Holds
<1>6. DictExact'
  BY <1>1, <1>2, <1>3, <1>5 DEF IInv, DictExact
<1>7. \A h \in Packages : AskedInVain(h) => AskedInVain(h)'
  BY <1>2, <1>5 DEF AskedInVain
<1>8. ReloadedInVain'
  BY <1>2, <1>3, <1>7 DEF IInv, ReloadedInVain
<1>9. GivenSoFar' /\ FoundWhereItStands'
  BY <1>1, <1>2, <1>3, <1>5 DEF IInv, GivenSoFar, FoundWhereItStands
<1> QED BY <1>4, <1>6, <1>8, <1>9 DEF IInv

\* A file that appears changes nothing that has been loaded.
LEMMA AppearIInv ==
  ASSUME IInv, NEW f \in Files, FileAppears(f)
  PROVE  IInv'
<1>1. UNCHANGED <<text, dict, made, loading, given>> /\ sound' = sound \cup {f}
  BY DEF FileAppears, stores
<1>2. \A h \in Packages : AskedInVain(h) => AskedInVain(h)'
  BY <1>1 DEF AskedInVain, Holds
<1>3. ReloadedInVain'
  BY <1>1, <1>2 DEF IInv, ReloadedInVain
<1> QED
  BY <1>1, <1>3 DEF IInv, Typed, DictExact, GivenSoFar, FoundWhereItStands, Holds

\* What DictAfter returns is the number of a load.
LEMMA AnswerIsNumber ==
  ASSUME IInv, NEW n \in Names
  PROVE  DictAfter(n)[n] \in Nat
<1>1. n[1] \in Packages \cup Textures
  BY DEF Names
<1>2. dict[n] \in Nat /\ made[n[1]] \in Nat
  BY <1>1 DEF IInv, Typed
<1>3. CASE Misses(n)
  BY <1>2, <1>3 DEF DictAfter
<1>4. CASE ~Misses(n)
  BY <1>2, <1>4 DEF DictAfter
<1> QED BY <1>3, <1>4

LEMMA LoadSubMeshIInv ==
  ASSUME IInv, NEW m \in Meshes, LoadSubMesh(m), loading = NotLoading
  PROVE  IInv'
<1>1. text[m].desc \in Names
  BY ContentsAssumption DEF IInv, Typed
<1>2. UNCHANGED <<text, sound>>
  BY DEF LoadSubMesh
<1>3. CASE m \notin sound
  <2>1. UNCHANGED <<text, sound, dict, made, given, loading>>
    BY <1>3 DEF LoadSubMesh
  <2> QED BY <2>1, UntouchedIInv DEF IInv, Typed
<1>4. CASE m \in sound
  <2> DEFINE n == text[m].desc
  <2>1. Ask(n)
    BY <1>4 DEF LoadSubMesh
  <2>2. loading' = NotLoading \/ loading' = [mesh |-> m, groups |-> <<>>, desc |-> DictAfter(n)[n]]
    BY <1>4 DEF LoadSubMesh
  <2>3. loading' \in {NotLoading} \cup Loadings
    <3>1. DictAfter(n)[n] \in Nat
      BY <1>1, AnswerIsNumber
    <3>2. <<>> \in Seq(Nat)
      OBVIOUS
    <3>3. [mesh |-> m, groups |-> <<>>, desc |-> DictAfter(n)[n]] \in Loadings
      BY <3>1, <3>2 DEF Loadings
    <3> QED BY <2>2, <3>3
  <2> QED BY <1>1, <1>2, <2>1, <2>3, AskIInv
<1> QED BY <1>3, <1>4

LEMMA LoadGroupIInv ==
  ASSUME IInv, LoadGroup
  PROVE  IInv'
<1> DEFINE n == GroupsOf(loading.mesh)[Len(loading.groups) + 1]
<1>1. loading \in Loadings
  BY DEF IInv, Typed, LoadGroup
<1>2. GroupsOf(loading.mesh) \in Seq(Names)
  BY <1>1, ContentsAssumption DEF IInv, Typed, GroupsOf, Loadings
<1>3. Len(loading.groups) < Len(GroupsOf(loading.mesh))
  BY DEF LoadGroup
<1>4. n \in Names
  <2>1. Len(loading.groups) + 1 \in 1 .. Len(GroupsOf(loading.mesh))
    BY <1>1, <1>2, <1>3 DEF Loadings
  <2> QED BY <1>2, <2>1
<1>5. Ask(n) /\ UNCHANGED <<text, sound>>
      /\ loading' = [loading EXCEPT !.groups = Append(@, DictAfter(n)[n])]
  BY DEF LoadGroup
<1>6. loading' \in Loadings
  <2>1. DictAfter(n)[n] \in Nat
    BY <1>4, AnswerIsNumber
  <2>2. Append(loading.groups, DictAfter(n)[n]) \in Seq(Nat)
    BY <1>1, <2>1 DEF Loadings
  <2>3. loading' = [loading EXCEPT !.groups = Append(loading.groups, DictAfter(n)[n])]
    BY <1>5
  <2> HIDE DEF n
  <2> QED BY <1>1, <2>2, <2>3 DEF Loadings
<1> QED BY <1>4, <1>5, <1>6, AskIInv

\* The dictionaries, their history and the mesh being loaded are left alone.
Untouched == UNCHANGED <<text, sound, dict, made, given, loading>>

LEMMA UntouchedStep == IInv /\ Untouched => IInv'
BY UntouchedIInv DEF IInv, Typed, Untouched

\* What GetScene does of its own.
LEMMA SceneStepIInv == IInv /\ SceneStep => IInv'
<1> SUFFICES ASSUME IInv, SceneStep PROVE IInv'
  OBVIOUS
<1>1. CASE AttachNothing
  BY <1>1, UntouchedStep DEF AttachNothing, resVars, stores, Untouched
<1>2. CASE AttachLight
  <2>1. PICK n \in Names : Ask(n)
    BY <1>2 DEF AttachLight
  <2>2. UNCHANGED <<text, sound, loading>>
    BY <1>2 DEF AttachLight
  <2>3. loading' \in {NotLoading} \cup Loadings
    BY <2>2 DEF IInv, Typed
  <2> QED BY <2>1, <2>2, <2>3, AskIInv
<1>3. CASE LoadMesh
  <2>1. PICK m \in Meshes : LoadSubMesh(m)
    BY <1>3 DEF LoadMesh
  <2>2. loading = NotLoading
    BY <1>3 DEF LoadMesh, Working
  <2> QED BY <2>1, <2>2, LoadSubMeshIInv
<1>4. CASE AttachMesh
  BY <1>4, UntouchedStep DEF AttachMesh, stores, Untouched
<1>5. CASE ChildNotFound
  BY <1>5, UntouchedStep DEF ChildNotFound, resVars, stores, Untouched
<1>6. CASE ChildOfNull
  BY <1>6, UntouchedStep DEF ChildOfNull, stores, Untouched
<1>7. CASE \E x \in Nodes : CreateNode(x)
  BY <1>7, UntouchedStep DEF CreateNode, stores, Untouched
<1>8. CASE Return
  BY <1>8, UntouchedStep DEF Return, resVars, stores, Untouched
<1> QED
  BY <1>1, <1>2, <1>3, <1>4, <1>5, <1>6, <1>7, <1>8 DEF SceneStep

LEMMA LoadNextIInv == IInv /\ LoadNext => IInv'
<1> SUFFICES ASSUME IInv, LoadNext PROVE IInv'
  OBVIOUS
<1>1. CASE LoadGroup
  BY <1>1, LoadGroupIInv
<1>2. CASE FinishSubMesh
  <2>1. UNCHANGED <<text, sound, dict, made, given>> /\ loading' = NotLoading
    BY <1>2 DEF FinishSubMesh
  <2> QED BY <2>1, UntouchedIInv DEF IInv, Typed
<1> QED BY <1>1, <1>2 DEF LoadNext

LEMMA ClientNextIInv == IInv /\ ClientNext => IInv'
<1> SUFFICES ASSUME IInv, ClientNext PROVE IInv'
  OBVIOUS
<1>1. ASSUME NEW n \in Names, GetItem(n) PROVE IInv'
  <2>1. Ask(n) /\ UNCHANGED <<text, sound, loading>>
    BY <1>1 DEF GetItem
  <2> QED BY <2>1, AskIInv DEF IInv, Typed
<1>2. ASSUME NEW f \in Textures, GetTexture(f) PROVE IInv'
  BY <1>2, TextureIInv
<1>3. ASSUME NEW m \in Meshes, GetSubMesh(m) PROVE IInv'
  <2>1. LoadSubMesh(m) /\ loading = NotLoading
    BY <1>3 DEF GetSubMesh, ClientNext
  <2> QED BY <2>1, LoadSubMeshIInv
<1>4. ASSUME NEW t \in Techniques, GetTechnique(t) PROVE IInv'
  <2>1. text[t].desc \in Names
    BY ContentsAssumption DEF IInv, Typed
  <2>2. Ask(text[t].desc) /\ UNCHANGED <<text, sound, loading>>
    BY <1>4 DEF GetTechnique
  <2> QED BY <2>1, <2>2, AskIInv DEF IInv, Typed
<1>5. ASSUME NEW p \in Programs, GetGpuProgram(p) PROVE IInv'
  BY <1>5, UntouchedStep DEF GetGpuProgram, Untouched
<1>6. ASSUME NEW f \in Files, FileAppears(f) PROVE IInv'
  BY <1>6, AppearIInv
<1> QED
  BY <1>1, <1>2, <1>3, <1>4, <1>5, <1>6 DEF ClientNext

LEMMA NextIInv == IInv /\ [Next]_vars => IInv'
<1> SUFFICES ASSUME IInv, [Next]_vars PROVE IInv'
  OBVIOUS
<1>1. CASE Step
  BY <1>1, SceneStepIInv, LoadNextIInv DEF Step
<1>2. ASSUME NEW n \in SceneNames, GetScene(n) PROVE IInv'
  BY <1>2, UntouchedStep DEF GetScene, stores, Untouched
<1>3. CASE ClientNext
  BY <1>3, ClientNextIInv
<1>4. CASE UNCHANGED vars
  BY <1>4, UntouchedStep DEF vars, resVars, stores, Untouched
<1> QED BY <1>1, <1>2, <1>3, <1>4 DEF Next

LEMMA InvariantHolds == Spec => []IInv
BY InitIInv, NextIInv, PTL DEF Spec

----------------------------------------------------------------------------
\* The dictionary never mixes the objects of two loads of one file.
THEOREM LoadsDoNotMix == Spec => []OneLoadPerFile
<1>1. IInv => OneLoadPerFile
  BY DEF IInv, DictExact, OneLoadPerFile
<1> QED BY InvariantHolds, <1>1, PTL

\* Two objects of one name are in use only if the file was asked for something it
\* does not hold: for every number of clients' calls, scenes and meshes.
THEOREM SharedByName == Spec => []SharedUnlessAskedInVain
<1>1. IInv => SharedUnlessAskedInVain
  <2> SUFFICES ASSUME IInv, NEW g \in given, NEW h \in given,
                      g.name = h.name, g.name \in Names,
                      0 \notin {g.object, h.object}, g.object # h.object
               PROVE  AskedInVain(g.name[1])
    BY DEF SharedUnlessAskedInVain
  <2> DEFINE f == g.name[1]
  <2>1. f \in Packages
    BY DEF Names
  <2>2. made[f] \in Nat
    BY <2>1 DEF IInv, Typed
  <2>3. g.object \in 0 .. made[f] /\ h.object \in 0 .. made[f]
    BY DEF IInv, GivenSoFar
  <2>4. made[f] > 1
    BY <2>2, <2>3
  <2> QED BY <2>1, <2>4 DEF IInv, ReloadedInVain
<1> QED BY InvariantHolds, <1>1, PTL

\* An item is found when and only when its file can be read and holds it.
THEOREM FoundIffHeld == Spec => []FoundWhereItStands
<1>1. IInv => FoundWhereItStands
  BY DEF IInv
<1> QED BY InvariantHolds, <1>1, PTL

----------------------------------------------------------------------------
\* GetSceneNodeInfo: what the dictionary holds, and what the file says.

\* What the scene files say.
LEMMA TextIs ==
  ASSUME scene_text \in SceneTexts, NEW s \in SceneFiles
  PROVE  /\ scene_text[s] \in Seq(Entries)
         /\ DOMAIN scene_text[s] \subseteq Nat \ {0}
         /\ \A i \in DOMAIN scene_text[s] :
              /\ scene_text[s][i] \in Entries
              /\ <<s, scene_text[s][i].label>> \in SceneNames
         /\ \A i \in DOMAIN scene_text[s] : 1 .. i \subseteq DOMAIN scene_text[s]
<1>1. scene_text[s] \in Seq(Entries)
  BY SceneTextsAssumption
<1>2. /\ Len(scene_text[s]) \in Nat /\ DOMAIN scene_text[s] = 1 .. Len(scene_text[s])
      /\ \A i \in DOMAIN scene_text[s] : scene_text[s][i] \in Entries
  BY <1>1
<1>3. \A e \in Entries : e.label \in Items
  BY DEF Entries
<1>4. \A i \in DOMAIN scene_text[s] : <<s, scene_text[s][i].label>> \in SceneNames
  BY <1>2, <1>3 DEF SceneNames
<1>5. QED BY <1>1, <1>2, <1>4

\* What the parser reaches, it reaches from the front.
LEMMA ParsedIs ==
  ASSUME scene_text \in SceneTexts, NEW s \in SceneFiles
  PROVE  /\ Parsed(s) \subseteq DOMAIN scene_text[s] /\ Parsed(s) \subseteq Nat \ {0}
         /\ \A i \in Parsed(s) : \A j \in 1 .. i : j \in Parsed(s)
<1>1. DOMAIN scene_text[s] \subseteq Nat \ {0}
      /\ \A i \in DOMAIN scene_text[s] : 1 .. i \subseteq DOMAIN scene_text[s]
  BY TextIs
<1>2. ASSUME NEW i \in Parsed(s), NEW j \in 1 .. i PROVE j \in Parsed(s)
  <2>1. i \in Nat /\ j \in DOMAIN scene_text[s] /\ 1 .. j \subseteq 1 .. i
    BY <1>1 DEF Parsed
  <2>2. QED BY <2>1 DEF Parsed
<1>3. QED BY <1>1, <1>2 DEF Parsed

\* EntryOf is the first entry of the name, if there is one.
LEMMA EntryOfIs ==
  ASSUME scene_text \in SceneTexts, NEW n \in SceneNames
  PROVE  /\ EntryOf(n) \in {0} \cup Parsed(n[1])
         /\ EntryOf(n) \in Nat
         /\ EntryOf(n) # 0 => EntryAt(n, EntryOf(n)).label = n[2]
         /\ \A i \in Parsed(n[1]) :
              EntryAt(n, i).label = n[2] => EntryOf(n) # 0 /\ EntryOf(n) <= i
<1> DEFINE at == {i \in Parsed(n[1]) : EntryAt(n, i).label = n[2]}
<1>1. n[1] \in SceneFiles
  BY DEF SceneNames
<1>2. Parsed(n[1]) \subseteq Nat \ {0}
  BY <1>1, ParsedIs
<1>3. EntryOf(n) = IF at = {} THEN 0 ELSE CHOOSE i \in at : \A j \in at : i <= j
  BY DEF EntryOf
<1>4. CASE at = {}
  BY <1>3, <1>4
<1>5. CASE at # {}
  <2>1. at \in SUBSET Nat
    BY <1>2
  <2> HIDE DEF at
  <2>2. \E i \in at : \A j \in at : i <= j
    BY <1>5, <2>1, NullIsNoNode, Tree!Least, Zenon
  <2>3. EntryOf(n) \in at /\ \A j \in at : EntryOf(n) <= j
    BY <1>3, <1>5, <2>2
  <2>4. QED BY <1>2, <2>3 DEF at
<1>6. QED BY <1>4, <1>5

\* An entry that is added is the one of its name, and the name was unknown.
LEMMA AddedIs ==
  ASSUME scene_text \in SceneTexts, NEW s \in SceneFiles, NEW i \in Added(s)
  PROVE  /\ i \in Parsed(s)
         /\ i = EntryOf(<<s, scene_text[s][i].label>>)
         /\ info[<<s, scene_text[s][i].label>>] = 0
<1> DEFINE m == <<s, scene_text[s][i].label>>
<1>1. i \in Parsed(s) /\ i \in Nat \ {0} /\ \A j \in 1 .. i : ~Taken(s, j)
  BY ParsedIs DEF Added
<1>2. i \in 1 .. i
  BY <1>1
<1>3. ~Taken(s, i)
  BY <1>1, <1>2
<1>4. info[m] = 0 /\ \A j \in 1 .. i - 1 : scene_text[s][j].label # scene_text[s][i].label
  BY <1>3 DEF Taken
<1>5. m \in SceneNames /\ m[1] = s /\ m[2] = scene_text[s][i].label
  BY <1>1, TextIs, ParsedIs
<1>6. EntryAt(m, i).label = m[2]
  BY <1>5 DEF EntryAt
<1> HIDE DEF m
<1>7. EntryOf(m) # 0 /\ EntryOf(m) <= i /\ EntryOf(m) \in Parsed(s)
  BY <1>1, <1>5, <1>6, EntryOfIs
<1>8. scene_text[s][EntryOf(m)].label = scene_text[s][i].label
  BY <1>5, <1>7, EntryOfIs DEF EntryAt
<1>9. EntryOf(m) \in Nat \ {0}
  BY <1>7, ParsedIs
<1>10. EntryOf(m) = i
  <2>1. SUFFICES ASSUME EntryOf(m) # i PROVE FALSE
    OBVIOUS
  <2>2. EntryOf(m) \in 1 .. i - 1
    BY <1>1, <1>7, <1>9, <2>1
  <2>3. QED BY <1>4, <1>8, <2>2
<1>11. QED BY <1>1, <1>4, <1>10 DEF m

\* What a call of GetSceneNodeInfo leaves in the dictionary.
LEMMA InfoAfterIs ==
  ASSUME scene_text \in SceneTexts, NEW n \in SceneNames, NEW m \in SceneNames,
         info \in [SceneNames -> Nat]
  PROVE  /\ InfoAfter(n)[m] \in {info[m], EntryOf(m)}
         /\ info[n] # 0 => InfoAfter(n) = info
         /\ InfoAfter(n)[m] # info[m] => m[1] = n[1]
         /\ info[n] = 0 /\ m[1] = n[1] /\ EntryOf(m) \in Added(n[1]) => InfoAfter(n)[m] = EntryOf(m)
<1>1. CASE info[n] # 0
  BY <1>1 DEF InfoAfter
<1>2. CASE info[n] = 0
  <2> DEFINE at == {i \in Added(n[1]) : m = <<n[1], scene_text[n[1]][i].label>>}
  <2>1. InfoAfter(n)[m] = IF at = {} THEN info[m] ELSE CHOOSE i \in at : TRUE
    BY <1>2 DEF InfoAfter
  <2>2. n[1] \in SceneFiles /\ m = <<m[1], m[2]>> /\ m[1] \in SceneFiles
    BY DEF SceneNames
  <2>3. \A i \in at : i = EntryOf(m) /\ m[1] = n[1]
    BY <2>2, AddedIs
  <2>4. m[1] = n[1] /\ EntryOf(m) \in Added(n[1]) => EntryOf(m) \in at
    <3>1. SUFFICES ASSUME m[1] = n[1], EntryOf(m) \in Added(n[1]) PROVE EntryOf(m) \in at
      OBVIOUS
    <3>2. EntryOf(m) # 0
      BY <2>2, <3>1, AddedIs, ParsedIs
    <3>3. scene_text[n[1]][EntryOf(m)].label = m[2]
      BY <3>1, <3>2, EntryOfIs DEF EntryAt
    <3>4. QED BY <2>2, <3>1, <3>3
  <2> HIDE DEF at
  <2>5. at # {} => (CHOOSE i \in at : TRUE) \in at
    OBVIOUS
  <2>6. QED BY <1>2, <2>1, <2>3, <2>4, <2>5
<1>3. QED BY <1>1, <1>2

\* A file that gives no name twice has been read as a whole or not at all.
AllOrNone(s) ==
  \/ \A n \in SceneNames : n[1] = s => info[n] = 0
  \/ \A n \in SceneNames : n[1] = s => info[n] = EntryOf(n)

InfoInv ==
  /\ scene_text \in SceneTexts
  /\ info \in [SceneNames -> Nat]
  /\ asked \subseteq SceneNames \X Nat
  /\ \A n \in SceneNames : info[n] \in {0, EntryOf(n)}
  /\ \A s \in SceneFiles : NamesOnce(s) => AllOrNone(s)
  /\ InfoAnswerRight

\* What GetSceneNodeInfo answers.
LEMMA AnswerIs ==
  ASSUME InfoInv, NEW n \in SceneNames
  PROVE  /\ Answer(n) \in {0, EntryOf(n)} /\ Answer(n) \in Nat
         /\ Answer(n) # 0 => Answer(n) \in Parsed(n[1])
         /\ NamesOnce(n[1]) =>
              /\ Answer(n) = EntryOf(n)
              /\ \A m \in SceneNames : m[1] = n[1] => InfoAfter(n)[m] = EntryOf(m)
<1>1. /\ scene_text \in SceneTexts /\ info \in [SceneNames -> Nat] /\ n[1] \in SceneFiles
      /\ \A m \in SceneNames : info[m] \in {0, EntryOf(m)}
  BY DEF InfoInv, SceneNames
<1>2. Answer(n) \in {0, EntryOf(n)}
  <2>1. InfoAfter(n)[n] \in {info[n], EntryOf(n)}
    BY <1>1, InfoAfterIs
  <2>2. QED BY <1>1, <2>1 DEF Answer
<1>3. EntryOf(n) \in Nat /\ EntryOf(n) \in {0} \cup Parsed(n[1])
  BY <1>1, EntryOfIs
<1>4. ASSUME NamesOnce(n[1])
      PROVE  /\ Answer(n) = EntryOf(n)
             /\ \A m \in SceneNames : m[1] = n[1] => InfoAfter(n)[m] = EntryOf(m)
  <2>1. CASE \A m \in SceneNames : m[1] = n[1] => info[m] = 0
    <3>1. Added(n[1]) = Parsed(n[1])
      <4>1. ASSUME NEW i \in Parsed(n[1]), NEW j \in 1 .. i PROVE ~Taken(n[1], j)
        <5>1. j \in Parsed(n[1]) /\ j \in Nat \ {0}
          BY <1>1, ParsedIs
        <5>2. info[<<n[1], scene_text[n[1]][j].label>>] = 0
          <6>1. <<n[1], scene_text[n[1]][j].label>> \in SceneNames
            BY <1>1, <5>1, ParsedIs, TextIs
          <6>2. QED BY <2>1, <6>1
        <5>3. ASSUME NEW k \in 1 .. j - 1
              PROVE  scene_text[n[1]][k].label # scene_text[n[1]][j].label
          <6>1. k \in 1 .. j /\ k # j
            BY <5>1
          <6>2. k \in Parsed(n[1])
            BY <1>1, <5>1, <6>1, ParsedIs
          <6>3. QED BY <1>4, <5>1, <6>1, <6>2 DEF NamesOnce
        <5>4. QED BY <5>2, <5>3 DEF Taken
      <4>2. QED BY <4>1 DEF Added
    <3>2. ASSUME NEW m \in SceneNames, m[1] = n[1] PROVE InfoAfter(n)[m] = EntryOf(m)
      <4>1. InfoAfter(n)[m] \in {info[m], EntryOf(m)}
        BY <1>1, InfoAfterIs
      <4>2. EntryOf(m) # 0 => InfoAfter(n)[m] = EntryOf(m)
        <5>1. EntryOf(m) \in {0} \cup Parsed(n[1])
          BY <1>1, <3>2, EntryOfIs
        <5>2. EntryOf(m) # 0 => EntryOf(m) \in Added(n[1])
          BY <3>1, <5>1
        <5>3. info[n] = 0
          BY <2>1
        <5>4. QED BY <1>1, <3>2, <5>2, <5>3, InfoAfterIs
      <4>3. info[m] = 0
        BY <2>1, <3>2
      <4>4. QED BY <4>1, <4>2, <4>3
    <3>3. Answer(n) = EntryOf(n)
      BY <3>1, <3>2 DEF Answer
    <3>4. QED BY <3>2, <3>3
  <2>2. CASE \A m \in SceneNames : m[1] = n[1] => info[m] = EntryOf(m)
    <3>1. \A m \in SceneNames : m[1] = n[1] => InfoAfter(n)[m] = EntryOf(m)
      BY <1>1, <2>2, InfoAfterIs
    <3>2. Answer(n) = EntryOf(n)
      BY <2>2, <3>1 DEF Answer
    <3>3. QED BY <3>1, <3>2
  <2>3. AllOrNone(n[1])
    BY <1>1, <1>4 DEF InfoInv
  <2>4. QED BY <2>1, <2>2, <2>3 DEF AllOrNone
<1>5. QED BY <1>2, <1>3, <1>4

\* A call of GetSceneNodeInfo keeps it.
LEMMA AskInfoInv ==
  ASSUME InfoInv, NEW n \in SceneNames, AskInfo(n), scene_text' = scene_text
  PROVE  InfoInv'
<1>1. info' = InfoAfter(n) /\ asked' = asked \cup {<<n, Answer(n)>>}
  BY DEF AskInfo
<1>2. /\ \A m \in SceneNames : EntryOf(m)' = EntryOf(m) /\ EntryOf(m) \in Nat
      /\ \A s \in SceneFiles : NamesOnce(s)' <=> NamesOnce(s)
  <2>1. \A m \in SceneNames : EntryOf(m)' = EntryOf(m)
    BY DEF EntryOf, EntryAt, Parsed
  <2>2. \A s \in SceneFiles : NamesOnce(s)' <=> NamesOnce(s)
    BY DEF NamesOnce, Parsed
  <2>3. \A m \in SceneNames : EntryOf(m) \in Nat
    BY EntryOfIs DEF InfoInv
  <2>4. QED BY <2>1, <2>2, <2>3
<1>3. /\ scene_text \in SceneTexts /\ info \in [SceneNames -> Nat] /\ n[1] \in SceneFiles
      /\ asked \subseteq SceneNames \X Nat
      /\ \A m \in SceneNames : info[m] \in {0, EntryOf(m)}
  BY DEF InfoInv, SceneNames
<1>4. \A m \in SceneNames : InfoAfter(n)[m] \in {info[m], EntryOf(m)}
  BY <1>3, InfoAfterIs
<1>5. info' \in [SceneNames -> Nat]
  <2>1. \A m \in SceneNames : InfoAfter(n)[m] \in Nat
    BY <1>2, <1>3, <1>4
  <2>2. CASE info[n] # 0
    BY <1>1, <1>3, <2>2, InfoAfterIs
  <2>3. CASE info[n] = 0
    <3> DEFINE val(m) == LET at == {i \in Added(n[1]) : m = <<n[1], scene_text[n[1]][i].label>>}
                         IN  IF at = {} THEN info[m] ELSE CHOOSE i \in at : TRUE
    <3>1. info' = [m \in SceneNames |-> val(m)]
      BY <1>1, <2>3, Zenon DEF InfoAfter
    <3> HIDE DEF val
    <3>2. \A m \in SceneNames : val(m) \in Nat
      BY <1>1, <2>1, <3>1
    <3>3. QED BY <3>1, <3>2
  <2>4. QED BY <2>2, <2>3
<1>6. asked' \subseteq SceneNames \X Nat
  BY <1>1, <1>3, AnswerIs
<1>7. \A m \in SceneNames : info'[m] \in {0, EntryOf(m)'}
  BY <1>1, <1>2, <1>3, <1>4
<1>8. ASSUME NEW s \in SceneFiles, NamesOnce(s) PROVE AllOrNone(s)'
  <2>1. CASE s = n[1]
    <3>1. \A m \in SceneNames : m[1] = s => info'[m] = EntryOf(m)'
      BY <1>1, <1>2, <1>8, <2>1, AnswerIs
    <3>2. QED BY <3>1 DEF AllOrNone
  <2>2. CASE s # n[1]
    <3>1. \A m \in SceneNames : m[1] = s => info'[m] = info[m]
      BY <1>1, <1>3, <2>2, InfoAfterIs
    <3>2. AllOrNone(s)
      BY <1>8 DEF InfoInv
    <3>3. QED BY <1>2, <3>1, <3>2 DEF AllOrNone
  <2>3. QED BY <2>1, <2>2
<1>9. InfoAnswerRight'
  <2>1. SUFFICES ASSUME NEW q \in asked', NamesOnce(q[1][1])' PROVE q[2] = EntryOf(q[1])'
    BY DEF InfoAnswerRight
  <2>2. q \in SceneNames \X Nat /\ q[1] \in SceneNames /\ q[1][1] \in SceneFiles
    BY <1>6 DEF SceneNames
  <2>3. CASE q \in asked
    BY <1>2, <2>1, <2>2, <2>3 DEF InfoInv, InfoAnswerRight
  <2>4. CASE q = <<n, Answer(n)>>
    BY <1>2, <2>1, <2>2, <2>4, AnswerIs
  <2>5. QED BY <1>1, <2>3, <2>4
<1>10. QED BY <1>2, <1>3, <1>5, <1>6, <1>7, <1>8, <1>9 DEF InfoInv

\* So does everything else.
LEMMA NotAskedInfoInv ==
  ASSUME InfoInv, UNCHANGED <<scene_text, info, asked>>
  PROVE  InfoInv'
<1>1. /\ \A m : EntryOf(m)' = EntryOf(m)
      /\ \A s : NamesOnce(s)' <=> NamesOnce(s)
  BY DEF EntryOf, EntryAt, NamesOnce, Parsed
<1>2. InfoAnswerRight'
  BY <1>1 DEF InfoInv, InfoAnswerRight
<1>3. \A s \in SceneFiles : AllOrNone(s) => AllOrNone(s)'
  BY <1>1 DEF AllOrNone
<1>4. QED BY <1>1, <1>2, <1>3 DEF InfoInv

----------------------------------------------------------------------------
\* The activations of RecursiveCreateNode: those below the top one are inside
\* a child.
Acts == [node : Pointer, entry : Entries, at : Nat]

StackOK(b) ==
  /\ b \in Seq(Acts)
  /\ \A i \in 1 .. Len(b) : b[i].at <= Len(b[i].entry.kids) + 1
  /\ \A i \in 1 .. Len(b) - 1 : b[i].at \in 1 .. Len(b[i].entry.kids)

\* The root is a node, and what is no entry is none.
LEMMA NodesAre ==
  /\ Root \in Nodes /\ Nodes \subseteq Nat /\ IsFiniteSet(Nodes)
  /\ NoEntry \notin Entries
  /\ \A e \in Entries : Len(e.kids) \in Nat /\ \A i \in 1 .. Len(e.kids) : e.kids[i] \in SceneNames
<1>1. Cardinality(Nodes) \in Nat
  BY NodesAreNumbered, FS_CardinalityType
<1>2. Root \in Nodes /\ Nodes \subseteq Nat /\ IsFiniteSet(Nodes)
  BY <1>1, NodesAreNumbered DEF Root
<1>3. NoEntry \notin Entries
  BY DEF NoEntry, Entries, Types
<1>4. \A e \in Entries : Len(e.kids) \in Nat /\ \A i \in 1 .. Len(e.kids) : e.kids[i] \in SceneNames
  BY DEF Entries
<1>5. QED BY <1>2, <1>3, <1>4

----------------------------------------------------------------------------
\* The tree: the facts about the links of TreeNode.

\* The facts about TreeNode, read in this module.
LEMMA SameChain == ASSUME NEW h PROVE Tree!Chain(h) = Chain(h)
BY Zenon DEF Tree!Chain, Chain, Tree!ListFrom, ListFrom, Tree!Pointer, Pointer,
             Tree!Cardinality, Cardinality

LEMMA SameList == ASSUME NEW link, NEW h PROVE Tree!ListFrom(link, h) = ListFrom(link, h)
BY Zenon DEF Tree!ListFrom, ListFrom, Tree!Pointer, Pointer, Tree!Cardinality, Cardinality

LEMMA SameReaches ==
  ASSUME NEW link, NEW a, NEW b PROVE Tree!Reaches(link, a, b) <=> Reaches(link, a, b)
BY DEF Tree!Reaches, Reaches, Tree!Closed, Closed

LEMMA SameAdd == ASSUME NEW p, NEW n PROVE Tree!AddChild(p, n) <=> AddChild(p, n)
BY DEF Tree!AddChild, AddChild

LEMMA SameTraverse == ASSUME NEW r PROVE Tree!Traverse(r) = Traverse(r)
BY Zenon DEF Tree!Traverse, Traverse, Tree!Chain, Chain, Tree!ListFrom, ListFrom,
             Tree!Pointer, Pointer,
             Tree!Cardinality, Cardinality, Tree!FlattenSeq, FlattenSeq

LEMMA SameSet == ASSUME NEW q PROVE Tree!ToSet(q) = ToSet(q)
BY DEF Tree!ToSet, ToSet

TreeState == Tree!TreeInv /\ stale = {} /\ named = Nodes

Children(p) == Chain(first_child[p])

LEMMA TreeInitState == TreeInit => TreeState
<1>1. Tree!TreeInit <=> TreeInit
  BY DEF Tree!TreeInit, TreeInit
<1>2. TreeInit => Tree!TreeInv
  BY <1>1, NullIsNoNode, Tree!InitInv, Zenon
<1>3. QED BY <1>2 DEF TreeState, TreeInit

\* What one state says of the links and of the lists of children.
LEMMA TreeFacts ==
  ASSUME TreeState
  PROVE  /\ parent \in [Nodes -> Pointer] /\ first_child \in [Nodes -> Pointer]
         /\ last_child \in [Nodes -> Pointer] /\ next_sibling \in [Nodes -> Pointer]
         /\ prev_sibling \in [Nodes -> Pointer]
         /\ \A p \in Nodes : /\ first_child[p] = Null <=> last_child[p] = Null
                             /\ last_child[p] # Null => parent[last_child[p]] = p
         /\ Tree!NoCycle(parent)
<1>1. Tree!LinksTyped /\ Tree!EndsMeet /\ Tree!NoRings /\ stale = {}
  BY DEF TreeState, Tree!TreeInv
<1>2. /\ parent \in [Nodes -> Pointer] /\ first_child \in [Nodes -> Pointer]
      /\ last_child \in [Nodes -> Pointer] /\ next_sibling \in [Nodes -> Pointer]
      /\ prev_sibling \in [Nodes -> Pointer]
  BY <1>1 DEF Tree!LinksTyped, Tree!Pointer, Pointer
<1>3. \A p \in Nodes : /\ first_child[p] = Null <=> last_child[p] = Null
                       /\ last_child[p] # Null => parent[last_child[p]] = p
  BY <1>1 DEF Tree!EndsMeet, Tree!LinksTyped
<1>4. Tree!NoCycle(parent)
  BY <1>1 DEF Tree!NoRings
<1>5. QED BY <1>2, <1>3, <1>4

\* The list of children holds the nodes whose parent is p.
LEMMA ChildrenAre ==
  ASSUME TreeState, NEW p \in Nodes
  PROVE  /\ Children(p) \in Seq(Nodes)
         /\ Len(Children(p)) \in Nat
         /\ DOMAIN Children(p) = 1 .. Len(Children(p))
         /\ \A x \in Nodes : parent[x] = p <=> \E i \in 1 .. Len(Children(p)) : Children(p)[i] = x
         /\ first_child[p] = Null => Len(Children(p)) = 0
<1>1. Tree!TreeInv /\ stale = {} /\ IsFiniteSet(Nodes)
  BY NodesAre DEF TreeState
<1>2. Tree!IsFiniteSet(Nodes)
  BY <1>1 DEF IsFiniteSet, Tree!IsFiniteSet
<1>3. /\ Tree!Kids[p] \in Seq(Nodes)
      /\ Tree!ToSet(Tree!Kids[p]) = {x \in Nodes \ stale : parent[x] = p /\ p \notin stale}
  BY <1>1, <1>2, NullIsNoNode, Tree!KidsAre, Zenon
<1>4. Tree!Kids[p] = Children(p)
  BY <1>1, SameChain DEF Tree!Kids, Children
<1>5. Children(p) \in Seq(Nodes) /\ ToSet(Children(p)) = {x \in Nodes : parent[x] = p}
  BY <1>1, <1>3, <1>4, SameSet
<1>6. Len(Children(p)) \in Nat /\ DOMAIN Children(p) = 1 .. Len(Children(p))
  BY <1>5
<1>7. ToSet(Children(p)) = {Children(p)[i] : i \in 1 .. Len(Children(p))}
  BY <1>6, Zenon DEF ToSet
<1>8. first_child[p] = Null => Len(Children(p)) = 0
  <2>1. SUFFICES ASSUME first_child[p] = Null, Len(Children(p)) # 0 PROVE FALSE
    OBVIOUS
  <2>2. Null \in Tree!Pointer
    BY DEF Tree!Pointer
  <2>3. Tree!IsList(next_sibling, Null, Tree!Chain(Null))
    BY <1>1, <1>2, <2>2, NullIsNoNode, Tree!ChainIs, Zenon
  <2>4. Tree!Chain(Null) = <<>>
    BY <2>3 DEF Tree!IsList
  <2>5. QED BY <2>1, <2>4, SameChain DEF Children
<1>9. QED BY <1>5, <1>6, <1>7, <1>8

\* A node that is fresh, appended to the children of p.
LEMMA ChildAdded ==
  ASSUME TreeState, NEW p \in Nodes, NEW n \in Nodes, p # n,
         parent[n] = Null, next_sibling[n] = Null, prev_sibling[n] = Null, first_child[n] = Null,
         AddChild(p, n)
  PROVE  /\ TreeState'
         /\ Children(p)' = Append(Children(p), n)
         /\ \A q \in Nodes \ {p} : Children(q)' = Children(q)
<1>1. Tree!TreeInv /\ stale = {} /\ named = Nodes /\ Tree!IsFiniteSet(Nodes)
  BY NodesAre DEF TreeState, IsFiniteSet, Tree!IsFiniteSet
<1>2. /\ next_sibling \in [Nodes -> Pointer] /\ first_child \in [Nodes -> Pointer]
      /\ last_child \in [Nodes -> Pointer] /\ parent \in [Nodes -> Pointer]
  BY TreeFacts
<1>3. \A x \in Nodes : parent[x] # n
  BY <1>1, <1>2, ChildrenAre
<1>4. ~Tree!Reaches(parent, p, n)
  <2>1. SUFFICES ASSUME Tree!Reaches(parent, p, n) PROVE FALSE
    OBVIOUS
  <2>2. Tree!Pointer = Pointer
    BY DEF Tree!Pointer, Pointer
  <2>3. \E z \in Nodes : parent[z] = n /\ Tree!Reaches(parent, p, z)
    BY <1>2, <2>1, <2>2, NullIsNoNode, Tree!ReachesBack, Zenon
  <2>4. QED BY <1>3, <2>3
<1>5. Tree!Loose(n)
  BY <1>1 DEF Tree!Loose
<1>6. Tree!AddChild(p, n)
  BY SameAdd
<1>7. Tree!TreeInv'
  BY <1>1, <1>4, <1>5, <1>6, NullIsNoNode, Tree!AddChildInv, Zenon
<1>8. TreeState' /\ stale' = {}
  BY <1>1, <1>7 DEF TreeState, AddChild
<1>9. /\ Tree!Kids' = [q \in Nodes |-> IF q \in stale' THEN <<>>
                                      ELSE Tree!ListFrom(next_sibling', first_child'[q])]
      /\ Tree!Kids = [q \in Nodes |-> IF q \in stale THEN <<>> ELSE Tree!Chain(first_child[q])]
  BY NullIsNoNode, Tree!NextForest, Zenon DEF Tree!Kids
<1>10. \A q \in Nodes : Tree!Kids[q] = Children(q) /\ Tree!Kids'[q] = Children(q)'
  <2>1. ASSUME NEW q \in Nodes PROVE Tree!Kids[q] = Children(q) /\ Tree!Kids'[q] = Children(q)'
    <3>1. Tree!Kids[q] = Children(q)
      BY <1>1, <1>9, SameChain DEF Children
    <3>2. Tree!Kids'[q] = Tree!ListFrom(next_sibling', first_child'[q])
      BY <1>8, <1>9
    <3>3. Children(q)' = ListFrom(next_sibling', first_child'[q])
      BY DEF Children, Chain
    <3>4. QED BY <3>1, <3>2, <3>3, SameList
  <2>2. QED BY <2>1
<1>11. /\ first_child' = [first_child EXCEPT ![p] = IF @ = Null THEN n ELSE @]
       /\ next_sibling' = [x \in Nodes |-> IF x = last_child[p] THEN n ELSE next_sibling[x]]
  BY DEF AddChild
<1>12. Children(p)' = Append(Children(p), n)
  <2>1. \A x \in Nodes : Tree!Reaches(next_sibling, n, x) => x = n
    <3>1. SUFFICES ASSUME NEW x \in Nodes, Tree!Reaches(next_sibling, n, x), x # n PROVE FALSE
      OBVIOUS
    <3>2. Tree!Pointer = Pointer
      BY DEF Tree!Pointer, Pointer
    <3>3. next_sibling[n] \in Nodes
      BY <1>2, <3>1, <3>2, NullIsNoNode, Tree!ReachesNext, Zenon
    <3>4. QED BY <3>3, NullIsNoNode
  <2>2. \A x \in Nodes : Tree!Reaches(next_sibling, n, x) => parent[x] # p
    BY <2>1, NullIsNoNode
  <2>3. p \in Nodes \ stale /\ p \notin stale'
    BY <1>1, <1>8
  <2>4. Tree!Kids'[p] = Tree!Kids[p] \o Tree!Chain(n)
    BY <1>1, <1>7, <1>11, <2>2, <2>3, NullIsNoNode, Tree!KidsExtended, Zenon
  <2>5. Tree!Chain(n) = <<n>>
    <3>1. Tree!IsWay(next_sibling, n, <<n>>, Null)
      BY DEF Tree!IsWay
    <3>2. Tree!NoCycle(next_sibling) /\ n \in Tree!Pointer /\ Tree!Pointer = Pointer
      BY <1>1 DEF Tree!TreeInv, Tree!NoRings, Tree!Pointer, Pointer
    <3>3. next_sibling \in [Nodes -> Tree!Pointer]
      BY <1>2, <3>2
    <3>4. Tree!ListFrom(next_sibling, n) = <<n>>
      BY <1>1, <3>1, <3>2, <3>3, NullIsNoNode, Tree!ListKnown, Zenon
    <3>5. QED BY <3>4 DEF Tree!Chain
  <2>6. Children(p) \in Seq(Nodes)
    BY ChildrenAre
  <2>7. Children(p)' = Children(p) \o <<n>>
    BY <1>10, <2>4, <2>5
  <2>8. QED BY <2>6, <2>7
<1>13. ASSUME NEW q \in Nodes \ {p} PROVE Children(q)' = Children(q)
  <2>1. first_child'[q] = first_child[q]
    BY <1>2, <1>11
  <2>2. \A x \in Nodes \ stale : parent[x] = q => next_sibling'[x] = next_sibling[x]
    BY <1>2, <1>11, TreeFacts, NullIsNoNode
  <2>3. q \in Nodes \ stale /\ q \notin stale'
    BY <1>1, <1>8
  <2>4. Tree!Kids'[q] = Tree!Kids[q]
    BY <1>1, <1>7, <2>1, <2>2, <2>3, NullIsNoNode, Tree!KidsKept, Zenon
  <2>5. QED BY <1>10, <2>4
<1>14. QED BY <1>8, <1>12, <1>13

----------------------------------------------------------------------------
\* The nodes of the scene: the links, the map, and what the text says of both.

\* The nodes that have been made since GetScene was called.
Made == {x \in Nodes : entry[x] # NoEntry}

Bare(x) ==
  parent[x] = Null /\ first_child[x] = Null /\ next_sibling[x] = Null /\ prev_sibling[x] = Null

\* The tree and the map.
ShapeInv ==
  /\ TreeState
  /\ entry \in [Nodes -> Entries \cup {NoEntry}]
  /\ nodemap \cap freed = {} /\ nodemap \cup freed = Made \ {Root}
  /\ Made # {} => Root \in Made
  /\ parent[Root] = Null
  /\ \A x \in Nodes \ Made : Bare(x)
  /\ \A x \in Made \ {Root} : parent[x] \in {Root} \cup nodemap /\ Reaches(parent, x, Root)
  /\ \A x, y \in nodemap : entry[x].label = entry[y].label => x = y

\* What CreateNode does for the i-th child of p.
Hangs(p, i, x) ==
  /\ p \in {Root} \cup nodemap /\ p \in Made /\ x \in Nodes \ Made
  /\ i \in 1 .. Len(entry[p].kids) /\ Len(Children(p)) = i - 1
  /\ EntryOf(entry[p].kids[i]) # 0
  /\ entry' = [entry EXCEPT ![x] = EntryAt(entry[p].kids[i], EntryOf(entry[p].kids[i]))]
  /\ AddChild(p, x)
  /\ LET refused == InMap(entry'[x].label)
     IN  /\ nodemap' = IF refused THEN nodemap ELSE nodemap \cup {x}
         /\ freed' = IF refused THEN freed \cup {x} ELSE freed
  /\ scene_text' = scene_text

\* What a description that is found is.
LEMMA EntryFound ==
  ASSUME scene_text \in SceneTexts, NEW n \in SceneNames, EntryOf(n) # 0
  PROVE  EntryAt(n, EntryOf(n)) \in Entries /\ EntryAt(n, EntryOf(n)).label = n[2]
<1>1. n[1] \in SceneFiles
  BY DEF SceneNames
<1>2. EntryOf(n) \in Parsed(n[1]) /\ EntryAt(n, EntryOf(n)).label = n[2]
  BY EntryOfIs
<1>3. EntryOf(n) \in DOMAIN scene_text[n[1]]
  BY <1>1, <1>2, ParsedIs
<1>4. EntryAt(n, EntryOf(n)) \in Entries
  BY <1>1, <1>3, TextIs DEF EntryAt
<1>5. QED BY <1>2, <1>4

\* The parts of Hangs that all the proofs use.
LEMMA HangsIs ==
  ASSUME ShapeInv, scene_text \in SceneTexts, NEW p, NEW i, NEW x, Hangs(p, i, x)
  PROVE  /\ p \in Nodes /\ x \in Nodes /\ p # x /\ x # Root /\ x \notin nodemap /\ x \notin freed
         /\ i \in Nat \ {0} /\ entry[p] \in Entries /\ entry[p].kids[i] \in SceneNames
         /\ entry' \in [Nodes -> Entries \cup {NoEntry}]
         /\ entry'[x] = EntryAt(entry[p].kids[i], EntryOf(entry[p].kids[i]))
         /\ entry'[x] \in Entries /\ entry'[x].label = entry[p].kids[i][2]
         /\ \A y \in Nodes \ {x} : entry'[y] = entry[y]
         /\ Made' = Made \cup {x}
         /\ Bare(x)
<1>1. /\ entry \in [Nodes -> Entries \cup {NoEntry}] /\ nodemap \cup freed = Made \ {Root}
      /\ Made # {} => Root \in Made
      /\ \A y \in Nodes \ Made : Bare(y)
  BY DEF ShapeInv
<1>2. /\ p \in Nodes /\ x \in Nodes /\ p # x /\ x # Root
      /\ x \notin nodemap /\ x \notin freed /\ Bare(x)
  BY <1>1, NodesAre DEF Hangs, Made
<1>3. entry[p] \in Entries
  BY <1>1, <1>2 DEF Hangs, Made
<1>4. i \in Nat \ {0} /\ entry[p].kids[i] \in SceneNames
  BY <1>3, NodesAre DEF Hangs
<1>5. /\ entry' = [entry EXCEPT ![x] = EntryAt(entry[p].kids[i], EntryOf(entry[p].kids[i]))]
      /\ EntryOf(entry[p].kids[i]) # 0
  BY DEF Hangs
<1>6. /\ EntryAt(entry[p].kids[i], EntryOf(entry[p].kids[i])) \in Entries
      /\ EntryAt(entry[p].kids[i], EntryOf(entry[p].kids[i])).label = entry[p].kids[i][2]
  BY <1>4, <1>5, EntryFound
<1>7. /\ entry'[x] = EntryAt(entry[p].kids[i], EntryOf(entry[p].kids[i]))
      /\ \A y \in Nodes \ {x} : entry'[y] = entry[y]
      /\ entry' \in [Nodes -> Entries \cup {NoEntry}]
  BY <1>1, <1>2, <1>5, <1>6
<1>8. entry'[x] \in Entries /\ entry'[x].label = entry[p].kids[i][2]
  BY <1>6, <1>7
<1>9. Made' = Made \cup {x}
  BY <1>2, <1>7, <1>8, NodesAre DEF Made
<1>10. QED BY <1>2, <1>3, <1>4, <1>7, <1>8, <1>9

\* The tree and the map agree after it.
LEMMA HangsShape ==
  ASSUME ShapeInv, scene_text \in SceneTexts, NEW p, NEW i, NEW x, Hangs(p, i, x)
  PROVE  /\ ShapeInv'
         /\ Children(p)' = Append(Children(p), x)
         /\ \A q \in Nodes \ {p} : Children(q)' = Children(q)
<1>1. /\ p \in Nodes /\ x \in Nodes /\ p # x /\ x # Root /\ x \notin nodemap /\ x \notin freed
      /\ entry' \in [Nodes -> Entries \cup {NoEntry}]
      /\ entry'[x] \in Entries
      /\ \A y \in Nodes \ {x} : entry'[y] = entry[y]
      /\ Made' = Made \cup {x}
      /\ Bare(x)
  BY HangsIs
<1>2. AddChild(p, x)
  BY DEF Hangs
<1>3. TreeState
  BY DEF ShapeInv
<1>4. /\ TreeState' /\ Children(p)' = Append(Children(p), x)
      /\ \A q \in Nodes \ {p} : Children(q)' = Children(q)
  BY <1>1, <1>2, <1>3, ChildAdded DEF Bare
<1>5. /\ nodemap \cap freed = {} /\ nodemap \cup freed = Made \ {Root}
      /\ Made # {} => Root \in Made
      /\ parent[Root] = Null
      /\ \A y \in Nodes \ Made : Bare(y)
      /\ \A y \in Made \ {Root} : parent[y] \in {Root} \cup nodemap /\ Reaches(parent, y, Root)
      /\ \A y, z \in nodemap : entry[y].label = entry[z].label => y = z
  BY DEF ShapeInv
<1>6. /\ p \in {Root} \cup nodemap /\ p \in Made /\ x \in Nodes \ Made
      /\ \/ InMap(entry'[x].label) /\ nodemap' = nodemap /\ freed' = freed \cup {x}
         \/ ~InMap(entry'[x].label) /\ nodemap' = nodemap \cup {x} /\ freed' = freed
  BY DEF Hangs
<1>7. /\ parent \in [Nodes -> Pointer] /\ first_child \in [Nodes -> Pointer]
      /\ last_child \in [Nodes -> Pointer] /\ next_sibling \in [Nodes -> Pointer]
      /\ prev_sibling \in [Nodes -> Pointer]
      /\ \A q \in Nodes : last_child[q] # Null => parent[last_child[q]] = q
  BY <1>3, TreeFacts
<1>8. parent' = [parent EXCEPT ![x] = p]
  BY <1>2 DEF AddChild
<1>9. /\ nodemap' \cap freed' = {} /\ nodemap' \cup freed' = Made' \ {Root}
      /\ Root \in Made' /\ parent'[Root] = Null
  BY <1>1, <1>5, <1>6, <1>7, <1>8
<1>10. ASSUME NEW y \in Nodes \ Made' PROVE Bare(y)'
  <2>1. y \in Nodes \ Made /\ y # x /\ y # p /\ Bare(y)
    BY <1>1, <1>5, <1>6, <1>10
  <2>2. y # last_child[p]
    BY <1>1, <1>7, <2>1, NullIsNoNode DEF Bare
  <2>3. QED BY <1>2, <1>7, <1>8, <2>1, <2>2 DEF Bare, AddChild
<1>11. \A y \in Made' \ {Root} : parent'[y] \in {Root} \cup nodemap'
  BY <1>1, <1>5, <1>6, <1>7, <1>8
<1>12. ASSUME NEW y \in Nodes, Reaches(parent, y, Root) PROVE Reaches(parent', y, Root)
  <2>1. SUFFICES ASSUME NEW S \in SUBSET Nodes, y \in S, Closed(parent', S) PROVE Root \in S
    BY <1>12 DEF Reaches
  <2>2. Closed(parent, S \cup {x})
    BY <1>1, <1>7, <1>8, <2>1 DEF Bare, Closed
  <2>3. Closed(parent, S)
    BY <1>1, <1>7, <1>8, <2>1 DEF Bare, Closed
  <2>4. QED BY <1>12, <2>1, <2>3 DEF Reaches
<1>13. Reaches(parent, p, Root)
  BY <1>1, <1>5, <1>6, NullIsNoNode, NodesAre DEF Reaches
<1>14. Reaches(parent', x, Root)
  <2>1. SUFFICES ASSUME NEW S \in SUBSET Nodes, x \in S, Closed(parent', S) PROVE Root \in S
    BY <1>1, NullIsNoNode DEF Reaches
  <2>2. parent'[x] = p
    BY <1>1, <1>7, <1>8
  <2>3. p \in S
    BY <1>1, <2>1, <2>2, NullIsNoNode DEF Closed
  <2>4. Reaches(parent', p, Root)
    BY <1>1, <1>12, <1>13
  <2>5. QED BY <2>1, <2>3, <2>4 DEF Reaches
<1>15. \A y \in Made' \ {Root} : Reaches(parent', y, Root)
  BY <1>1, <1>5, <1>12, <1>14 DEF Made
<1>16. \A y, z \in nodemap' : entry'[y].label = entry'[z].label => y = z
  <2>1. nodemap \subseteq Nodes
    BY <1>5 DEF Made
  <2>2. CASE InMap(entry'[x].label)
    BY <1>1, <1>5, <1>6, <2>1, <2>2
  <2>3. CASE ~InMap(entry'[x].label)
    <3>1. \A y \in nodemap : entry'[y] = entry[y] /\ entry[y].label # entry'[x].label
      BY <1>1, <2>1, <2>3 DEF InMap
    <3>2. QED BY <1>5, <1>6, <2>3, <3>1
  <2>4. QED BY <2>2, <2>3
<1>17. ShapeInv'
  BY <1>1, <1>4, <1>9, <1>10, <1>11, <1>15, <1>16 DEF ShapeInv
<1>18. QED BY <1>4, <1>17

\* The list of children is the described one, as far as it goes.
KidsRight ==
  \A p \in {Root} \cup nodemap :
    /\ Len(Children(p)) <= Len(entry[p].kids)
    /\ \A i \in 1 .. Len(Children(p)) :
         /\ EntryOf(entry[p].kids[i]) # 0
         /\ entry[Children(p)[i]] = EntryAt(entry[p].kids[i], EntryOf(entry[p].kids[i]))

\* n is a name that the node x of the map was found by.
FoundBy(x, n) == n \in Mentioned /\ EntryOf(n) # 0 /\ entry[x] = EntryAt(n, EntryOf(n))

NamedBy == \A x \in nodemap : \E n \in SceneNames : FoundBy(x, n)

\* What the text alone says.
LEMMA TextKept ==
  ASSUME scene_text' = scene_text
  PROVE  /\ \A n : EntryOf(n)' = EntryOf(n)
         /\ \A n, i : EntryAt(n, i)' = EntryAt(n, i)
         /\ \A n : KidsOf(n)' = KidsOf(n)
         /\ \A s : NamesOnce(s)' <=> NamesOnce(s)
<1>1. \A n : EntryOf(n)' = EntryOf(n)
  BY DEF EntryOf, EntryAt, Parsed
<1>2. \A n, i : EntryAt(n, i)' = EntryAt(n, i)
  BY DEF EntryAt
<1>3. \A n : KidsOf(n)' = KidsOf(n)
  BY <1>1, <1>2 DEF KidsOf
<1>4. \A s : NamesOnce(s)' <=> NamesOnce(s)
  BY DEF NamesOnce, Parsed
<1>5. QED BY <1>1, <1>2, <1>3, <1>4

\* Who is mentioned below the root is settled when the root is made.
LEMMA MentionedKept ==
  ASSUME scene_text' = scene_text, entry'[Root] = entry[Root]
  PROVE  /\ Mentioned' = Mentioned /\ Mentions' = Mentions
         /\ NamedApart' <=> NamedApart
<1>1. \A n : KidsOf(n)' = KidsOf(n)
  BY TextKept
<1>2. Mentioned' = Mentioned
  BY <1>1 DEF Mentioned
<1>3. Mentions' = Mentions
  BY <1>1, <1>2 DEF Mentions
<1>4. QED BY <1>2, <1>3 DEF NamedApart

\* The new child is the next one described.
LEMMA HangsKids ==
  ASSUME ShapeInv, scene_text \in SceneTexts, KidsRight,
         NEW p, NEW i, NEW x, Hangs(p, i, x)
  PROVE  KidsRight'
<1>1. /\ p \in Nodes /\ x \in Nodes /\ p # x /\ x # Root /\ x \notin nodemap /\ x \notin freed
      /\ i \in Nat \ {0} /\ entry[p] \in Entries
      /\ entry'[x] = EntryAt(entry[p].kids[i], EntryOf(entry[p].kids[i]))
      /\ entry'[x] \in Entries
      /\ \A y \in Nodes \ {x} : entry'[y] = entry[y]
      /\ Bare(x)
  BY HangsIs
<1>2. /\ Children(p)' = Append(Children(p), x)
      /\ \A q \in Nodes \ {p} : Children(q)' = Children(q)
  BY HangsShape
<1>3. /\ p \in {Root} \cup nodemap
      /\ i \in 1 .. Len(entry[p].kids) /\ Len(Children(p)) = i - 1
      /\ EntryOf(entry[p].kids[i]) # 0
      /\ nodemap' \subseteq nodemap \cup {x}
      /\ scene_text' = scene_text
  BY DEF Hangs
<1>4. TreeState /\ nodemap \subseteq Nodes /\ Root \in Nodes
  BY NodesAre DEF ShapeInv, Made
<1>5. \A n : EntryOf(n)' = EntryOf(n)
  BY <1>3, TextKept
<1>6. \A n, j : EntryAt(n, j)' = EntryAt(n, j)
  BY <1>3, TextKept
<1>7. \A q \in Nodes : /\ Children(q) \in Seq(Nodes) /\ Len(Children(q)) \in Nat
                       /\ \A j \in 1 .. Len(Children(q)) : parent[Children(q)[j]] = q
                       /\ first_child[q] = Null => Len(Children(q)) = 0
  <2>1. ASSUME NEW q \in Nodes, NEW j \in 1 .. Len(Children(q)) PROVE parent[Children(q)[j]] = q
    <3>1. Children(q)[j] \in Nodes
      BY <1>4, ChildrenAre
    <3>2. QED BY <1>4, <3>1, ChildrenAre
  <2>2. QED BY <1>4, <2>1, ChildrenAre
<1>8. SUFFICES ASSUME NEW q \in {Root} \cup nodemap'
               PROVE  /\ Len(Children(q)') <= Len(entry'[q].kids)
                      /\ \A j \in 1 .. Len(Children(q)') :
                           /\ EntryOf(entry'[q].kids[j]) # 0
                           /\ entry'[Children(q)'[j]]
                                = EntryAt(entry'[q].kids[j], EntryOf(entry'[q].kids[j]))
  BY <1>5, <1>6 DEF KidsRight
<1>9. \A y \in {Root} \cup nodemap : \A j \in 1 .. Len(Children(y)) :
        Children(y)[j] \in Nodes /\ Children(y)[j] # x
  BY <1>1, <1>4, <1>7, NullIsNoNode DEF Bare
<1>10. CASE q = x
  <2>1. Len(Children(q)') = 0
    BY <1>1, <1>2, <1>7, <1>10 DEF Bare
  <2>2. Len(entry'[q].kids) \in Nat
    BY <1>1, <1>10, NodesAre
  <2>3. QED BY <2>1, <2>2
<1>11. CASE q # x /\ q # p
  <2>1. /\ q \in {Root} \cup nodemap /\ q \in Nodes
        /\ Children(q)' = Children(q) /\ entry'[q] = entry[q]
    BY <1>1, <1>2, <1>3, <1>4, <1>11
  <2>2. \A j \in 1 .. Len(Children(q)) : entry'[Children(q)[j]] = entry[Children(q)[j]]
    BY <1>1, <1>9, <2>1
  <2>3. QED BY <2>1, <2>2 DEF KidsRight
<1>12. CASE q = p
  <2>1. entry'[q] = entry[q] /\ Len(Children(q)') = i
    BY <1>1, <1>2, <1>3, <1>7, <1>12
  <2>2. Len(Children(q)') <= Len(entry'[q].kids)
    BY <1>3, <1>12, <2>1
  <2>3. ASSUME NEW j \in 1 .. i
        PROVE  /\ EntryOf(entry[q].kids[j]) # 0
               /\ entry'[Children(q)'[j]] = EntryAt(entry[q].kids[j], EntryOf(entry[q].kids[j]))
    <3>1. CASE j = i
      <4>1. Children(q)'[j] = x
        BY <1>1, <1>2, <1>3, <1>7, <1>12, <3>1
      <4>2. QED BY <1>1, <1>3, <1>12, <3>1, <4>1
    <3>2. CASE j # i
      <4>1. j \in 1 .. Len(Children(p)) /\ Children(q)'[j] = Children(p)[j]
        <5>1. Children(p) \in Seq(Nodes) /\ Len(Children(p)) = i - 1 /\ i \in Nat
          BY <1>1, <1>3, <1>7
        <5>2. j \in 1 .. Len(Children(p))
          BY <3>2, <5>1
        <5>3. Append(Children(p), x)[j] = Children(p)[j]
          BY <5>1, <5>2
        <5>4. QED BY <1>2, <1>12, <5>2, <5>3
      <4>2. entry'[Children(p)[j]] = entry[Children(p)[j]]
        BY <1>1, <1>3, <1>9, <4>1
      <4>3. QED BY <1>3, <1>12, <4>1, <4>2 DEF KidsRight
    <3>3. QED BY <3>1, <3>2
  <2>4. QED BY <2>1, <2>2, <2>3
<1>13. QED BY <1>10, <1>11, <1>12

----------------------------------------------------------------------------
\* Who mentions a node: o is Null for the root, and a name the node is found by.
Owns(p, o) == (p = Root /\ o = Null) \/ (p \in nodemap /\ o \in SceneNames /\ FoundBy(p, o))

\* What a node mentions is mentioned.
LEMMA MentionIs ==
  ASSUME NEW p \in Nodes, NEW o, Owns(p, o), entry[p] \in Entries,
         NEW i \in 1 .. Len(entry[p].kids)
  PROVE  /\ entry[p].kids[i] \in Mentioned
         /\ <<o, i, entry[p].kids[i]>> \in Mentions
<1> DEFINE k == entry[p].kids[i]
<1>1. entry[p].kids \in Seq(SceneNames)
  BY DEF Entries
<1>2. /\ DOMAIN entry[p].kids = 1 .. Len(entry[p].kids) /\ k \in SceneNames
      /\ i \in DOMAIN entry[p].kids
  BY <1>1
<1>3. k \in ToSet(entry[p].kids)
  BY <1>2, Zenon DEF ToSet
<1>4. CASE p = Root /\ o = Null
  <2>1. <<o, i, k>> \in Mentions
    BY <1>2, <1>4 DEF Mentions
  <2>2. k \in Mentioned
    BY <1>2, <1>3, <1>4 DEF Mentioned
  <2>3. QED BY <2>1, <2>2
<1>5. CASE o \in SceneNames /\ FoundBy(p, o)
  <2>1. o \in Mentioned /\ KidsOf(o) = entry[p].kids
    BY <1>5 DEF FoundBy, KidsOf
  <2>2. <<o, i, k>> \in {<<o, j, KidsOf(o)[j]>> : j \in DOMAIN KidsOf(o)}
    BY <1>2, <2>1
  <2>3. <<o, i, k>> \in Mentions
    BY <2>1, <2>2 DEF Mentions
  <2>4. ASSUME NEW S \in SUBSET SceneNames, ToSet(entry[Root].kids) \subseteq S,
               \A m \in S : ToSet(KidsOf(m)) \subseteq S
        PROVE  k \in S
    <3>1. o \in S
      BY <2>1, <2>4 DEF Mentioned
    <3>2. QED BY <1>3, <2>1, <2>4, <3>1
  <2>5. k \in Mentioned
    BY <1>2, <2>4 DEF Mentioned
  <2>6. QED BY <2>3, <2>5
<1>6. QED BY <1>4, <1>5 DEF Owns

\* Every node that others may hang under has a name it is mentioned by.
LEMMA OwnerIs ==
  ASSUME NamedBy, NEW p \in {Root} \cup nodemap
  PROVE  \E o : Owns(p, o)
BY DEF NamedBy, Owns

\* One who mentions two nodes of the map, or the root, mentions one node.
LEMMA OneOwned ==
  ASSUME ShapeInv, NEW p, NEW q, NEW o, Owns(p, o), Owns(q, o)
  PROVE  p = q
<1>1. \A x, y \in nodemap : entry[x].label = entry[y].label => x = y
  BY DEF ShapeInv
<1>2. QED BY <1>1, NullIsNoName DEF Owns, FoundBy

\* A node is refused only if its name has been mentioned at another place.
LEMMA HangsNames ==
  ASSUME ShapeInv, scene_text \in SceneTexts, KidsRight, NamedBy,
         freed # {} => ~NamedApart, NEW p, NEW i, NEW x, Hangs(p, i, x)
  PROVE  NamedBy' /\ (freed' # {} => ~NamedApart')
<1>1. /\ p \in Nodes /\ x \in Nodes /\ p # x /\ x # Root /\ x \notin nodemap /\ x \notin freed
      /\ i \in Nat \ {0} /\ entry[p] \in Entries /\ entry[p].kids[i] \in SceneNames
      /\ entry'[x] = EntryAt(entry[p].kids[i], EntryOf(entry[p].kids[i]))
      /\ entry'[x].label = entry[p].kids[i][2]
      /\ \A y \in Nodes \ {x} : entry'[y] = entry[y]
  BY HangsIs
<1>2. /\ p \in {Root} \cup nodemap
      /\ i \in 1 .. Len(entry[p].kids) /\ Len(Children(p)) = i - 1
      /\ EntryOf(entry[p].kids[i]) # 0
      /\ scene_text' = scene_text
      /\ \/ InMap(entry'[x].label) /\ nodemap' = nodemap /\ freed' = freed \cup {x}
         \/ ~InMap(entry'[x].label) /\ nodemap' = nodemap \cup {x} /\ freed' = freed
  BY DEF Hangs
<1>3. /\ TreeState /\ nodemap \subseteq Nodes \ {Root} /\ Root \in Nodes
      /\ \A y \in nodemap : parent[y] \in {Root} \cup nodemap /\ entry[y] \in Entries
  BY NodesAre DEF ShapeInv, Made
<1>4. entry'[Root] = entry[Root]
  BY <1>1, <1>3
<1>5. Mentioned' = Mentioned /\ Mentions' = Mentions /\ (NamedApart' <=> NamedApart)
  BY <1>2, <1>4, MentionedKept
<1>6. \A n : EntryOf(n)' = EntryOf(n)
  BY <1>2, TextKept
<1>7. \A n, j : EntryAt(n, j)' = EntryAt(n, j)
  BY <1>2, TextKept
<1>8. PICK o : Owns(p, o)
  BY <1>2, OwnerIs
<1>9. entry[p].kids[i] \in Mentioned /\ <<o, i, entry[p].kids[i]>> \in Mentions
  BY <1>1, <1>2, <1>8, MentionIs
<1>10. NamedBy'
  <2>1. ASSUME NEW y \in nodemap' PROVE \E n \in SceneNames : FoundBy(y, n)'
    <3>1. CASE y = x
      BY <1>1, <1>2, <1>5, <1>6, <1>7, <1>9, <3>1 DEF FoundBy
    <3>2. CASE y # x
      <4>1. y \in nodemap /\ entry'[y] = entry[y]
        BY <1>1, <1>2, <1>3, <3>2
      <4>2. PICK n \in SceneNames : FoundBy(y, n)
        BY <4>1 DEF NamedBy
      <4>3. FoundBy(y, n)'
        BY <1>5, <1>6, <1>7, <4>1, <4>2 DEF FoundBy
      <4>4. QED BY <4>3
    <3>3. QED BY <3>1, <3>2
  <2>2. QED BY <2>1 DEF NamedBy
<1>11. ASSUME InMap(entry'[x].label) PROVE ~NamedApart
  <2>1. PICK y \in nodemap : entry[y].label = entry'[x].label
    BY <1>11, <1>1, <1>3 DEF InMap
  <2>2. parent[y] \in {Root} \cup nodemap /\ y \in Nodes
    BY <1>3
  <2> DEFINE q == parent[y]
  <2>3. q \in Nodes /\ q \in {Root} \cup nodemap
    BY <1>3, <2>2
  <2> HIDE DEF q
  <2>4. PICK j \in 1 .. Len(Children(q)) : Children(q)[j] = y
    BY <1>3, <2>2, <2>3, ChildrenAre DEF q
  <2>5. /\ Len(Children(q)) <= Len(entry[q].kids)
        /\ EntryOf(entry[q].kids[j]) # 0
        /\ entry[y] = EntryAt(entry[q].kids[j], EntryOf(entry[q].kids[j]))
    BY <2>3, <2>4 DEF KidsRight
  <2>6. entry[q] \in Entries
    <3>1. Len(Children(q)) \in Nat /\ Len(Children(q)) # 0
      BY <1>3, <2>3, <2>4, ChildrenAre
    <3>2. entry[q] \in Entries \cup {NoEntry}
      BY <2>3 DEF ShapeInv
    <3>3. Len(NoEntry.kids) = 0
      BY DEF NoEntry
    <3>4. QED BY <2>5, <3>1, <3>2, <3>3
  <2>7. Len(Children(q)) \in Nat /\ Len(entry[q].kids) \in Nat
    BY <1>3, <2>3, <2>6, NodesAre, ChildrenAre
  <2>8. j \in 1 .. Len(entry[q].kids)
    BY <2>4, <2>5, <2>7
  <2>9. entry[q].kids[j] \in SceneNames
    BY <2>6, <2>8, NodesAre
  <2>10. entry[y].label = entry[q].kids[j][2]
    BY <2>5, <2>9, EntryFound
  <2>11. PICK o2 : Owns(q, o2)
    BY <2>3, OwnerIs
  <2>12. <<o2, j, entry[q].kids[j]>> \in Mentions
    BY <2>3, <2>6, <2>8, <2>11, MentionIs
  <2>13. SUFFICES ASSUME NamedApart PROVE FALSE
    OBVIOUS
  <2>14. <<o, i, entry[p].kids[i]>>[3][2] = <<o2, j, entry[q].kids[j]>>[3][2]
    BY <1>1, <2>1, <2>10
  <2>15. <<o, i, entry[p].kids[i]>> = <<o2, j, entry[q].kids[j]>>
    BY <1>9, <2>12, <2>13, <2>14 DEF NamedApart
  <2>16. o = o2 /\ i = j
    BY <2>15
  <2>17. p = q
    BY <1>8, <2>11, <2>16, OneOwned
  <2>18. QED BY <1>1, <1>2, <2>4, <2>16, <2>17
<1>12. freed' # {} => ~NamedApart'
  BY <1>2, <1>5, <1>11
<1>13. QED BY <1>10, <1>12

----------------------------------------------------------------------------
\* The activations of RecursiveCreateNode.

\* One more child of the innermost activation is done.
Raised(b) == [b EXCEPT ![Len(b)].at = @ + 1]

\* The loop of the innermost activation goes on by one.
LEMMA TopRaised ==
  ASSUME NEW b \in Seq(Acts), b # <<>>
  PROVE  /\ Raised(b) \in Seq(Acts) /\ Len(Raised(b)) = Len(b) /\ Raised(b) # <<>>
         /\ Len(b) \in Nat \ {0}
         /\ \A i \in 1 .. Len(b) : Raised(b)[i].node = b[i].node /\ Raised(b)[i].entry = b[i].entry
         /\ \A i \in 1 .. Len(b) : i # Len(b) => Raised(b)[i] = b[i]
         /\ Raised(b)[Len(b)].at = b[Len(b)].at + 1 /\ b[Len(b)].at \in Nat
<1>1. Len(b) \in Nat /\ Len(b) # 0 /\ DOMAIN b = 1 .. Len(b)
  OBVIOUS
<1>2. PICK n \in Nat : n = Len(b)
  BY <1>1
<1>3. n \in 1 .. n /\ b[n] \in Acts
  BY <1>1, <1>2
<1> DEFINE a == [b[n] EXCEPT !.at = @ + 1]
<1>4. /\ a \in Acts /\ a.at = b[n].at + 1 /\ a.node = b[n].node /\ a.entry = b[n].entry
      /\ b[n].at \in Nat
  <2>1. PICK d \in Acts : d = b[n]
    BY <1>3
  <2>2. /\ d = [node |-> d.node, entry |-> d.entry, at |-> d.at]
        /\ d.node \in Pointer /\ d.entry \in Entries /\ d.at \in Nat
    BY DEF Acts
  <2>3. a = [node |-> d.node, entry |-> d.entry, at |-> d.at + 1]
    BY <2>1, <2>2
  <2>4. d.at + 1 \in Nat
    BY <2>2
  <2>5. a \in Acts
    BY <2>2, <2>3, <2>4 DEF Acts
  <2>6. a.at = d.at + 1 /\ a.node = d.node /\ a.entry = d.entry
    BY <2>3
  <2>7. QED BY <2>1, <2>2, <2>5, <2>6
<1>5. Raised(b) = [b EXCEPT ![n] = a]
  BY <1>2 DEF Raised
<1> HIDE DEF a
<1>6. PICK c : c = [b EXCEPT ![n] = a]
  OBVIOUS
<1>7. DOMAIN c = 1 .. n /\ c[n] = a /\ \A i \in 1 .. n : i # n => c[i] = b[i]
  BY <1>1, <1>2, <1>3, <1>6
<1>8. c \in [1 .. n -> Acts]
  BY <1>1, <1>2, <1>3, <1>4, <1>6
<1>9. c \in Seq(Acts) /\ Len(c) = n
  BY <1>8
<1>10. c # <<>>
  BY <1>1, <1>2, <1>9
<1>11. \A i \in 1 .. n : c[i].node = b[i].node /\ c[i].entry = b[i].entry
  BY <1>4, <1>7
<1>12. QED BY <1>1, <1>2, <1>4, <1>5, <1>6, <1>7, <1>9, <1>10, <1>11

\* The innermost activation goes on to its children.
LEMMA StackAdvanced ==
  ASSUME NEW b, StackOK(b), b # <<>>, b[Len(b)].at = 0,
         NEW c, c = Raised(b)
  PROVE  /\ StackOK(c) /\ Len(c) = Len(b) /\ c # <<>>
         /\ \A i \in 1 .. Len(b) : c[i].node = b[i].node /\ c[i].entry = b[i].entry
         /\ \A i \in 1 .. Len(b) - 1 : c[i].at = b[i].at
         /\ c[Len(b)].at = 1
<1> DEFINE n == Len(b)
<1>1. b \in Seq(Acts)
  BY DEF StackOK
<1>2. /\ c \in Seq(Acts) /\ Len(c) = n /\ c # <<>> /\ n \in Nat \ {0}
      /\ \A i \in 1 .. n : c[i].node = b[i].node /\ c[i].entry = b[i].entry
      /\ \A i \in 1 .. n : i # n => c[i] = b[i]
      /\ c[n].at = 1
  BY <1>1, TopRaised
<1>3. \A i \in 1 .. n : c[i].at <= Len(c[i].entry.kids) + 1
  <2>1. ASSUME NEW i \in 1 .. n PROVE c[i].at <= Len(c[i].entry.kids) + 1
    <3>1. CASE i = n
      <4>1. c[n] \in Acts
        BY <1>2
      <4>2. Len(c[n].entry.kids) \in Nat
        BY <4>1, NodesAre DEF Acts
      <4>3. QED BY <1>2, <3>1, <4>2
    <3>2. CASE i # n
      BY <1>2, <3>2 DEF StackOK
    <3>3. QED BY <3>1, <3>2
  <2>2. QED BY <2>1
<1>4. \A i \in 1 .. n - 1 : i \in 1 .. n /\ i # n
  BY <1>2
<1>5. \A i \in 1 .. n - 1 : c[i].at \in 1 .. Len(c[i].entry.kids)
  <2>1. \A i \in 1 .. n - 1 : b[i].at \in 1 .. Len(b[i].entry.kids)
    BY DEF StackOK
  <2>2. \A i \in 1 .. n - 1 : c[i] = b[i]
    BY <1>2, <1>4
  <2>3. QED BY <2>1, <2>2
<1>6. StackOK(c)
  BY <1>2, <1>3, <1>5 DEF StackOK
<1>7. QED BY <1>2, <1>4, <1>6

\* RecursiveCreateNode is called for a child.
LEMMA StackPushed ==
  ASSUME NEW b, StackOK(b), b # <<>>, b[Len(b)].at \in 1 .. Len(b[Len(b)].entry.kids),
         NEW a \in Acts, a.at = 0
  PROVE  /\ StackOK(Append(b, a)) /\ Len(Append(b, a)) = Len(b) + 1 /\ Append(b, a) # <<>>
         /\ \A i \in 1 .. Len(b) : Append(b, a)[i] = b[i]
         /\ Append(b, a)[Len(b) + 1] = a
<1>1. b \in Seq(Acts) /\ Len(b) \in Nat /\ Len(b) # 0
  BY DEF StackOK
<1> DEFINE c == Append(b, a)
<1>2. /\ c \in Seq(Acts) /\ Len(c) = Len(b) + 1 /\ c[Len(b) + 1] = a
      /\ \A i \in 1 .. Len(b) : c[i] = b[i]
  BY <1>1
<1> HIDE DEF c
<1>3. Len(a.entry.kids) \in Nat
  BY NodesAre DEF Acts
<1>4. \A i \in 1 .. Len(c) : i = Len(b) + 1 \/ i \in 1 .. Len(b)
  BY <1>1, <1>2
<1>5. \A i \in 1 .. Len(c) : c[i].at <= Len(c[i].entry.kids) + 1
  <2>1. ASSUME NEW i \in 1 .. Len(c) PROVE c[i].at <= Len(c[i].entry.kids) + 1
    <3>1. CASE i = Len(b) + 1
      BY <1>2, <1>3, <3>1
    <3>2. CASE i \in 1 .. Len(b)
      BY <1>2, <3>2 DEF StackOK
    <3>3. QED BY <1>4, <3>1, <3>2
  <2>2. QED BY <2>1
<1>6. \A i \in 1 .. Len(c) - 1 : c[i].at \in 1 .. Len(c[i].entry.kids)
  <2>1. ASSUME NEW i \in 1 .. Len(c) - 1 PROVE c[i].at \in 1 .. Len(c[i].entry.kids)
    <3>1. i \in 1 .. Len(b)
      BY <1>1, <1>2
    <3>2. CASE i = Len(b)
      BY <1>2, <3>1, <3>2
    <3>3. CASE i # Len(b)
      <4>1. i \in 1 .. Len(b) - 1
        BY <1>1, <3>1, <3>3
      <4>2. QED BY <1>2, <3>1, <4>1 DEF StackOK
    <3>4. QED BY <3>2, <3>3
  <2>2. QED BY <2>1
<1>7. StackOK(c)
  BY <1>2, <1>5, <1>6 DEF StackOK
<1>8. c # <<>>
  BY <1>1, <1>2
<1>9. QED BY <1>2, <1>7, <1>8 DEF c

\* What is left when the innermost activation returns.
LEMMA FrontIs ==
  ASSUME NEW b \in Seq(Acts), b # <<>>
  PROVE  /\ Front(b) \in Seq(Acts)
         /\ Len(Front(b)) = Len(b) - 1 /\ Len(b) \in Nat \ {0}
         /\ \A i \in 1 .. Len(b) - 1 : Front(b)[i] = b[i]
<1>1. Len(b) \in Nat /\ Len(b) # 0
  OBVIOUS
<1>2. PICK n \in Nat : n = Len(b) - 1
  BY <1>1
<1>3. Front(b) = SubSeq(b, 1, n)
  BY <1>2 DEF Front
<1>4. \A i \in 1 .. n : b[i] \in Acts
  BY <1>1, <1>2
<1>5. /\ SubSeq(b, 1, n) \in Seq(Acts)
      /\ Len(SubSeq(b, 1, n)) = IF 1 <= n THEN n - 1 + 1 ELSE 0
      /\ \A i \in 1 .. n - 1 + 1 : SubSeq(b, 1, n)[i] = b[1 + i - 1]
  BY <1>4, SubSeqProperties
<1>6. n - 1 + 1 = n /\ (~(1 <= n) => n = 0) /\ \A i \in 1 .. n : 1 + i - 1 = i
  OBVIOUS
<1>7. Len(Front(b)) = n
  BY <1>3, <1>5, <1>6
<1>8. \A i \in 1 .. n : Front(b)[i] = b[i]
  BY <1>3, <1>5, <1>6
<1>9. QED BY <1>1, <1>2, <1>3, <1>5, <1>7, <1>8

\* RecursiveCreateNode returns to the loop of its caller.
LEMMA StackPopped ==
  ASSUME NEW b, StackOK(b), Len(b) > 1, NEW r, r = Front(b),
         NEW c, c = Raised(r)
  PROVE  /\ StackOK(c) /\ Len(c) = Len(b) - 1 /\ c # <<>> /\ Len(b) \in Nat
         /\ \A i \in 1 .. Len(c) : c[i].node = b[i].node /\ c[i].entry = b[i].entry
         /\ \A i \in 1 .. Len(c) - 1 : c[i].at = b[i].at
         /\ c[Len(c)].at = b[Len(c)].at + 1 /\ b[Len(c)].at \in Nat \ {0}
<1>1. b \in Seq(Acts) /\ b # <<>> /\ Len(b) \in Nat
  BY DEF StackOK
<1>3. PICK n \in Nat : n = Len(b) - 1
  BY <1>1
<1>4. r \in Seq(Acts) /\ Len(r) = n /\ (\A i \in 1 .. n : r[i] = b[i]) /\ n # 0
  BY <1>1, <1>3, FrontIs
<1>5. r # <<>>
  BY <1>4
<1>6. /\ c \in Seq(Acts) /\ Len(c) = Len(r) /\ c # <<>>
      /\ \A i \in 1 .. Len(r) : c[i].node = r[i].node /\ c[i].entry = r[i].entry
      /\ \A i \in 1 .. Len(r) : i # Len(r) => c[i] = r[i]
      /\ c[Len(r)].at = r[Len(r)].at + 1 /\ r[Len(r)].at \in Nat
  BY <1>4, <1>5, TopRaised
<1>7. n \in 1 .. n /\ n \in 1 .. Len(b) - 1
  BY <1>3, <1>4
<1>8. /\ Len(c) = n /\ c[n].at = b[n].at + 1 /\ b[n].at \in Nat
      /\ \A i \in 1 .. n : c[i].node = b[i].node /\ c[i].entry = b[i].entry
      /\ \A i \in 1 .. n : i # n => c[i] = b[i]
  BY <1>4, <1>6, <1>7
<1>9. b[n].at \in 1 .. Len(b[n].entry.kids)
  BY <1>7 DEF StackOK
<1>10. b[n].at \in Nat \ {0}
  BY <1>8, <1>9
<1>11. \A i \in 1 .. n : i # n => i \in 1 .. n - 1 /\ i \in 1 .. Len(b) - 1 /\ i \in 1 .. Len(b)
  BY <1>1, <1>3
<1>12. \A i \in 1 .. n - 1 : i \in 1 .. n /\ i # n
  OBVIOUS
<1>13. c[n].at <= Len(c[n].entry.kids) + 1
  <2>1. b[n] \in Acts
    BY <1>1, <1>3, <1>7
  <2>2. PICK k \in Nat : k = Len(b[n].entry.kids)
    BY <2>1, NodesAre DEF Acts
  <2>3. b[n].at + 1 <= k + 1
    BY <1>9, <1>10, <2>2
  <2>4. QED BY <1>7, <1>8, <2>2, <2>3
<1>14. \A i \in 1 .. n : c[i].at <= Len(c[i].entry.kids) + 1
  <2>1. \A i \in 1 .. Len(b) : b[i].at <= Len(b[i].entry.kids) + 1
    BY DEF StackOK
  <2>2. ASSUME NEW i \in 1 .. n, i # n PROVE c[i].at <= Len(c[i].entry.kids) + 1
    <3>1. i \in 1 .. Len(b) /\ c[i] = b[i]
      BY <1>8, <1>11, <2>2
    <3>2. QED BY <2>1, <3>1
  <2>3. QED BY <1>13, <2>2
<1>15. \A i \in 1 .. n - 1 : c[i].at \in 1 .. Len(c[i].entry.kids)
  <2>1. \A i \in 1 .. Len(b) - 1 : b[i].at \in 1 .. Len(b[i].entry.kids)
    BY DEF StackOK
  <2>2. ASSUME NEW i \in 1 .. n - 1 PROVE c[i].at \in 1 .. Len(c[i].entry.kids)
    <3>1. i \in 1 .. n /\ i # n
      BY <1>12
    <3>2. i \in 1 .. Len(b) - 1 /\ c[i] = b[i]
      BY <1>8, <1>11, <3>1
    <3>3. QED BY <2>1, <3>2
  <2>3. QED BY <2>2
<1>16. StackOK(c)
  BY <1>6, <1>8, <1>14, <1>15 DEF StackOK
<1>17. \A i \in 1 .. n - 1 : c[i].at = b[i].at
  BY <1>8, <1>12
<1>18. QED BY <1>1, <1>3, <1>6, <1>8, <1>10, <1>16, <1>17

\* The tree under construction, the map, and what they say of the text.
BuildInv == ShapeInv /\ KidsRight /\ NamedBy /\ (freed # {} => ~NamedApart)

InScene == outcome \in {"building", "scene"}

StackInv ==
  /\ StackOK(building)
  /\ outcome \in {"none", "building", "scene", "null"}
  /\ building # <<>> <=> outcome = "building"
  /\ InScene => Root \in Made
  /\ \A i \in 1 .. Len(building) :
       \/ building[i].node = Null /\ freed # {}
       \/ building[i].node \in {Root} \cup nodemap /\ entry[building[i].node] = building[i].entry
  /\ \A i, j \in 1 .. Len(building) :
       building[i].node = building[j].node /\ building[i].node # Null => i = j

\* How many children a node has.
Count == [x \in Nodes |-> Len(Children(x))]

\* How many children the i-th activation has made.
Going(b, i) == IF i < Len(b) \/ b[i].at = 0 THEN b[i].at ELSE b[i].at - 1

ProgressInv ==
  InScene =>
    /\ \A i \in 1 .. Len(building) :
         building[i].node # Null => Count[building[i].node] = Going(building, i)
    /\ \A x \in {Root} \cup nodemap :
         (\A i \in 1 .. Len(building) : building[i].node # x)
           => Count[x] = Len(entry[x].kids)

\* The mesh of x has been asked for, if there is one to ask for.
MeshSet(x) ==
  /\ entry[x].type = "mesh" /\ entry[x].attach # Null =>
       /\ mesh_dict[entry[x].attach] # NoMesh
       /\ mesh[x] <=> mesh_dict[entry[x].attach] # NullMesh
  /\ mesh[x] => entry[x].type = "mesh" /\ entry[x].attach # Null

Pending(x) ==
  building # <<>> /\ building[Len(building)].node = x /\ building[Len(building)].at = 0

MeshInv ==
  /\ mesh \in [Nodes -> BOOLEAN]
  /\ \A x \in Nodes \ Made : ~mesh[x]
  /\ InScene => \A x \in nodemap : IF Pending(x) THEN ~mesh[x] ELSE MeshSet(x)

LoadingInv ==
  loading # NotLoading => loading.mesh \in Meshes /\ mesh_dict[loading.mesh] = NoMesh

BuildVars == <<treeVars, scene_text, entry, nodemap, freed>>

\* What leaves the links, the map and the text alone.
LEMMA BuildKept ==
  ASSUME BuildInv, UNCHANGED BuildVars
  PROVE  BuildInv' /\ Made' = Made /\ Count' = Count
<1>1. UNCHANGED <<treeVars, scene_text, entry, nodemap, freed>>
  BY DEF BuildVars
<1>2. Tree!TreeInv'
  <2>1. Tree!TreeInv
    BY DEF BuildInv, ShapeInv, TreeState
  <2>2. UNCHANGED Tree!treeVars
    BY <1>1 DEF Tree!treeVars, treeVars
  <2>3. QED BY <2>1, <2>2, NullIsNoNode, Tree!TreeInvKept, Zenon
<1>3. TreeState'
  BY <1>1, <1>2 DEF BuildInv, ShapeInv, TreeState, treeVars
<1>4. Made' = Made /\ \A p : Children(p)' = Children(p)
  BY <1>1 DEF Made, Children, Chain, treeVars
<1>5. ShapeInv'
  BY <1>1, <1>3, <1>4 DEF BuildInv, ShapeInv, Bare, treeVars
<1>6. KidsRight'
  <2>1. \A n : EntryOf(n)' = EntryOf(n)
    BY <1>1, TextKept
  <2>2. \A n, i : EntryAt(n, i)' = EntryAt(n, i)
    BY <1>1, TextKept
  <2>3. QED BY <1>1, <1>4, <2>1, <2>2 DEF BuildInv, KidsRight
<1>7. Mentioned' = Mentioned /\ (NamedApart' <=> NamedApart)
  BY <1>1, MentionedKept
<1>8. NamedBy'
  <2>1. \A n : EntryOf(n)' = EntryOf(n)
    BY <1>1, TextKept
  <2>2. \A n, i : EntryAt(n, i)' = EntryAt(n, i)
    BY <1>1, TextKept
  <2>3. \A x, n : FoundBy(x, n)' <=> FoundBy(x, n)
    BY <1>1, <1>7, <2>1, <2>2 DEF FoundBy
  <2>4. QED BY <1>1, <2>3 DEF BuildInv, NamedBy
<1>9. freed' # {} => ~NamedApart'
  BY <1>1, <1>7 DEF BuildInv
<1>10. BuildInv'
  BY <1>5, <1>6, <1>8, <1>9 DEF BuildInv
<1>11. Count' = Count
  BY <1>4 DEF Count
<1>12. QED BY <1>4, <1>10, <1>11

WorkInv == StackInv /\ ProgressInv /\ MeshInv

\* The innermost activation.
LEMMA TopIs ==
  ASSUME BuildInv, StackInv, building # <<>>
  PROVE  /\ Len(building) \in Nat \ {0} /\ Len(building) \in 1 .. Len(building)
         /\ top = building[Len(building)] /\ top \in Acts
         /\ InScene /\ outcome = "building" /\ Root \in Made
         /\ nodemap \subseteq Made \ {Root} /\ Made \subseteq Nodes
         /\ \/ top.node = Null /\ freed # {}
            \/ top.node \in {Root} \cup nodemap /\ top.node \in Made /\ entry[top.node] = top.entry
<1>1. building \in Seq(Acts)
  BY DEF StackInv, StackOK
<1>2. Len(building) \in Nat \ {0} /\ Len(building) \in 1 .. Len(building)
  BY <1>1
<1>3. top = building[Len(building)]
  BY DEF top, Last
<1>4. top \in Acts
  BY <1>1, <1>2, <1>3
<1>5. outcome = "building" /\ InScene /\ Root \in Made
  BY DEF StackInv, InScene
<1>6. nodemap \subseteq Made \ {Root} /\ Made \subseteq Nodes
  BY DEF BuildInv, ShapeInv, Made
<1>7. \/ top.node = Null /\ freed # {}
      \/ top.node \in {Root} \cup nodemap /\ top.node \in Made /\ entry[top.node] = top.entry
  BY <1>2, <1>3, <1>5, <1>6 DEF StackInv
<1>8. QED BY <1>2, <1>3, <1>4, <1>5, <1>6, <1>7

\* What follows when an activation has asked for what it attaches.
LEMMA AdvanceWork ==
  ASSUME BuildInv, WorkInv, building # <<>>, top.at = 0, building' = Advanced,
         UNCHANGED BuildVars, outcome' = outcome, mesh_dict' = mesh_dict,
         mesh' \in [Nodes -> BOOLEAN],
         \A x \in Nodes : x # top.node => mesh'[x] = mesh[x],
         \A x \in nodemap : x = top.node => MeshSet(x)'
  PROVE  WorkInv'
<1> DEFINE n == Len(building)
<1>1. /\ n \in Nat \ {0} /\ n \in 1 .. n
      /\ top = building[n] /\ top \in Acts
      /\ InScene /\ outcome = "building" /\ Root \in Made
      /\ nodemap \subseteq Made \ {Root} /\ Made \subseteq Nodes
      /\ \/ top.node = Null /\ freed # {}
         \/ top.node \in {Root} \cup nodemap /\ top.node \in Made /\ entry[top.node] = top.entry
  BY TopIs DEF WorkInv
<1>2. building' = Raised(building)
  BY DEF Advanced, Raised
<1>3. StackOK(building) /\ building[n].at = 0
  BY <1>1 DEF WorkInv, StackInv
<1>4. /\ StackOK(building') /\ Len(building') = n /\ building' # <<>>
      /\ \A i \in 1 .. n : /\ building'[i].node = building[i].node
                           /\ building'[i].entry = building[i].entry
      /\ \A i \in 1 .. n - 1 : building'[i].at = building[i].at
      /\ building'[n].at = 1
  BY <1>2, <1>3, StackAdvanced
<1>5. Made' = Made /\ Count' = Count
  BY BuildKept
<1>6. UNCHANGED <<entry, nodemap, freed>>
  BY DEF BuildVars
<1>7. InScene'
  BY <1>1 DEF InScene
<1>8. StackInv'
  <2>1. building' # <<>> <=> outcome' = "building"
    BY <1>1, <1>4
  <2>2. \A i \in 1 .. Len(building') :
          \/ building'[i].node = Null /\ freed' # {}
          \/ /\ building'[i].node \in {Root} \cup nodemap'
             /\ entry'[building'[i].node] = building'[i].entry
    BY <1>4, <1>6 DEF WorkInv, StackInv
  <2>3. \A i, j \in 1 .. Len(building') :
          building'[i].node = building'[j].node /\ building'[i].node # Null => i = j
    BY <1>4 DEF WorkInv, StackInv
  <2>4. QED BY <1>1, <1>4, <1>5, <2>1, <2>2, <2>3 DEF StackInv
<1>9. ProgressInv'
  <2>1. /\ \A i \in 1 .. n : building[i].node # Null => Count[building[i].node] = Going(building, i)
        /\ \A x \in {Root} \cup nodemap :
             (\A i \in 1 .. n : building[i].node # x) => Count[x] = Len(entry[x].kids)
    BY <1>1 DEF WorkInv, ProgressInv
  <2>2. ASSUME NEW i \in 1 .. n PROVE Going(building', i) = Going(building, i)
    <3>1. CASE i = n
      BY <1>1, <1>3, <1>4, <3>1 DEF Going
    <3>2. CASE i # n
      <4>1. i < n /\ i \in 1 .. n - 1
        BY <1>1, <3>2
      <4>2. QED BY <1>4, <4>1 DEF Going
    <3>3. QED BY <3>1, <3>2
  <2>3. \A i \in 1 .. n : building'[i].node # Null =>
          Count'[building'[i].node] = Going(building', i)
    BY <1>4, <1>5, <2>1, <2>2
  <2>4. \A x \in {Root} \cup nodemap' :
          (\A i \in 1 .. n : building'[i].node # x) => Count'[x] = Len(entry'[x].kids)
    BY <1>4, <1>5, <1>6, <2>1
  <2>5. QED BY <1>4, <2>3, <2>4 DEF ProgressInv, Going
<1>10. MeshInv'
  <2>1. \A x \in Nodes \ Made' : ~mesh'[x]
    <3>1. ASSUME NEW x \in Nodes \ Made PROVE ~mesh'[x]
      <4>1. x # top.node
        BY <1>1, <3>1, NullIsNoNode
      <4>2. QED BY <4>1 DEF WorkInv, MeshInv
    <3>2. QED BY <1>5, <3>1
  <2>2. ASSUME NEW x \in nodemap PROVE MeshSet(x)' /\ ~Pending(x)'
    <3>1. ~Pending(x)'
      BY <1>4 DEF Pending
    <3>2. CASE x = top.node
      BY <3>1, <3>2
    <3>3. CASE x # top.node
      <4>1. ~Pending(x)
        BY <1>1, <3>3 DEF Pending
      <4>2. MeshSet(x)
        BY <1>1, <4>1 DEF WorkInv, MeshInv
      <4>3. mesh'[x] = mesh[x]
        BY <1>1, <3>3
      <4>4. QED BY <1>6, <3>1, <4>2, <4>3 DEF MeshSet
    <3>4. QED BY <3>2, <3>3
  <2>3. QED BY <1>6, <2>1, <2>2 DEF MeshInv
<1>11. QED BY <1>8, <1>9, <1>10 DEF WorkInv

\* The dictionaries go their own way: a mesh once asked for stays what it is.
LEMMA ResourceWork ==
  ASSUME BuildInv, WorkInv, UNCHANGED BuildVars, UNCHANGED <<building, outcome, mesh>>,
         \A m \in Meshes : mesh_dict[m] # NoMesh => mesh_dict'[m] = mesh_dict[m]
  PROVE  BuildInv' /\ WorkInv'
<1>1. UNCHANGED BuildVars /\ UNCHANGED <<entry, nodemap, freed, building, outcome, mesh>>
  BY DEF BuildVars
<1>2. BuildInv' /\ Made' = Made /\ Count' = Count
  BY <1>1, BuildKept
<1>3. StackInv'
  BY <1>1, <1>2 DEF WorkInv, StackInv, InScene
<1>4. ProgressInv'
  BY <1>1, <1>2 DEF WorkInv, ProgressInv, InScene
<1>5. MeshInv'
  <2>1. ASSUME NEW x \in nodemap, MeshSet(x) PROVE MeshSet(x)'
    <3>1. entry[x] \in Entries
      BY DEF BuildInv, ShapeInv, Made
    <3>2. entry[x].type = "mesh" /\ entry[x].attach # Null => entry[x].attach \in Meshes
      BY <3>1 DEF Entries
    <3>3. QED BY <1>1, <2>1, <3>2 DEF MeshSet
  <2>2. \A x : Pending(x)' <=> Pending(x)
    BY <1>1 DEF Pending
  <2>3. QED BY <1>1, <1>2, <2>1, <2>2 DEF WorkInv, MeshInv, InScene
<1>6. QED BY <1>2, <1>3, <1>4, <1>5 DEF WorkInv

\* A call that gives up.
LEMMA FailWork ==
  ASSUME BuildInv, WorkInv, UNCHANGED BuildVars, mesh' = mesh, building' = <<>>, outcome' = "null"
  PROVE  WorkInv'
<1>1. Made' = Made
  BY BuildKept
<1>2. StackOK(building')
  BY DEF StackOK
<1>3. StackInv'
  BY <1>2 DEF StackInv, InScene
<1>4. ProgressInv' /\ MeshInv'
  BY <1>1 DEF WorkInv, ProgressInv, MeshInv, InScene
<1>5. QED BY <1>3, <1>4 DEF WorkInv

\* An activation that has made all its children hands over to its caller.
LEMMA ReturnWork ==
  ASSUME BuildInv, WorkInv, Return
  PROVE  BuildInv' /\ WorkInv'
<1> DEFINE n == Len(building)
<1>1. building # <<>> /\ top.at = Len(top.entry.kids) + 1
  BY DEF Return, Working
<1>2. /\ n \in Nat \ {0} /\ n \in 1 .. n
      /\ top = building[n] /\ top \in Acts
      /\ InScene /\ outcome = "building" /\ Root \in Made
      /\ nodemap \subseteq Made \ {Root} /\ Made \subseteq Nodes
      /\ \/ top.node = Null /\ freed # {}
         \/ top.node \in {Root} \cup nodemap /\ top.node \in Made /\ entry[top.node] = top.entry
  BY <1>1, TopIs DEF WorkInv
<1>3. UNCHANGED BuildVars /\ UNCHANGED <<entry, nodemap, freed, mesh, mesh_dict>>
  BY DEF Return, BuildVars, resVars, stores
<1>4. BuildInv' /\ Made' = Made /\ Count' = Count
  BY <1>3, BuildKept
<1>5. Len(top.entry.kids) \in Nat /\ top.at # 0
  BY <1>1, <1>2, NodesAre DEF Acts
<1>6. /\ \A i \in 1 .. n : building[i].node # Null => Count[building[i].node] = Going(building, i)
      /\ \A x \in {Root} \cup nodemap :
           (\A i \in 1 .. n : building[i].node # x) => Count[x] = Len(entry[x].kids)
  BY <1>2 DEF WorkInv, ProgressInv
<1>7. \A x \in nodemap : MeshSet(x)
  <2>1. \A x : ~Pending(x)
    BY <1>2, <1>5 DEF Pending
  <2>2. QED BY <1>2, <2>1 DEF WorkInv, MeshInv
<1>8. \A x \in nodemap : MeshSet(x)'
  BY <1>3, <1>7 DEF MeshSet
<1>9. mesh' \in [Nodes -> BOOLEAN] /\ \A x \in Nodes \ Made' : ~mesh'[x]
  BY <1>3, <1>4 DEF WorkInv, MeshInv
<1>10. top.node # Null => Count[top.node] = Len(entry[top.node].kids)
  <2>1. SUFFICES ASSUME top.node # Null PROVE Count[top.node] = Len(entry[top.node].kids)
    OBVIOUS
  <2>2. Count[top.node] = Going(building, n) /\ entry[top.node] = top.entry
    BY <1>2, <1>6, <2>1
  <2>3. Going(building, n) = top.at - 1
    BY <1>2, <1>5 DEF Going
  <2>4. top.at - 1 = Len(top.entry.kids)
    BY <1>1, <1>5
  <2>5. QED BY <2>2, <2>3, <2>4
<1>11. StackOK(building) /\ building \in Seq(Acts)
  BY DEF WorkInv, StackInv, StackOK
<1>12. PICK r : r = Front(building)
  OBVIOUS
<1>13. /\ building' = IF r = <<>> THEN r ELSE [r EXCEPT ![Len(r)].at = @ + 1]
       /\ outcome' = IF r = <<>> THEN "scene" ELSE outcome
  BY <1>12 DEF Return
<1>14. r \in Seq(Acts) /\ Len(r) = n - 1
  BY <1>1, <1>11, <1>12, FrontIs
<1>15. CASE n = 1
  <2>1. building' = <<>> /\ outcome' = "scene"
    BY <1>13, <1>14, <1>15
  <2>2. StackOK(building')
    BY <2>1 DEF StackOK
  <2>3. StackInv'
    BY <1>2, <1>4, <2>1, <2>2 DEF StackInv
  <2>4. ProgressInv'
    <3>1. ASSUME NEW x \in {Root} \cup nodemap PROVE Count[x] = Len(entry[x].kids)
      <4>1. CASE x = top.node
        BY <1>2, <1>10, <4>1, NodesAre, NullIsNoNode
      <4>2. CASE x # top.node
        <5>1. \A i \in 1 .. n : building[i].node # x
          BY <1>2, <1>15, <4>2
        <5>2. QED BY <1>6, <5>1
      <4>3. QED BY <4>1, <4>2
    <3>2. Len(building') = 0
      BY <2>1
    <3>3. QED BY <1>3, <1>4, <3>1, <3>2 DEF ProgressInv
  <2>5. MeshInv'
    BY <1>3, <1>8, <1>9, <2>1 DEF MeshInv, Pending
  <2>6. QED BY <1>4, <2>3, <2>4, <2>5 DEF WorkInv
<1>16. CASE n # 1
  <2>1. n > 1 /\ r # <<>>
    BY <1>2, <1>14, <1>16
  <2>2. building' = Raised(r) /\ outcome' = outcome
    BY <1>13, <2>1 DEF Raised
  <2>3. PICK c : c = building'
    OBVIOUS
  <2>4. /\ StackOK(c) /\ Len(c) = n - 1 /\ c # <<>>
        /\ \A i \in 1 .. Len(c) : c[i].node = building[i].node /\ c[i].entry = building[i].entry
        /\ \A i \in 1 .. Len(c) - 1 : c[i].at = building[i].at
        /\ c[Len(c)].at = building[Len(c)].at + 1 /\ building[Len(c)].at \in Nat \ {0}
    BY <1>11, <1>12, <2>1, <2>2, <2>3, StackPopped
  <2>5. \A i \in 1 .. n - 1 : i \in 1 .. n
    BY <1>2
  <2>6. InScene'
    BY <1>2, <2>2 DEF InScene
  <2>7. StackInv'
    <3>1. \A i \in 1 .. Len(c) :
            \/ c[i].node = Null /\ freed' # {}
            \/ c[i].node \in {Root} \cup nodemap' /\ entry'[c[i].node] = c[i].entry
      BY <1>3, <2>4, <2>5 DEF WorkInv, StackInv
    <3>2. \A i, j \in 1 .. Len(c) : c[i].node = c[j].node /\ c[i].node # Null => i = j
      <4>1. \A i, j \in 1 .. n :
              building[i].node = building[j].node /\ building[i].node # Null => i = j
        BY DEF WorkInv, StackInv
      <4>2. \A i \in 1 .. Len(c) : i \in 1 .. n /\ c[i].node = building[i].node
        BY <2>4, <2>5
      <4>3. QED BY <4>1, <4>2
    <3>3. QED BY <1>2, <1>4, <2>2, <2>3, <2>4, <3>1, <3>2 DEF StackInv
  <2>8. ProgressInv'
    <3>1. ASSUME NEW i \in 1 .. n - 1 PROVE Going(c, i) = Going(building, i)
      <4>1. i < n
        BY <1>2
      <4>2. Going(building, i) = building[i].at
        BY <4>1 DEF Going
      <4>3. CASE i = n - 1
        <5>1. c[i].at = building[i].at + 1 /\ building[i].at \in Nat
          BY <2>4, <4>3
        <5>2. ~(i < Len(c)) /\ c[i].at # 0 /\ c[i].at - 1 = building[i].at
          BY <2>4, <4>3, <5>1
        <5>3. QED BY <4>2, <5>2 DEF Going
      <4>4. CASE i # n - 1
        <5>1. i < Len(c) /\ i \in 1 .. Len(c) - 1
          BY <1>2, <2>4, <4>4
        <5>2. QED BY <2>4, <4>2, <5>1 DEF Going
      <4>5. QED BY <4>3, <4>4
    <3>2. \A i \in 1 .. Len(c) : c[i].node # Null => Count'[c[i].node] = Going(c, i)
      BY <1>4, <1>6, <2>4, <2>5, <3>1
    <3>3. ASSUME NEW x \in {Root} \cup nodemap, \A i \in 1 .. Len(c) : c[i].node # x
          PROVE  Count[x] = Len(entry[x].kids)
      <4>1. CASE x = top.node
        BY <1>2, <1>10, <4>1, NodesAre, NullIsNoNode
      <4>2. CASE x # top.node
        <5>1. ASSUME NEW i \in 1 .. n PROVE building[i].node # x
          <6>1. CASE i = n
            BY <1>2, <4>2, <6>1
          <6>2. CASE i # n
            <7>1. i \in 1 .. Len(c)
              BY <1>2, <2>4, <6>2
            <7>2. QED BY <2>4, <3>3, <7>1
          <6>3. QED BY <6>1, <6>2
        <5>2. QED BY <1>6, <5>1
      <4>3. QED BY <4>1, <4>2
    <3>4. QED BY <1>3, <1>4, <2>3, <3>2, <3>3 DEF ProgressInv, Going
  <2>9. MeshInv'
    <3>1. c[Len(c)].at # 0
      BY <2>4
    <3>2. \A x : ~Pending(x)'
      BY <2>3, <3>1 DEF Pending
    <3>3. QED BY <1>3, <1>8, <1>9, <3>2 DEF MeshInv
  <2>10. QED BY <1>4, <2>7, <2>8, <2>9 DEF WorkInv
<1>17. QED BY <1>15, <1>16

\* CreateNode is Hangs, for the child that RecursiveCreateNode has come to.
LEMMA CreateHangs ==
  ASSUME BuildInv, WorkInv, InfoInv, NEW x \in Nodes, CreateNode(x)
  PROVE  /\ Hangs(top.node, top.at, x) /\ top.node # Null
         /\ top.at \in Nat \ {0} /\ top = building[Len(building)] /\ building # <<>>
         /\ Child \in SceneNames
<1>1. /\ building # <<>> /\ top.at \in 1 .. Len(top.entry.kids) /\ top.node # Null
      /\ Answer(Child) # 0
      /\ x \in Fresh /\ AddChild(top.node, x)
      /\ entry' = [entry EXCEPT ![x] = EntryAt(Child, Answer(Child))]
      /\ scene_text' = scene_text
  BY DEF CreateNode, AtChild, Working
<1>2. /\ Len(building) \in Nat \ {0} /\ Len(building) \in 1 .. Len(building)
      /\ top = building[Len(building)] /\ top \in Acts
      /\ InScene
      /\ top.node \in {Root} \cup nodemap /\ top.node \in Made /\ entry[top.node] = top.entry
      /\ nodemap \subseteq Nodes
  BY <1>1, TopIs, NodesAre DEF WorkInv
<1>3. top.entry \in Entries /\ top.at \in Nat \ {0} /\ top.node \in Nodes
  <2>1. top.entry \in Entries
    BY <1>2 DEF Acts
  <2>2. Len(top.entry.kids) \in Nat
    BY <2>1, NodesAre
  <2>3. top.at \in Nat \ {0}
    BY <1>1, <2>2
  <2>4. top.node \in Nodes
    BY <1>2, NodesAre
  <2>5. QED BY <2>1, <2>3, <2>4
<1>4. Child \in SceneNames /\ Child = entry[top.node].kids[top.at]
  BY <1>1, <1>2, <1>3, NodesAre DEF Child
<1>5. Answer(Child) = EntryOf(Child) /\ EntryOf(Child) # 0
  <2>1. Answer(Child) \in {0, EntryOf(Child)}
    BY <1>4, AnswerIs
  <2>2. QED BY <1>1, <2>1
<1>6. Count[top.node] = top.at - 1
  BY <1>1, <1>2, <1>3 DEF WorkInv, ProgressInv, Going
<1>7. Len(Children(top.node)) = top.at - 1
  BY <1>3, <1>6 DEF Count
<1>8. x \in Nodes \ Made
  BY <1>1 DEF Fresh, Made
<1>9. /\ nodemap' = (IF InMap(entry'[x].label) THEN nodemap ELSE nodemap \cup {x})
      /\ freed' = (IF InMap(entry'[x].label) THEN freed \cup {x} ELSE freed)
  BY DEF CreateNode
<1>10. /\ top.at \in 1 .. Len(entry[top.node].kids)
       /\ EntryOf(entry[top.node].kids[top.at]) # 0
       /\ entry' = [entry EXCEPT ![x] =
                      EntryAt(entry[top.node].kids[top.at], EntryOf(entry[top.node].kids[top.at]))]
  BY <1>1, <1>2, <1>4, <1>5
<1>11. Hangs(top.node, top.at, x)
  BY <1>1, <1>2, <1>7, <1>8, <1>9, <1>10 DEF Hangs
<1>12. QED BY <1>1, <1>2, <1>3, <1>4, <1>11

\* A child is made, and RecursiveCreateNode called for it.
LEMMA CreateWork ==
  ASSUME BuildInv, WorkInv, InfoInv, NEW x \in Nodes, CreateNode(x)
  PROVE  BuildInv' /\ WorkInv'
<1> DEFINE n == Len(building)
<1>1. PICK p, at : p = top.node /\ at = top.at
  OBVIOUS
<1>2. /\ Hangs(p, at, x) /\ p # Null /\ at \in Nat \ {0} /\ top = building[n] /\ building # <<>>
  BY <1>1, CreateHangs
<1>3. ShapeInv /\ scene_text \in SceneTexts /\ KidsRight /\ NamedBy /\ (freed # {} => ~NamedApart)
  BY DEF BuildInv, InfoInv
<1>4. /\ p \in Nodes /\ x \notin nodemap /\ x # Root /\ p # x
      /\ entry'[x] \in Entries
      /\ \A y \in Nodes \ {x} : entry'[y] = entry[y]
      /\ Made' = Made \cup {x}
      /\ Bare(x)
  BY <1>2, <1>3, HangsIs
<1>5. /\ ShapeInv' /\ Children(p)' = Append(Children(p), x)
      /\ \A q \in Nodes \ {p} : Children(q)' = Children(q)
  BY <1>2, <1>3, HangsShape
<1>6. BuildInv'
  <2>1. KidsRight'
    BY <1>2, <1>3, HangsKids
  <2>2. NamedBy' /\ (freed' # {} => ~NamedApart')
    BY <1>2, <1>3, HangsNames
  <2>3. QED BY <1>5, <2>1, <2>2 DEF BuildInv
<1>7. /\ n \in Nat \ {0} /\ n \in 1 .. n /\ top \in Acts
      /\ InScene /\ outcome = "building" /\ Root \in Made
      /\ nodemap \subseteq Nodes \ {Root} /\ Root \in Nodes
      /\ building[n].node = p /\ building[n].at = at
      /\ p \in {Root} \cup nodemap /\ entry[p] = top.entry
  BY <1>1, <1>2, TopIs, NodesAre DEF WorkInv, Made
<1>8. x \in Nodes \ Made
  BY <1>2 DEF Hangs
<1>9. /\ Count'[p] = Count[p] + 1 /\ Count'[x] = 0
      /\ \A q \in Nodes \ {p} : Count'[q] = Count[q]
  <2>1. TreeState
    BY <1>3 DEF ShapeInv
  <2>2. Children(p) \in Seq(Nodes) /\ Len(Children(x)) = 0
    BY <1>4, <2>1, ChildrenAre DEF Bare
  <2>3. \A q \in Nodes : Count[q] = Len(Children(q)) /\ Count'[q] = Len(Children(q)')
    BY DEF Count
  <2>4. Len(Append(Children(p), x)) = Len(Children(p)) + 1
    BY <2>2
  <2>5. \A q \in Nodes \ {p} : Count'[q] = Count[q]
    BY <1>5, <2>3
  <2>6. Count'[p] = Count[p] + 1
    BY <1>4, <1>5, <2>3, <2>4
  <2>7. QED BY <1>4, <2>2, <2>3, <2>5, <2>6
<1>10. Count[p] = at - 1
  <2>1. Count[p] = Len(Children(p))
    BY <1>4 DEF Count
  <2>2. QED BY <1>2, <2>1 DEF Hangs
<1>11. PICK a : a = Activation(IF InMap(entry'[x].label) THEN Null ELSE x, entry'[x])
  OBVIOUS
<1>12. /\ building' = Append(building, a) /\ outcome' = outcome
       /\ UNCHANGED <<mesh, mesh_dict>>
       /\ \/ InMap(entry'[x].label) /\ nodemap' = nodemap /\ freed' = freed \cup {x}
          \/ ~InMap(entry'[x].label) /\ nodemap' = nodemap \cup {x} /\ freed' = freed
  BY <1>11 DEF CreateNode, stores
<1>13. /\ a \in Acts /\ a.at = 0 /\ a.entry = entry'[x]
       /\ \/ InMap(entry'[x].label) /\ a.node = Null
          \/ ~InMap(entry'[x].label) /\ a.node = x
  BY <1>4, <1>11 DEF Activation, Acts, Pointer
<1>14. building[n].at \in 1 .. Len(building[n].entry.kids)
  BY <1>2, <1>7 DEF Hangs
<1>15. StackOK(building) /\ Len(building) = n
  BY DEF WorkInv, StackInv
<1>16. PICK c : c = Append(building, a)
  OBVIOUS
<1>17. /\ StackOK(c) /\ Len(c) = n + 1 /\ c # <<>>
       /\ \A i \in 1 .. n : c[i] = building[i]
       /\ c[n + 1] = a
  BY <1>2, <1>13, <1>14, <1>15, <1>16, StackPushed
<1>18. \A i \in 1 .. n + 1 : i \in 1 .. n \/ i = n + 1
  BY <1>7
<1>19. building' = c /\ InScene' /\ (a.node = Null \/ a.node = x)
  BY <1>7, <1>12, <1>13, <1>16 DEF InScene
<1>20. \A i \in 1 .. n :
         \/ building[i].node = Null /\ freed # {}
         \/ building[i].node \in {Root} \cup nodemap /\ entry[building[i].node] = building[i].entry
  BY DEF WorkInv, StackInv
<1>21. StackInv'
  <2>1. ASSUME NEW i \in 1 .. n + 1
        PROVE  \/ c[i].node = Null /\ freed' # {}
               \/ c[i].node \in {Root} \cup nodemap' /\ entry'[c[i].node] = c[i].entry
    <3>1. CASE i = n + 1
      BY <1>12, <1>13, <1>17, <3>1
    <3>2. CASE i \in 1 .. n
      BY <1>4, <1>7, <1>12, <1>17, <1>20, <3>2
    <3>3. QED BY <1>18, <3>1, <3>2
  <2>2. \A i \in 1 .. n : building[i].node # x
    BY <1>4, <1>8, <1>20, NullIsNoNode
  <2>3. ASSUME NEW i \in 1 .. n + 1, NEW j \in 1 .. n + 1, c[i].node = c[j].node, c[i].node # Null
        PROVE  i = j
    <3>1. CASE i \in 1 .. n /\ j \in 1 .. n
      BY <1>17, <2>3, <3>1 DEF WorkInv, StackInv
    <3>2. CASE i = n + 1 \/ j = n + 1
      BY <1>17, <1>18, <1>19, <2>2, <2>3, <3>2
    <3>3. QED BY <1>18, <3>1, <3>2
  <2>4. Root \in Made'
    BY <1>4, <1>7
  <2>5. QED BY <1>7, <1>12, <1>17, <1>19, <2>1, <2>3, <2>4 DEF StackInv
<1>22. ProgressInv'
  <2>1. /\ \A i \in 1 .. n : building[i].node # Null => Count[building[i].node] = Going(building, i)
        /\ \A y \in {Root} \cup nodemap :
             (\A i \in 1 .. n : building[i].node # y) => Count[y] = Len(entry[y].kids)
    BY <1>7 DEF WorkInv, ProgressInv
  <2>2. ASSUME NEW i \in 1 .. n + 1, c[i].node # Null
        PROVE  Count'[c[i].node] = Going(c, i)
    <3>1. CASE i = n + 1
      <4>1. Going(c, i) = 0
        BY <1>13, <1>17, <3>1 DEF Going
      <4>2. c[i].node = x
        BY <1>17, <1>19, <2>2, <3>1
      <4>3. QED BY <1>9, <4>1, <4>2
    <3>2. CASE i = n
      <4>1. Going(c, i) = at /\ c[i].node = p
        BY <1>7, <1>17, <3>2 DEF Going
      <4>2. QED BY <1>2, <1>9, <1>10, <4>1
    <3>3. CASE i \in 1 .. n /\ i # n
      <4>1. i < n /\ i < n + 1
        BY <1>7, <3>3
      <4>2. Going(c, i) = building[i].at /\ Going(building, i) = building[i].at
        BY <1>17, <3>3, <4>1 DEF Going
      <4>3. building[i].node # p /\ building[i].node \in Nodes /\ c[i].node = building[i].node
        <5>1. c[i] = building[i] /\ building[i].node # Null
          BY <1>17, <2>2, <3>3
        <5>2. building[i].node # p
          BY <1>7, <3>3, <5>1 DEF WorkInv, StackInv
        <5>3. building[i].node \in Nodes
          BY <1>7, <1>20, <3>3, <5>1
        <5>4. QED BY <5>1, <5>2, <5>3
      <4>4. Count'[c[i].node] = Count[building[i].node]
        BY <1>9, <4>3
      <4>5. QED BY <2>1, <2>2, <3>3, <4>2, <4>3, <4>4
    <3>4. QED BY <1>18, <3>1, <3>2, <3>3
  <2>3. ASSUME NEW y \in {Root} \cup nodemap', \A i \in 1 .. n + 1 : c[i].node # y
        PROVE  Count'[y] = Len(entry'[y].kids)
    <3>1. \A i \in 1 .. n : i \in 1 .. n + 1 /\ c[i] = building[i]
      BY <1>7, <1>17
    <3>2. n + 1 \in 1 .. n + 1
      BY <1>7
    <3>3. y # p
      BY <1>7, <2>3, <3>1
    <3>4. y # x
      <4>1. a.node # y
        BY <1>17, <2>3, <3>2
      <4>2. QED BY <1>4, <1>12, <1>13, <4>1
    <3>5. y \in {Root} \cup nodemap /\ y \in Nodes
      BY <1>7, <1>12, <3>4
    <3>6. Count[y] = Len(entry[y].kids)
      BY <2>1, <2>3, <3>1, <3>5
    <3>7. QED BY <1>4, <1>9, <3>3, <3>4, <3>5, <3>6
  <2>4. QED BY <1>17, <1>19, <2>2, <2>3 DEF ProgressInv, Going
<1>23. MeshInv'
  <2>1. /\ mesh \in [Nodes -> BOOLEAN] /\ \A y \in Nodes \ Made : ~mesh[y]
        /\ \A y \in nodemap : IF Pending(y) THEN ~mesh[y] ELSE MeshSet(y)
    BY <1>7 DEF WorkInv, MeshInv
  <2>2. ASSUME NEW y \in nodemap' PROVE IF Pending(y)' THEN ~mesh'[y] ELSE MeshSet(y)'
    <3>1. CASE y = x
      <4>1. a.node = x
        BY <1>4, <1>12, <1>13, <2>2, <3>1
      <4>2. Pending(y)'
        BY <1>13, <1>17, <1>19, <3>1, <4>1 DEF Pending
      <4>3. ~mesh'[y]
        BY <1>8, <1>12, <2>1, <3>1
      <4>4. QED BY <4>2, <4>3
    <3>2. CASE y # x
      <4>1. y \in nodemap /\ y \in Nodes
        BY <1>7, <1>12, <3>2
      <4>2. ~Pending(y)'
        BY <1>7, <1>17, <1>19, <3>2, <4>1, NullIsNoNode DEF Pending
      <4>3. ~Pending(y)
        BY <1>2, <1>7 DEF Pending
      <4>4. MeshSet(y)
        BY <2>1, <4>1, <4>3
      <4>5. entry'[y] = entry[y]
        BY <1>4, <3>2, <4>1
      <4>6. MeshSet(y)'
        BY <1>12, <4>4, <4>5 DEF MeshSet
      <4>7. QED BY <4>2, <4>6
    <3>3. QED BY <3>1, <3>2
  <2>3. QED BY <1>4, <1>12, <2>1, <2>2 DEF MeshInv
<1>24. QED BY <1>6, <1>21, <1>22, <1>23 DEF WorkInv

\* A tree without links, and no node but the root, if that.
Start ==
  /\ TreeInit
  /\ nodemap = {} /\ freed = {} /\ mesh = [x \in Nodes |-> FALSE]
  /\ \/ /\ entry = [x \in Nodes |-> NoEntry]
        /\ building = <<>> /\ outcome \in {"none", "null"}
     \/ \E e \in Entries :
          /\ entry = [x \in Nodes |-> IF x = Root THEN e ELSE NoEntry]
          /\ building = <<Activation(Root, e)>> /\ outcome = "building"

\* What GetScene begins with.
LEMMA StartWork == Start => BuildInv /\ WorkInv
<1> SUFFICES ASSUME Start PROVE BuildInv /\ WorkInv
  OBVIOUS
<1>1. TreeInit /\ nodemap = {} /\ freed = {} /\ mesh = [x \in Nodes |-> FALSE]
  BY DEF Start
<1>2. TreeState
  BY <1>1, TreeInitState
<1>3. /\ parent = [x \in Nodes |-> Null]
      /\ \A x \in Nodes : Bare(x) /\ first_child[x] = Null
  BY <1>1 DEF TreeInit, Bare
<1>4. \A x \in Nodes : Len(Children(x)) = 0
  BY <1>2, <1>3, ChildrenAre
<1>5. /\ entry \in [Nodes -> Entries \cup {NoEntry}] /\ Made \in {{}, {Root}}
      /\ Root \in Nodes
  <2>1. Root \in Nodes /\ NoEntry \notin Entries
    BY NodesAre
  <2>2. CASE entry = [x \in Nodes |-> NoEntry]
    BY <2>1, <2>2 DEF Made
  <2>3. ASSUME NEW e \in Entries, entry = [x \in Nodes |-> IF x = Root THEN e ELSE NoEntry]
        PROVE  entry \in [Nodes -> Entries \cup {NoEntry}] /\ Made = {Root}
    BY <2>1, <2>3 DEF Made
  <2>4. QED BY <2>1, <2>2, <2>3 DEF Start
<1>6. ShapeInv
  <2>1. nodemap \cap freed = {} /\ nodemap \cup freed = Made \ {Root} /\ Made \ {Root} = {}
    BY <1>1, <1>5
  <2>2. parent[Root] = Null
    BY <1>3, <1>5
  <2>3. \A x, y \in nodemap : entry[x].label = entry[y].label => x = y
    BY <1>1
  <2>4. Made # {} => Root \in Made
    BY <1>5
  <2>5. QED BY <1>2, <1>3, <1>5, <2>1, <2>2, <2>3, <2>4 DEF ShapeInv
<1>7. BuildInv
  <2>1. KidsRight
    <3>1. ASSUME NEW p \in {Root} \cup nodemap PROVE Len(Children(p)) <= Len(entry[p].kids)
      <4>1. p = Root /\ Len(Children(p)) = 0
        BY <1>1, <1>4, <1>5
      <4>2. Len(entry[Root].kids) \in Nat
        <5>1. entry[Root] \in Entries \cup {NoEntry}
          BY <1>5
        <5>2. CASE entry[Root] \in Entries
          BY <5>2, NodesAre
        <5>3. CASE entry[Root] = NoEntry
          BY <5>3 DEF NoEntry
        <5>4. QED BY <5>1, <5>2, <5>3
      <4>3. QED BY <4>1, <4>2
    <3>2. \A p \in {Root} \cup nodemap : Len(Children(p)) = 0
      BY <1>1, <1>4, <1>5
    <3>3. QED BY <3>1, <3>2 DEF KidsRight
  <2>2. NamedBy
    BY <1>1 DEF NamedBy
  <2>3. QED BY <1>1, <1>6, <2>1, <2>2 DEF BuildInv
<1>8. CASE building = <<>> /\ outcome \in {"none", "null"}
  <2>1. StackOK(building)
    BY <1>8 DEF StackOK
  <2>2. ~InScene
    BY <1>8 DEF InScene
  <2>3. Len(building) = 0
    BY <1>8
  <2>4. StackInv
    BY <1>8, <2>1, <2>2, <2>3 DEF StackInv
  <2>5. ProgressInv /\ MeshInv
    BY <1>1, <2>2 DEF ProgressInv, MeshInv
  <2>6. QED BY <1>7, <2>4, <2>5 DEF WorkInv
<1>9. ASSUME NEW e \in Entries,
             entry = [x \in Nodes |-> IF x = Root THEN e ELSE NoEntry],
             building = <<Activation(Root, e)>>, outcome = "building"
      PROVE  WorkInv
  <2>1. PICK a : a = Activation(Root, e)
    OBVIOUS
  <2>2. a \in Acts /\ a.at = 0 /\ a.node = Root /\ a.entry = e
    BY <1>5, <2>1 DEF Acts, Activation, Pointer
  <2>3. building = <<a>> /\ building \in Seq(Acts) /\ Len(building) = 1 /\ building[1] = a
        /\ building # <<>>
    BY <1>9, <2>1, <2>2
  <2>4. Len(e.kids) \in Nat
    BY NodesAre
  <2>5. \A i \in 1 .. Len(building) : i = 1
    BY <2>3
  <2>6. StackOK(building)
    <3>1. \A i \in 1 .. Len(building) : building[i].at <= Len(building[i].entry.kids) + 1
      BY <2>2, <2>3, <2>4, <2>5
    <3>2. \A i \in 1 .. Len(building) - 1 : FALSE
      BY <2>3
    <3>3. QED BY <2>3, <3>1, <3>2 DEF StackOK
  <2>7. Root \in Made /\ entry[Root] = e
    BY <1>5, <1>9, NodesAre DEF Made
  <2>8. StackInv
    BY <1>9, <2>2, <2>3, <2>5, <2>6, <2>7 DEF StackInv, InScene
  <2>9. ProgressInv
    <3>1. Going(building, 1) = 0
      BY <2>2, <2>3 DEF Going
    <3>2. Count[Root] = 0
      BY <1>4, <1>5 DEF Count
    <3>3. 1 \in 1 .. Len(building)
      BY <2>3
    <3>4. QED BY <1>1, <2>2, <2>3, <2>5, <3>1, <3>2, <3>3 DEF ProgressInv
  <2>10. MeshInv
    BY <1>1 DEF MeshInv
  <2>11. QED BY <2>8, <2>9, <2>10 DEF WorkInv
<1>10. QED BY <1>7, <1>8, <1>9 DEF Start

\* No scene has been asked for.
LEMMA InitWork == SceneInit => BuildInv /\ WorkInv
<1>1. SceneInit => Start
  BY DEF SceneInit, Start
<1>2. QED BY <1>1, StartWork

\* What is built before GetScene is called is gone.
LEMMA GetSceneWork ==
  ASSUME BuildInv, InfoInv, NEW n \in SceneNames, GetScene(n)
  PROVE  BuildInv' /\ WorkInv'
<1>1. PICK i, e : /\ i = Answer(n)
                  /\ e = IF i = 0 THEN NoEntry ELSE EntryAt(n, i)
  OBVIOUS
<1>2. /\ entry' = [x \in Nodes |-> IF x = Root /\ e.type = "scene" THEN e ELSE NoEntry]
      /\ building' = IF e.type = "scene" THEN <<Activation(Root, e)>> ELSE <<>>
      /\ outcome' = IF e.type = "scene" THEN "building" ELSE "null"
  BY <1>1 DEF GetScene
<1>3. e.type = "scene" => e \in Entries
  <2>1. NoEntry.type # "scene"
    BY DEF NoEntry
  <2>2. i \in {0, EntryOf(n)}
    BY <1>1, AnswerIs
  <2>3. scene_text \in SceneTexts
    BY DEF InfoInv
  <2>4. i # 0 => e \in Entries
    BY <1>1, <2>2, <2>3, EntryFound
  <2>5. QED BY <1>1, <2>1, <2>4
<1>4. TreeInit'
  <2>1. named = Nodes /\ stale = {}
    BY DEF BuildInv, ShapeInv, TreeState
  <2>2. QED BY <2>1 DEF GetScene, TreeInit
<1>5. nodemap' = {} /\ freed' = {} /\ mesh' = [x \in Nodes |-> FALSE]
  BY DEF GetScene
<1>6. Start'
  <2>1. CASE e.type = "scene"
    BY <1>2, <1>3, <1>4, <1>5, <2>1 DEF Start, Activation
  <2>2. CASE e.type # "scene"
    BY <1>2, <1>4, <1>5, <2>2 DEF Start
  <2>3. QED BY <2>1, <2>2
<1>7. Start' => BuildInv' /\ WorkInv'
  BY StartWork, PTL
<1>8. QED BY <1>6, <1>7

----------------------------------------------------------------------------
\* The dictionaries again: their types.

\* What has been handed out.
Gifts == [name : Names \cup Textures, object : Nat, readable : BOOLEAN]

\* Get hands out an object by its name.
LEMMA AskGifts ==
  ASSUME IInv, ResTypeOK, NEW n \in Names, Ask(n)
  PROVE  given' \subseteq Gifts
<1> DEFINE g == [name |-> n, object |-> DictAfter(n)[n], readable |-> n[1] \in sound]
<1>1. DictAfter(n)[n] \in Nat
  BY AnswerIsNumber
<1>2. g \in Gifts
  BY <1>1 DEF Gifts
<1>3. given \subseteq Gifts
  BY DEF ResTypeOK, Gifts
<1>4. given' = given \cup {g}
  BY DEF Ask
<1>5. QED BY <1>2, <1>3, <1>4

\* The parts of ResTypeOK that InvariantHolds does not give.
LEMMA ResTypeParts ==
  ASSUME IInv', ResTypeOK, technique_dict' \in [Techniques -> Nat],
         gpu_program_dict' \in [Programs -> {"none", "empty", "code"}],
         DOMAIN mesh_dict' = Meshes, given' \subseteq Gifts, crashed' \in BOOLEAN
  PROVE  ResTypeOK'
BY DEF ResTypeOK, IInv, Typed, Gifts

\* LoadSubMesh keeps the types.
LEMMA LoadSubMeshType ==
  ASSUME IInv, IInv', ResTypeOK, NEW m \in Meshes, LoadSubMesh(m)
  PROVE  ResTypeOK'
<1>1. /\ technique_dict' = technique_dict /\ gpu_program_dict' = gpu_program_dict
      /\ DOMAIN mesh_dict' = DOMAIN mesh_dict /\ crashed' \in {crashed, TRUE}
  BY DEF LoadSubMesh
<1>2. text[m].desc \in Names
  BY ContentsAssumption DEF IInv, Typed
<1>3. given' \subseteq Gifts
  <2>1. CASE Ask(text[m].desc)
    BY <1>2, <2>1, AskGifts
  <2>2. CASE given' = given
    BY <2>2 DEF ResTypeOK, Gifts
  <2>3. QED BY <2>1, <2>2 DEF LoadSubMesh
<1>4. /\ technique_dict \in [Techniques -> Nat] /\ DOMAIN mesh_dict = Meshes
      /\ gpu_program_dict \in [Programs -> {"none", "empty", "code"}] /\ crashed \in BOOLEAN
  BY DEF ResTypeOK
<1>5. QED BY <1>1, <1>3, <1>4, ResTypeParts

\* So does every call of a client.
LEMMA ClientType ==
  ASSUME IInv, IInv', ResTypeOK, ClientNext
  PROVE  ResTypeOK'
<1>1. /\ technique_dict \in [Techniques -> Nat] /\ DOMAIN mesh_dict = Meshes
      /\ gpu_program_dict \in [Programs -> {"none", "empty", "code"}] /\ crashed \in BOOLEAN
      /\ given \subseteq Gifts
  BY DEF ResTypeOK, Gifts
<1>2. ASSUME NEW n \in Names, GetItem(n) PROVE ResTypeOK'
  <2>1. given' \subseteq Gifts
    BY <1>2, AskGifts DEF GetItem
  <2>2. UNCHANGED <<mesh_dict, technique_dict, gpu_program_dict, crashed>>
    BY <1>2 DEF GetItem
  <2>3. QED BY <1>1, <2>1, <2>2, ResTypeParts
<1>3. ASSUME NEW f \in Textures, GetTexture(f) PROVE ResTypeOK'
  <2>1. UNCHANGED <<mesh_dict, technique_dict, gpu_program_dict, crashed>>
    BY <1>3 DEF GetTexture
  <2>2. PICK obj : /\ obj = (IF f \in sound THEN made[f] + 1 ELSE 0)
                   /\ given' = given \cup
                        {[name |-> f, object |-> obj, readable |-> f \in sound]}
    BY <1>3 DEF GetTexture
  <2>3. made[f] \in Nat
    BY DEF IInv, Typed
  <2>4. obj \in Nat
    BY <2>2, <2>3
  <2>5. [name |-> f, object |-> obj, readable |-> f \in sound] \in Gifts
    BY <2>4 DEF Gifts
  <2>6. QED BY <1>1, <2>1, <2>2, <2>5, ResTypeParts
<1>4. ASSUME NEW m \in Meshes, GetSubMesh(m) PROVE ResTypeOK'
  BY <1>4, LoadSubMeshType DEF GetSubMesh
<1>5. ASSUME NEW t \in Techniques, GetTechnique(t) PROVE ResTypeOK'
  <2>1. UNCHANGED <<mesh_dict, gpu_program_dict, crashed>> /\ Ask(text[t].desc)
    BY <1>5 DEF GetTechnique
  <2>2. text[t].desc \in Names
    BY ContentsAssumption DEF IInv, Typed
  <2>3. given' \subseteq Gifts /\ DictAfter(text[t].desc)[text[t].desc] \in Nat
    BY <2>1, <2>2, AskGifts, AnswerIsNumber
  <2>4. technique_dict' \in [Techniques -> Nat]
    <3>1. PICK k : k = DictAfter(text[t].desc)[text[t].desc]
      OBVIOUS
    <3>2. PICK created \in BOOLEAN : technique_dict' = [technique_dict EXCEPT
            ![t] = IF Complete(t) /\ created THEN k ELSE @]
      BY <1>5, <3>1 DEF GetTechnique
    <3>3. k \in Nat
      BY <2>3, <3>1
    <3>4. CASE technique_dict' = [technique_dict EXCEPT ![t] = k]
      BY <1>1, <3>3, <3>4
    <3>5. CASE technique_dict' = [technique_dict EXCEPT ![t] = @]
      BY <1>1, <3>5
    <3>6. QED BY <3>2, <3>4, <3>5
  <2>5. QED BY <1>1, <2>1, <2>3, <2>4, ResTypeParts
<1>6. ASSUME NEW p \in Programs, GetGpuProgram(p) PROVE ResTypeOK'
  <2>1. UNCHANGED <<mesh_dict, technique_dict, given, crashed>>
    BY <1>6 DEF GetGpuProgram
  <2>2. gpu_program_dict' \in [Programs -> {"none", "empty", "code"}]
    BY <1>1, <1>6 DEF GetGpuProgram
  <2>3. QED BY <1>1, <2>1, <2>2, ResTypeParts
<1>7. ASSUME NEW f \in Files, FileAppears(f) PROVE ResTypeOK'
  <2>1. UNCHANGED <<mesh_dict, technique_dict, gpu_program_dict, given, crashed>>
    BY <1>7 DEF FileAppears, stores
  <2>2. QED BY <1>1, <2>1, ResTypeParts
<1>8. QED BY <1>2, <1>3, <1>4, <1>5, <1>6, <1>7 DEF ClientNext

\* So does every step.
LEMMA SceneType ==
  ASSUME IInv, IInv', ResTypeOK, Next
  PROVE  ResTypeOK'
<1>1. /\ technique_dict \in [Techniques -> Nat] /\ DOMAIN mesh_dict = Meshes
      /\ gpu_program_dict \in [Programs -> {"none", "empty", "code"}] /\ crashed \in BOOLEAN
      /\ given \subseteq Gifts
  BY DEF ResTypeOK, Gifts
<1>2. ASSUME UNCHANGED <<mesh_dict, technique_dict, gpu_program_dict, given>>, crashed' \in BOOLEAN
      PROVE  ResTypeOK'
  BY <1>1, <1>2, ResTypeParts
<1>3. CASE AttachNothing \/ ChildNotFound \/ Return
  BY <1>1, <1>2, <1>3 DEF AttachNothing, ChildNotFound, Return, resVars, stores
<1>4. CASE AttachLight
  <2>1. PICK n \in Names : Ask(n) /\ crashed' = (top.node = Null /\ DictAfter(n)[n] = 0)
    BY <1>4 DEF AttachLight
  <2>2. UNCHANGED <<mesh_dict, technique_dict, gpu_program_dict>>
    BY <1>4 DEF AttachLight
  <2>3. given' \subseteq Gifts
    BY <2>1, AskGifts
  <2>4. QED BY <1>1, <2>1, <2>2, <2>3, ResTypeParts
<1>5. CASE LoadMesh
  BY <1>5, LoadSubMeshType DEF LoadMesh
<1>6. CASE AttachMesh
  BY <1>1, <1>2, <1>6 DEF AttachMesh, stores
<1>7. CASE ChildOfNull
  BY <1>1, <1>2, <1>7 DEF ChildOfNull, stores
<1>8. ASSUME NEW x \in Nodes, CreateNode(x) PROVE ResTypeOK'
  <2>1. crashed' \in BOOLEAN
    <3>1. crashed' \in {FALSE, last_child[top.node] \in freed}
      BY <1>8 DEF CreateNode
    <3>2. crashed' = FALSE \/ crashed' = TRUE
      BY <3>1
    <3>3. QED BY <3>2
  <2>2. UNCHANGED <<mesh_dict, technique_dict, gpu_program_dict, given>>
    BY <1>8 DEF CreateNode, stores
  <2>3. QED BY <1>2, <2>1, <2>2
<1>9. CASE SceneStep
  BY <1>3, <1>4, <1>5, <1>6, <1>7, <1>8, <1>9 DEF SceneStep
<1>10. CASE LoadGroup
  <2>1. loading \in Loadings /\ text \in Contents
    BY <1>10 DEF IInv, Typed, LoadGroup
  <2>2. GroupsOf(loading.mesh) \in Seq(Names) /\ Len(loading.groups) \in Nat
    BY <2>1, ContentsAssumption DEF GroupsOf, Loadings
  <2>3. GroupsOf(loading.mesh)[Len(loading.groups) + 1] \in Names
    BY <1>10, <2>2 DEF LoadGroup
  <2>4. Ask(GroupsOf(loading.mesh)[Len(loading.groups) + 1])
    BY <1>10 DEF LoadGroup
  <2>5. given' \subseteq Gifts
    BY <2>3, <2>4, AskGifts
  <2>6. UNCHANGED <<mesh_dict, technique_dict, gpu_program_dict, crashed>>
    BY <1>10 DEF LoadGroup
  <2>7. QED BY <1>1, <2>5, <2>6, ResTypeParts
<1>11. CASE FinishSubMesh
  <2>1. /\ UNCHANGED <<technique_dict, gpu_program_dict, given, crashed>>
        /\ DOMAIN mesh_dict' = DOMAIN mesh_dict
    BY <1>11 DEF FinishSubMesh
  <2>2. QED BY <1>1, <2>1, ResTypeParts
<1>12. ASSUME NEW n \in SceneNames, GetScene(n) PROVE ResTypeOK'
  BY <1>1, <1>2, <1>12 DEF GetScene, stores
<1>13. QED BY <1>9, <1>10, <1>11, <1>12, ClientType DEF Next, Step, LoadNext

\* The dictionaries are empty.
LEMMA InitType == SceneInit => ResTypeOK
<1> SUFFICES ASSUME SceneInit PROVE ResTypeOK
  OBVIOUS
<1>1. /\ dict = [n \in Names |-> 0] /\ made = [f \in Packages \cup Textures |-> 0]
      /\ mesh_dict = [m \in Meshes |-> NoMesh] /\ technique_dict = [t \in Techniques |-> 0]
      /\ gpu_program_dict = [p \in Programs |-> "none"]
      /\ given = {} /\ crashed = FALSE
  BY DEF SceneInit, ResInit
<1>2. DOMAIN mesh_dict = Meshes /\ technique_dict \in [Techniques -> Nat]
  BY <1>1
<1>3. gpu_program_dict \in [Programs -> {"none", "empty", "code"}]
  BY <1>1
<1>4. dict \in [Names -> Nat] /\ made \in [Packages \cup Textures -> Nat]
  BY <1>1
<1>5. QED BY <1>1, <1>2, <1>3, <1>4 DEF ResTypeOK

----------------------------------------------------------------------------
\* Every step.

\* The node whose mesh is asked for has none yet.
LEMMA TopMesh ==
  ASSUME BuildInv, WorkInv, building # <<>>, top.at = 0, NEW x \in nodemap, x = top.node
  PROVE  x \in Nodes /\ entry[x] = top.entry /\ ~mesh[x] /\ entry[x] \in Entries
<1>1. /\ top = building[Len(building)] /\ InScene /\ nodemap \subseteq Made /\ Made \subseteq Nodes
      /\ \/ top.node = Null
         \/ entry[top.node] = top.entry
  BY TopIs DEF WorkInv
<1>2. x \in Nodes /\ x # Null /\ entry[x] = top.entry
  BY <1>1, NullIsNoNode
<1>3. Pending(x)
  BY <1>1 DEF Pending
<1>4. ~mesh[x]
  BY <1>1, <1>3 DEF WorkInv, MeshInv
<1>5. entry[x] \in Entries
  BY <1>1 DEF BuildInv, ShapeInv, Made
<1>6. QED BY <1>2, <1>4, <1>5

\* The three ways in which an activation is done with what it attaches.
LEMMA AttachNothingWork ==
  ASSUME BuildInv, WorkInv, AttachNothing
  PROVE  BuildInv' /\ WorkInv'
<1>1. /\ building # <<>> /\ top.at = 0 /\ top.entry.attach = Null /\ building' = Advanced
      /\ UNCHANGED BuildVars /\ UNCHANGED <<outcome, mesh_dict, mesh, entry>>
  BY DEF AttachNothing, Working, BuildVars, resVars, stores
<1>2. mesh \in [Nodes -> BOOLEAN]
  BY DEF WorkInv, MeshInv
<1>3. ASSUME NEW x \in nodemap, x = top.node PROVE MeshSet(x)'
  BY <1>1, <1>3, TopMesh DEF MeshSet
<1>4. /\ outcome' = outcome /\ mesh_dict' = mesh_dict /\ mesh' \in [Nodes -> BOOLEAN]
      /\ \A x \in Nodes : x # top.node => mesh'[x] = mesh[x]
  BY <1>1, <1>2
<1>5. WorkInv'
  BY <1>1, <1>3, <1>4, AdvanceWork
<1>6. QED BY <1>1, <1>5, BuildKept

\* A light leaves the meshes alone.
LEMMA AttachLightWork ==
  ASSUME BuildInv, WorkInv, AttachLight
  PROVE  BuildInv' /\ WorkInv'
<1>1. /\ building # <<>> /\ top.at = 0 /\ top.entry.type = "light" /\ building' = Advanced
      /\ UNCHANGED BuildVars /\ UNCHANGED <<outcome, mesh_dict, mesh, entry>>
  BY DEF AttachLight, Working, BuildVars
<1>2. mesh \in [Nodes -> BOOLEAN]
  BY DEF WorkInv, MeshInv
<1>3. ASSUME NEW x \in nodemap, x = top.node PROVE MeshSet(x)'
  BY <1>1, <1>3, TopMesh DEF MeshSet
<1>4. /\ outcome' = outcome /\ mesh_dict' = mesh_dict /\ mesh' \in [Nodes -> BOOLEAN]
      /\ \A x \in Nodes : x # top.node => mesh'[x] = mesh[x]
  BY <1>1, <1>2
<1>5. WorkInv'
  BY <1>1, <1>3, <1>4, AdvanceWork
<1>6. QED BY <1>1, <1>5, BuildKept

\* A mesh is attached if there is one.
LEMMA AttachMeshWork ==
  ASSUME BuildInv, WorkInv, AttachMesh
  PROVE  BuildInv' /\ WorkInv'
<1>1. /\ building # <<>> /\ top.at = 0 /\ top.entry.attach # Null /\ top.entry.type = "mesh"
      /\ building' = Advanced /\ mesh_dict[top.entry.attach] # NoMesh
      /\ UNCHANGED BuildVars /\ UNCHANGED <<outcome, mesh_dict, entry>>
  BY DEF AttachMesh, Working, BuildVars, stores
<1>2. mesh \in [Nodes -> BOOLEAN]
  BY DEF WorkInv, MeshInv
<1>3. PICK found : found = (mesh_dict[top.entry.attach] # NullMesh)
  OBVIOUS
<1>4. mesh' = [x \in Nodes |-> mesh[x] \/ (x = top.node /\ found)]
  BY <1>3 DEF AttachMesh
<1>5. mesh' \in [Nodes -> BOOLEAN]
  BY <1>4
<1>6. ASSUME NEW x \in Nodes, x # top.node PROVE mesh'[x] = mesh[x]
  <2>1. mesh'[x] = (mesh[x] \/ (x = top.node /\ found))
    BY <1>4
  <2>2. mesh[x] \in BOOLEAN
    BY <1>2
  <2>3. QED BY <1>6, <2>1, <2>2
<1>7. ASSUME NEW x \in nodemap, x = top.node PROVE MeshSet(x)'
  <2>1. x \in Nodes /\ entry[x] = top.entry /\ ~mesh[x]
    BY <1>1, <1>7, TopMesh
  <2>2. mesh'[x] <=> found
    BY <1>4, <1>7, <2>1
  <2>3. QED BY <1>1, <1>3, <2>1, <2>2 DEF MeshSet
<1>8. outcome' = outcome /\ mesh_dict' = mesh_dict
  BY <1>1
<1>9. WorkInv'
  BY <1>1, <1>5, <1>6, <1>7, <1>8, AdvanceWork
<1>10. QED BY <1>1, <1>9, BuildKept

\* A mesh is asked for once.
LEMMA MeshAskedOnce ==
  ASSUME ResTypeOK, NEW m \in Meshes, LoadSubMesh(m), loading = NotLoading
  PROVE  /\ \A k \in Meshes : mesh_dict[k] # NoMesh => mesh_dict'[k] = mesh_dict[k]
         /\ LoadingInv'
<1>1. mesh_dict[m] = NoMesh /\ DOMAIN mesh_dict = Meshes
  BY DEF LoadSubMesh, ResTypeOK
<1>2. CASE m \notin sound
  <2>1. mesh_dict' = [mesh_dict EXCEPT ![m] = NullMesh] /\ loading' = NotLoading
    BY <1>2 DEF LoadSubMesh
  <2>2. QED BY <1>1, <2>1 DEF LoadingInv
<1>3. CASE m \in sound
  <2>1. mesh_dict' = mesh_dict /\ (loading' = NotLoading \/ loading'.mesh = m)
    BY <1>3 DEF LoadSubMesh
  <2>2. QED BY <1>1, <2>1 DEF LoadingInv
<1>4. QED BY <1>2, <1>3

\* A mesh is loaded while a scene or a client waits for it.
LEMMA LoadNextWork ==
  ASSUME IInv, ResTypeOK, BuildInv, WorkInv, LoadingInv,
         LoadNext, UNCHANGED <<treeVars, sceneVars>>
  PROVE  BuildInv' /\ WorkInv' /\ LoadingInv'
<1>1. UNCHANGED BuildVars /\ UNCHANGED <<building, outcome, mesh>>
  BY DEF BuildVars, sceneVars
<1>2. CASE LoadGroup
  <2>1. loading \in Loadings
    BY <1>2 DEF IInv, Typed, LoadGroup
  <2>2. PICK k : loading' = [loading EXCEPT !.groups = Append(@, k)]
    BY <1>2 DEF LoadGroup
  <2>3. loading'.mesh = loading.mesh
    BY <2>1, <2>2 DEF Loadings
  <2>4. mesh_dict' = mesh_dict /\ loading # NotLoading
    BY <1>2 DEF LoadGroup
  <2>5. LoadingInv'
    BY <2>3, <2>4 DEF LoadingInv
  <2>6. BuildInv' /\ WorkInv'
    BY <1>1, <2>4, ResourceWork
  <2>7. QED BY <2>5, <2>6
<1>3. CASE FinishSubMesh
  <2>1. /\ loading # NotLoading /\ loading' = NotLoading
        /\ mesh_dict' = [mesh_dict EXCEPT ![loading.mesh] = <<loading.desc>> \o loading.groups]
    BY <1>3 DEF FinishSubMesh
  <2>2. mesh_dict[loading.mesh] = NoMesh /\ DOMAIN mesh_dict = Meshes
    BY <2>1 DEF LoadingInv, ResTypeOK
  <2>3. \A k \in Meshes : mesh_dict[k] # NoMesh => mesh_dict'[k] = mesh_dict[k]
    <3>1. PICK v : mesh_dict' = [mesh_dict EXCEPT ![loading.mesh] = v]
      BY <2>1
    <3>2. QED BY <2>2, <3>1
  <2>4. BuildInv' /\ WorkInv'
    BY <1>1, <2>3, ResourceWork
  <2>5. QED BY <2>1, <2>4 DEF LoadingInv
<1>4. QED BY <1>2, <1>3 DEF LoadNext

\* Clients call between two scenes.
LEMMA ClientNextWork ==
  ASSUME IInv, ResTypeOK, BuildInv, WorkInv, LoadingInv,
         ClientNext, UNCHANGED <<treeVars, sceneVars>>
  PROVE  BuildInv' /\ WorkInv' /\ LoadingInv'
<1>1. UNCHANGED BuildVars /\ UNCHANGED <<building, outcome, mesh>> /\ loading = NotLoading
  BY DEF BuildVars, sceneVars, ClientNext
<1>2. ASSUME NEW m \in Meshes, GetSubMesh(m) PROVE BuildInv' /\ WorkInv' /\ LoadingInv'
  <2>1. LoadSubMesh(m)
    BY <1>2 DEF GetSubMesh
  <2>2. LoadingInv' /\ \A k \in Meshes : mesh_dict[k] # NoMesh => mesh_dict'[k] = mesh_dict[k]
    BY <1>1, <2>1, MeshAskedOnce
  <2>3. QED BY <1>1, <2>2, ResourceWork
<1>3. ASSUME mesh_dict' = mesh_dict, loading' = loading PROVE BuildInv' /\ WorkInv' /\ LoadingInv'
  <2>1. LoadingInv'
    BY <1>1, <1>3 DEF LoadingInv
  <2>2. BuildInv' /\ WorkInv'
    BY <1>1, <1>3, ResourceWork
  <2>3. QED BY <2>1, <2>2
<1>4. \/ \E m \in Meshes : GetSubMesh(m)
      \/ mesh_dict' = mesh_dict /\ loading' = loading
  BY DEF ClientNext, GetItem, GetTexture, GetTechnique, GetGpuProgram, FileAppears, stores
<1>5. QED BY <1>2, <1>3, <1>4

AllInv == IInv /\ ResTypeOK /\ InfoInv /\ BuildInv /\ WorkInv /\ LoadingInv

\* The entry of the innermost activation names the child.
LEMMA ChildIs ==
  ASSUME BuildInv, WorkInv, AtChild
  PROVE  Child \in SceneNames
<1>1. building # <<>> /\ top.at \in 1 .. Len(top.entry.kids)
  BY DEF AtChild, Working
<1>2. top \in Acts
  BY <1>1, TopIs DEF WorkInv
<1>3. top.entry \in Entries
  BY <1>2 DEF Acts
<1>4. QED BY <1>1, <1>3, NodesAre DEF Child

\* What GetScene does of its own.
LEMMA SceneStepWork ==
  ASSUME AllInv, SceneStep
  PROVE  InfoInv' /\ BuildInv' /\ WorkInv' /\ LoadingInv'
<1>1. ResTypeOK /\ InfoInv /\ BuildInv /\ WorkInv /\ LoadingInv /\ IInv
  BY DEF AllInv
<1>2. CASE AttachNothing
  <2>1. UNCHANGED <<scene_text, info, asked>> /\ loading' = NotLoading
    BY <1>2 DEF AttachNothing, Working, resVars
  <2>2. InfoInv' /\ LoadingInv'
    BY <1>1, <2>1, NotAskedInfoInv DEF LoadingInv
  <2>3. QED BY <1>1, <1>2, <2>2, AttachNothingWork
<1>3. CASE AttachLight
  <2>1. UNCHANGED <<scene_text, info, asked>> /\ loading' = NotLoading
    BY <1>3 DEF AttachLight, Working
  <2>2. InfoInv' /\ LoadingInv'
    BY <1>1, <2>1, NotAskedInfoInv DEF LoadingInv
  <2>3. QED BY <1>1, <1>3, <2>2, AttachLightWork
<1>4. CASE AttachMesh
  <2>1. UNCHANGED <<scene_text, info, asked>> /\ loading' = NotLoading
    BY <1>4 DEF AttachMesh, Working
  <2>2. InfoInv' /\ LoadingInv'
    BY <1>1, <2>1, NotAskedInfoInv DEF LoadingInv
  <2>3. QED BY <1>1, <1>4, <2>2, AttachMeshWork
<1>5. CASE LoadMesh
  <2>1. UNCHANGED <<scene_text, info, asked>> /\ loading = NotLoading
    BY <1>5 DEF LoadMesh, Working, sceneVars
  <2>2. UNCHANGED BuildVars /\ UNCHANGED <<building, outcome, mesh>>
    BY <1>5 DEF LoadMesh, sceneVars, BuildVars
  <2>3. PICK m \in Meshes : LoadSubMesh(m)
    BY <1>5 DEF LoadMesh
  <2>4. LoadingInv' /\ \A k \in Meshes : mesh_dict[k] # NoMesh => mesh_dict'[k] = mesh_dict[k]
    BY <1>1, <2>1, <2>3, MeshAskedOnce
  <2>5. BuildInv' /\ WorkInv'
    BY <1>1, <2>2, <2>4, ResourceWork
  <2>6. QED BY <1>1, <2>1, <2>4, <2>5, NotAskedInfoInv
<1>6. CASE ChildNotFound
  <2>1. /\ AtChild /\ AskInfo(Child) /\ scene_text' = scene_text
        /\ UNCHANGED BuildVars /\ mesh' = mesh /\ building' = <<>> /\ outcome' = "null"
        /\ loading' = NotLoading
    BY <1>6 DEF ChildNotFound, AtChild, Working, BuildVars, resVars
  <2>2. InfoInv' /\ LoadingInv'
    BY <1>1, <2>1, ChildIs, AskInfoInv DEF LoadingInv
  <2>3. BuildInv' /\ WorkInv'
    BY <1>1, <2>1, FailWork, BuildKept
  <2>4. QED BY <2>2, <2>3
<1>7. CASE ChildOfNull
  <2>1. /\ AtChild /\ AskInfo(Child) /\ scene_text' = scene_text
        /\ UNCHANGED BuildVars /\ UNCHANGED <<building, outcome, mesh>> /\ mesh_dict' = mesh_dict
        /\ loading' = NotLoading
    BY <1>7 DEF ChildOfNull, AtChild, Working, BuildVars, stores
  <2>2. InfoInv' /\ LoadingInv'
    BY <1>1, <2>1, ChildIs, AskInfoInv DEF LoadingInv
  <2>3. BuildInv' /\ WorkInv'
    BY <1>1, <2>1, ResourceWork
  <2>4. QED BY <2>2, <2>3
<1>8. ASSUME NEW x \in Nodes, CreateNode(x)
      PROVE  InfoInv' /\ BuildInv' /\ WorkInv' /\ LoadingInv'
  <2>1. AtChild /\ AskInfo(Child) /\ scene_text' = scene_text /\ loading' = NotLoading
    BY <1>8 DEF CreateNode, AtChild, Working
  <2>2. InfoInv' /\ LoadingInv'
    BY <1>1, <2>1, ChildIs, AskInfoInv DEF LoadingInv
  <2>3. BuildInv' /\ WorkInv'
    BY <1>1, <1>8, CreateWork
  <2>4. QED BY <2>2, <2>3
<1>9. CASE Return
  <2>1. UNCHANGED <<scene_text, info, asked>> /\ loading' = NotLoading
    BY <1>9 DEF Return, Working, resVars
  <2>2. InfoInv' /\ LoadingInv'
    BY <1>1, <2>1, NotAskedInfoInv DEF LoadingInv
  <2>3. QED BY <1>1, <1>9, <2>2, ReturnWork
<1>10. QED BY <1>2, <1>3, <1>4, <1>5, <1>6, <1>7, <1>8, <1>9 DEF SceneStep

\* Every step keeps the invariant.
LEMMA AllNext == AllInv /\ [Next]_vars => AllInv'
<1> SUFFICES ASSUME AllInv, [Next]_vars PROVE AllInv'
  OBVIOUS
<1>1. ResTypeOK /\ InfoInv /\ BuildInv /\ WorkInv /\ LoadingInv /\ IInv
  BY DEF AllInv
<1>2. IInv'
  BY <1>1, NextIInv
<1>3. CASE SceneStep
  <2>1. Next
    BY <1>3 DEF Next, Step
  <2>2. QED BY <1>1, <1>2, <1>3, <2>1, SceneType, SceneStepWork DEF AllInv
<1>4. CASE LoadNext /\ UNCHANGED <<treeVars, sceneVars>>
  <2>1. Next
    BY <1>4 DEF Next, Step
  <2>2. UNCHANGED <<scene_text, info, asked>>
    BY <1>4 DEF sceneVars
  <2>3. InfoInv'
    BY <1>1, <2>2, NotAskedInfoInv
  <2>4. QED BY <1>1, <1>2, <1>4, <2>1, <2>3, SceneType, LoadNextWork DEF AllInv
<1>5. ASSUME NEW n \in SceneNames, GetScene(n) PROVE AllInv'
  <2>1. Next
    BY <1>5 DEF Next
  <2>2. AskInfo(n) /\ scene_text' = scene_text /\ loading' = NotLoading
    BY <1>5 DEF GetScene
  <2>3. InfoInv' /\ LoadingInv'
    BY <1>1, <2>2, AskInfoInv DEF LoadingInv
  <2>4. BuildInv' /\ WorkInv'
    BY <1>1, <1>5, GetSceneWork
  <2>5. QED BY <1>1, <1>2, <2>1, <2>3, <2>4, SceneType DEF AllInv
<1>6. CASE building = <<>> /\ ClientNext /\ UNCHANGED <<treeVars, sceneVars>>
  <2>1. Next
    BY <1>6 DEF Next
  <2>2. UNCHANGED <<scene_text, info, asked>>
    BY <1>6 DEF sceneVars
  <2>3. InfoInv'
    BY <1>1, <2>2, NotAskedInfoInv
  <2>4. QED BY <1>1, <1>2, <1>6, <2>1, <2>3, SceneType, ClientNextWork DEF AllInv
<1>7. CASE UNCHANGED vars
  <2>1. UNCHANGED <<treeVars, resVars, sceneVars>>
    BY <1>7 DEF vars
  <2>2. /\ UNCHANGED <<scene_text, info, asked>> /\ UNCHANGED BuildVars
        /\ UNCHANGED <<building, outcome, mesh>>
    BY <2>1 DEF sceneVars, BuildVars
  <2>3. UNCHANGED <<mesh_dict, technique_dict, gpu_program_dict, given, crashed, loading>>
    BY <2>1 DEF resVars, stores
  <2>4. InfoInv' /\ BuildInv' /\ WorkInv'
    BY <1>1, <2>2, <2>3, NotAskedInfoInv, ResourceWork
  <2>5. LoadingInv' /\ ResTypeOK'
    BY <1>1, <1>2, <2>3 DEF LoadingInv, ResTypeOK, IInv, Typed
  <2>6. QED BY <1>2, <2>4, <2>5 DEF AllInv
<1>8. QED BY <1>3, <1>4, <1>5, <1>6, <1>7 DEF Next, Step

\* It holds at first.
LEMMA AllInit == SceneInit => AllInv
<1> SUFFICES ASSUME SceneInit PROVE AllInv
  OBVIOUS
<1>1. IInv /\ ResTypeOK /\ BuildInv /\ WorkInv
  BY InitIInv, InitType, InitWork
<1>2. LoadingInv
  BY DEF SceneInit, ResInit, LoadingInv
<1>3. /\ scene_text \in SceneTexts /\ info = [n \in SceneNames |-> 0] /\ asked = {}
  BY DEF SceneInit
<1>4. InfoInv
  BY <1>3 DEF InfoInv, AllOrNone, InfoAnswerRight
<1>5. QED BY <1>1, <1>2, <1>4 DEF AllInv

\* It holds.
LEMMA AllHolds == Spec => []AllInv
BY AllInit, AllNext, PTL DEF Spec

----------------------------------------------------------------------------
\* What follows.

\* A mesh whose vertex description cannot be had is the only one that LoadSubMesh
\* does not survive.
LEMMA LoadSubMeshCrash ==
  ASSUME IInv, IInv', NEW m \in Meshes, LoadSubMesh(m), ~crashed, crashed'
  PROVE  m \in sound /\ (text[m].desc[1] \notin sound \/ ~Holds(text[m].desc))
<1>1. m \in sound
  BY DEF LoadSubMesh
<1>2. text[m].desc \in Names
  BY ContentsAssumption DEF IInv, Typed
<1>3. PICK n \in Names : n = text[m].desc
  BY <1>2
<1>4. Ask(n) /\ DictAfter(n)[n] = 0 /\ UNCHANGED <<text, sound>>
  BY <1>1, <1>3 DEF LoadSubMesh
<1>5. PICK g : /\ g = [name |-> n, object |-> DictAfter(n)[n], readable |-> n[1] \in sound]
               /\ g \in given'
  BY <1>4 DEF Ask
<1>6. g.name = n /\ g.object = 0 /\ g.readable = (n[1] \in sound)
  BY <1>4, <1>5
<1>7. ~(g.readable /\ Holds(n)')
  BY <1>5, <1>6 DEF IInv, FoundWhereItStands
<1>8. Holds(n)' <=> Holds(n)
  BY <1>4 DEF Holds
<1>9. n[1] \notin sound \/ ~Holds(n)
  BY <1>6, <1>7, <1>8
<1>10. QED BY <1>1, <1>3, <1>9

\* Such a mesh is what CrashOnlyIf admits.
LEMMA BadMesh ==
  ASSUME NEW m \in Meshes, m \in sound, text[m].desc[1] \notin sound \/ ~Holds(text[m].desc),
         UNCHANGED <<text, sound>>, crashed'
  PROVE  CrashOnlyIf'
BY DEF CrashOnlyIf, Holds

\* A node that has been refused by the map.
LEMMA FreedNode ==
  ASSUME BuildInv, freed # {}, scene_text' = scene_text, entry'[Root] = entry[Root]
  PROVE  CrashOnlyIf'
<1>1. ~NamedApart
  BY DEF BuildInv
<1>2. ~NamedApart'
  BY <1>1, MentionedKept
<1>3. QED BY <1>2 DEF CrashOnlyIf

\* Every step that ends the program is one of those admitted.
LEMMA CrashStep == AllInv /\ CrashOnlyIf /\ [Next]_vars => CrashOnlyIf'
<1> SUFFICES ASSUME AllInv, CrashOnlyIf, [Next]_vars PROVE CrashOnlyIf'
  OBVIOUS
<1>1. IInv /\ IInv' /\ BuildInv /\ WorkInv /\ InfoInv /\ crashed \in BOOLEAN
  BY NextIInv DEF AllInv, ResTypeOK
<1>2. CASE crashed /\ UNCHANGED <<text, sound, entry, scene_text>>
  <2>1. NamedApart' <=> NamedApart
    BY <1>2, MentionedKept
  <2>2. QED BY <1>2, <2>1 DEF CrashOnlyIf, Holds
<1>3. CASE ~crashed'
  BY <1>3 DEF CrashOnlyIf
<1>4. CASE ~crashed /\ SceneStep
  <2>1. building # <<>> /\ top.node = Null => freed # {}
    <3>1. building # <<>> => (top.node = Null /\ freed # {}) \/ top.node \in {Root} \cup nodemap
      BY <1>1, TopIs DEF WorkInv
    <3>2. Null \notin {Root} \cup nodemap
      BY <1>1, NodesAre, NullIsNoNode DEF BuildInv, ShapeInv, Made
    <3>3. QED BY <3>1, <3>2
  <2>2. CASE AttachNothing \/ ChildNotFound \/ Return
    BY <1>3, <1>4, <2>2 DEF AttachNothing, ChildNotFound, Return, resVars
  <2>3. CASE AttachLight
    <3>1. /\ building # <<>> /\ UNCHANGED <<scene_text, entry>>
          /\ (crashed' => top.node = Null)
      BY <2>3 DEF AttachLight, Working
    <3>2. QED BY <1>1, <1>3, <2>1, <3>1, FreedNode
  <2>4. CASE AttachMesh
    <3>1. /\ building # <<>> /\ UNCHANGED <<scene_text, entry>>
          /\ (crashed' => top.node = Null)
      BY <2>4 DEF AttachMesh, Working
    <3>2. QED BY <1>1, <1>3, <2>1, <3>1, FreedNode
  <2>5. CASE ChildOfNull
    <3>1. /\ building # <<>> /\ UNCHANGED <<scene_text, entry>> /\ top.node = Null
      BY <2>5 DEF ChildOfNull, AtChild, Working
    <3>2. QED BY <1>1, <1>3, <2>1, <3>1, FreedNode
  <2>6. CASE LoadMesh
    <3>1. PICK m \in Meshes : LoadSubMesh(m)
      BY <2>6 DEF LoadMesh
    <3>2. UNCHANGED <<text, sound>>
      BY <3>1 DEF LoadSubMesh
    <3>3. QED BY <1>1, <1>3, <1>4, <3>1, <3>2, LoadSubMeshCrash, BadMesh
  <2>7. ASSUME NEW x \in Nodes, CreateNode(x) PROVE CrashOnlyIf'
    <3>1. scene_text' = scene_text /\ x # Root /\ entry'[Root] = entry[Root]
      <4>1. Hangs(top.node, top.at, x) /\ ShapeInv /\ scene_text \in SceneTexts
        BY <1>1, <2>7, CreateHangs DEF BuildInv, InfoInv
      <4>2. PICK p, i : p = top.node /\ i = top.at
        OBVIOUS
      <4>3. Hangs(p, i, x)
        BY <4>1, <4>2
      <4>4. x # Root /\ \A y \in Nodes \ {x} : entry'[y] = entry[y]
        BY <4>1, <4>3, HangsIs
      <4>5. scene_text' = scene_text
        BY <2>7 DEF CreateNode
      <4>6. QED BY <4>4, <4>5, NodesAre
    <3>2. crashed' => freed # {}
      BY <2>7 DEF CreateNode
    <3>3. QED BY <1>1, <1>3, <3>1, <3>2, FreedNode
  <2>8. QED BY <1>4, <2>2, <2>3, <2>4, <2>5, <2>6, <2>7 DEF SceneStep
<1>5. CASE crashed /\ SceneStep
  BY <1>5 DEF SceneStep, AttachNothing, AttachLight, LoadMesh, AttachMesh, ChildNotFound,
              ChildOfNull, CreateNode, Return, AtChild, Working
<1>6. CASE LoadNext /\ UNCHANGED <<treeVars, sceneVars>>
  <2>1. UNCHANGED <<crashed, text, sound, entry, scene_text>>
    BY <1>6 DEF LoadNext, LoadGroup, FinishSubMesh, sceneVars
  <2>2. QED BY <1>1, <1>2, <1>3, <2>1
<1>7. ASSUME NEW n \in SceneNames, GetScene(n) PROVE CrashOnlyIf'
  BY <1>3, <1>7 DEF GetScene
<1>8. CASE ClientNext
  <2>1. ~crashed
    BY <1>8 DEF ClientNext
  <2>2. ASSUME NEW m \in Meshes, GetSubMesh(m) PROVE CrashOnlyIf'
    <3>1. LoadSubMesh(m) /\ UNCHANGED <<text, sound>>
      BY <2>2 DEF GetSubMesh, LoadSubMesh
    <3>2. QED BY <1>1, <1>3, <2>1, <3>1, LoadSubMeshCrash, BadMesh
  <2>3. (\E m \in Meshes : GetSubMesh(m)) \/ crashed' = crashed
    BY <1>8 DEF ClientNext, GetItem, GetTexture, GetTechnique, GetGpuProgram, FileAppears
  <2>4. QED BY <1>3, <2>1, <2>2, <2>3
<1>9. CASE UNCHANGED vars
  <2>1. UNCHANGED <<treeVars, resVars, sceneVars>>
    BY <1>9 DEF vars
  <2>2. UNCHANGED <<crashed, text, sound, entry, scene_text>>
    BY <2>1 DEF resVars, sceneVars
  <2>3. QED BY <1>1, <1>2, <1>3, <2>2
<1>10. QED BY <1>1, <1>4, <1>5, <1>6, <1>7, <1>8, <1>9 DEF Next, Step

\* The program dereferences NULL or what is freed only for a name that comes twice
\* below a root, or a mesh without its vertex description (CrashOnlyIf).
THEOREM CrashOnlyIfProved == Spec => []CrashOnlyIf
<1>1. SceneInit => CrashOnlyIf
  BY DEF SceneInit, ResInit, CrashOnlyIf
<1>2. QED BY <1>1, AllHolds, CrashStep, PTL DEF Spec

\* GetSceneNodeInfo finds an entry when and only when the parser reaches it
\* (InfoAnswerRight).
THEOREM InfoAnswersProved == Spec => []InfoAnswerRight
<1>1. AllInv => InfoAnswerRight
  BY DEF AllInv, InfoInv
<1>2. QED BY <1>1, AllHolds, PTL

\* The dictionaries, the map and the activations have the types of the code
\* (TypeOK).
THEOREM TypeCorrect == Spec => []TypeOK
<1>1. ASSUME AllInv PROVE TypeOK
  <2>1. ResTypeOK /\ InfoInv /\ BuildInv /\ WorkInv
    BY <1>1 DEF AllInv
  <2>2. \A n \in SceneNames : info[n] \in {0} \cup Parsed(n[1])
    BY <2>1, EntryOfIs DEF InfoInv
  <2>3. nodemap \subseteq Nodes \ {Root} /\ freed \subseteq Nodes \ nodemap
    BY <2>1 DEF BuildInv, ShapeInv, Made
  <2>4. /\ building \in Seq(Acts)
        /\ \A i \in 1 .. Len(building) : building[i].at <= Len(building[i].entry.kids) + 1
    BY <2>1 DEF WorkInv, StackInv, StackOK
  <2>5. ASSUME NEW a \in ToSet(building)
        PROVE  a.node \in Pointer /\ a.at \in 0 .. Len(a.entry.kids) + 1
    <3>1. PICK i \in DOMAIN building : a = building[i]
      BY <2>5, Zenon DEF ToSet
    <3>2. i \in 1 .. Len(building) /\ a \in Acts
      BY <2>4, <3>1
    <3>3. a.node \in Pointer /\ a.entry \in Entries /\ a.at \in Nat
      BY <3>2 DEF Acts
    <3>4. Len(a.entry.kids) \in Nat
      BY <3>3, NodesAre
    <3>5. a.at <= Len(a.entry.kids) + 1
      BY <2>4, <3>1, <3>2
    <3>6. QED BY <3>3, <3>4, <3>5
  <2>6. outcome \in {"none", "building", "scene", "null"}
    BY <2>1 DEF WorkInv, StackInv
  <2>7. QED BY <2>1, <2>2, <2>3, <2>5, <2>6 DEF TypeOK
<1>2. AllInv => TypeOK
  BY <1>1
<1>3. QED BY <1>2, AllHolds, PTL

\* The two ways to a node agree, whatever has been refused or has failed
\* (MapAgreesWithTree).
THEOREM MapAgreesProved == Spec => []MapAgreesWithTree
<1>1. ASSUME AllInv, InScene
      PROVE  /\ {x \in Nodes \ {Root} : Reaches(parent, x, Root)} = nodemap \cup freed
             /\ ToSet(Traverse(Root)) = {Root} \cup nodemap \cup freed
             /\ \A x, y \in nodemap : entry[x].label = entry[y].label => x = y
  <2>1. /\ TreeState /\ nodemap \cup freed = Made \ {Root} /\ Root \in Made
        /\ \A x \in Nodes \ Made : Bare(x)
        /\ \A x \in Made \ {Root} : Reaches(parent, x, Root)
        /\ \A x, y \in nodemap : entry[x].label = entry[y].label => x = y
    BY <1>1 DEF AllInv, BuildInv, ShapeInv, WorkInv, StackInv
  <2>2. Root \in Nodes /\ Made \subseteq Nodes
    BY NodesAre DEF Made
  <2>3. ASSUME NEW x \in Nodes \ Made PROVE ~Reaches(parent, x, Root)
    <3>1. Closed(parent, {x}) /\ x # Root
      BY <2>1, <2>3 DEF Bare, Closed
    <3>2. QED BY <3>1 DEF Reaches
  <2>4. {x \in Nodes \ {Root} : Reaches(parent, x, Root)} = nodemap \cup freed
    BY <2>1, <2>2, <2>3
  <2>5. Tree!ToSet(Tree!Traverse(Root)) = Tree!Sub(Root)
    <3>1. Tree!TreeInv /\ Tree!IsFiniteSet(Nodes) /\ Root \in Nodes \ stale
      BY <2>1, <2>2, NodesAre DEF TreeState, IsFiniteSet, Tree!IsFiniteSet
    <3>2. QED BY <3>1, NullIsNoNode, Tree!TraverseHolds, Zenon
  <2>6. ToSet(Traverse(Root)) = Tree!Sub(Root)
    BY <2>5, SameTraverse, SameSet
  <2>7. Tree!Sub(Root) = {x \in Nodes : Reaches(parent, x, Root)}
    BY <2>1, SameReaches DEF Tree!Sub, TreeState
  <2>8. Reaches(parent, Root, Root)
    BY <2>2, NullIsNoNode DEF Reaches
  <2>9. {x \in Nodes : Reaches(parent, x, Root)}
          = {Root} \cup {x \in Nodes \ {Root} : Reaches(parent, x, Root)}
    BY <2>2, <2>8
  <2>10. QED BY <2>1, <2>4, <2>6, <2>7, <2>9
<1>2. AllInv => MapAgreesWithTree
  BY <1>1 DEF MapAgreesWithTree, InScene
<1>3. QED BY <1>2, AllHolds, PTL

\* A scene that is returned is the one the files describe (SceneMirrorsText).
THEOREM SceneMirrorsProved == Spec => []SceneMirrorsText
<1>1. ASSUME AllInv, outcome = "scene", NamedApart
      PROVE  /\ freed = {}
             /\ \A x \in nodemap \cup {Root} :
                  [i \in DOMAIN Chain(first_child[x]) |-> entry[Chain(first_child[x])[i]]]
                    = [i \in DOMAIN entry[x].kids |->
                         EntryAt(entry[x].kids[i], EntryOf(entry[x].kids[i]))]
             /\ \A x \in nodemap :
                  mesh[x] <=> /\ entry[x].type = "mesh" /\ entry[x].attach # Null
                              /\ mesh_dict[entry[x].attach] # NullMesh
  <2>1. /\ BuildInv /\ ProgressInv /\ MeshInv /\ InScene /\ building = <<>> /\ Root \in Made
        /\ Len(building) = 0
    BY <1>1 DEF AllInv, WorkInv, StackInv, InScene
  <2>2. freed = {}
    BY <1>1, <2>1 DEF BuildInv
  <2>3. TreeState /\ \A x \in nodemap \cup {Root} : x \in Nodes /\ entry[x] \in Entries
    BY <2>1 DEF BuildInv, ShapeInv, Made
  <2>4. ASSUME NEW x \in nodemap \cup {Root}
        PROVE  [i \in DOMAIN Chain(first_child[x]) |-> entry[Chain(first_child[x])[i]]]
                 = [i \in DOMAIN entry[x].kids |->
                      EntryAt(entry[x].kids[i], EntryOf(entry[x].kids[i]))]
    <3>1. \A i \in 1 .. Len(building) : building[i].node # x
      BY <2>1
    <3>2. Count[x] = Len(entry[x].kids)
      BY <2>1, <3>1 DEF ProgressInv
    <3>3. Len(Children(x)) = Len(entry[x].kids)
      BY <2>3, <3>2 DEF Count
    <3>4. DOMAIN Children(x) = 1 .. Len(Children(x))
      BY <2>3, ChildrenAre
    <3>5. entry[x].kids \in Seq(SceneNames)
      BY <2>3 DEF Entries
    <3>6. DOMAIN Children(x) = DOMAIN entry[x].kids
      BY <3>3, <3>4, <3>5
    <3>7. \A i \in 1 .. Len(Children(x)) :
            entry[Children(x)[i]] = EntryAt(entry[x].kids[i], EntryOf(entry[x].kids[i]))
      BY <2>1 DEF BuildInv, KidsRight
    <3>8. [i \in DOMAIN Children(x) |-> entry[Children(x)[i]]]
            = [i \in DOMAIN entry[x].kids |->
                 EntryAt(entry[x].kids[i], EntryOf(entry[x].kids[i]))]
      BY <3>4, <3>6, <3>7
    <3>9. QED BY <3>8 DEF Children
  <2>5. ASSUME NEW x \in nodemap
        PROVE  mesh[x] <=> /\ entry[x].type = "mesh" /\ entry[x].attach # Null
                           /\ mesh_dict[entry[x].attach] # NullMesh
    <3>1. ~Pending(x)
      BY <2>1 DEF Pending
    <3>2. MeshSet(x)
      BY <2>1, <3>1 DEF MeshInv
    <3>3. QED BY <3>2 DEF MeshSet
  <2>6. QED BY <2>2, <2>4, <2>5
<1>2. AllInv => SceneMirrorsText
  BY <1>1 DEF SceneMirrorsText
<1>3. QED BY <1>2, AllHolds, PTL
=============================================================================
