------------------------------- MODULE Scenes -------------------------------
(***************************************************************************)
(* azer/resources/scene_manager and azer/scene: GetScene reads the         *)
(* descriptions of nodes from scene files and builds a tree of SceneNodes, *)
(* while the dictionaries of Resources serve the meshes and the lights,    *)
(* and TreeNode the links.  One thread does all this, one scene at a time: *)
(* a client drops a scene before it asks for the next (two scenes share    *)
(* nothing but the descriptions).                                          *)
(*                                                                         *)
(* Every node is in two places: in the intrusive tree, which owns nothing, *)
(* and in the map of its root, which owns it.  A node is put into the tree *)
(* first, and the map may refuse it.                                       *)
(*                                                                         *)
(* Scene files do not change while the program runs.  One that is missing  *)
(* or is no JSON says as much as an empty one.                             *)
(***************************************************************************)
EXTENDS TreeNode, Resources

CONSTANTS
  SceneFiles,
  SceneTexts    \* what the scene files may say, see scene_text

SceneNames == SceneFiles \X Items

\* The types of entries, and an entry that cannot be parsed.
Types == {"scene", "mesh", "light", "camera", "unknown", "bad"}

ASSUME NodesAreNumbered ==
  IsFiniteSet(Nodes) /\ Nodes # {} /\ Nodes = 1 .. Cardinality(Nodes)

\* Null stands for the root among those that mention a name.
ASSUME NullIsNoName == Null \notin SceneNames

\* What an entry may be; only meshes and lights are attached, and anything else is
\* NOTREACHED.
Entries ==
  {e \in [label : Items, type : Types, attach : {Null} \cup Meshes \cup Names,
          kids : Seq(SceneNames)] :
     \/ e.attach = Null
     \/ e.type = "mesh" /\ e.attach \in Meshes
     \/ e.type = "light" /\ e.attach \in Names}

ASSUME SceneTextsAssumption ==
  \A t \in SceneTexts, s \in SceneFiles : t[s] \in Seq(Entries)

VARIABLES
  scene_text,  \* scene_text[s]: a sequence of [label, type, attach, kids]
  info,        \* scene_node_dict_: 0, or the place of the entry in its file
  asked,       \* every <<name, entry>> GetSceneNodeInfo has returned
  entry,       \* entry[x]: the description the node x was made from
  mesh,        \* mesh[x]: AttachMesh has been called for x
  nodemap,     \* nodemap_ of the root
  freed,       \* nodes the map refused: destroyed, but still linked
  building,    \* the activations of RecursiveCreateNode, the innermost last
  outcome      \* of GetScene: "none", "building", "scene" or "null"

sceneVars == <<scene_text, info, asked, entry, mesh, nodemap, freed, building, outcome>>
vars == <<treeVars, resVars, sceneVars>>

\* The root is the first node that is made.
Root == 1
NoEntry == [type |-> "none", kids |-> <<>>]

SceneInit ==
  /\ TreeInit
  /\ ResInit
  /\ scene_text \in SceneTexts
  /\ info = [n \in SceneNames |-> 0]
  /\ asked = {}
  /\ entry = [x \in Nodes |-> NoEntry]
  /\ mesh = [x \in Nodes |-> FALSE]
  /\ nodemap = {}
  /\ freed = {}
  /\ building = <<>>
  /\ outcome = "none"

----------------------------------------------------------------------------
\* GetSceneNodeInfo.

\* ParseSceneNodeInfo stops at an entry with an unknown field, or with children
\* in what is no scene.  Nobody looks at what it returns: the entries before
\* that one are used.
Bad(e) == e.type = "bad" \/ (e.type # "scene" /\ e.kids # <<>>)
Parsed(s) == {i \in DOMAIN scene_text[s] : \A j \in 1 .. i : ~Bad(scene_text[s][j])}

\* AddSceneNode refuses the i-th entry of s.
Taken(s, i) ==
  \/ info[<<s, scene_text[s][i].label>>] # 0
  \/ \E j \in 1 .. i - 1 : scene_text[s][j].label = scene_text[s][i].label

\* The entries are added in their order, up to the first that is refused.
Added(s) == {i \in Parsed(s) : \A j \in 1 .. i : ~Taken(s, j)}

\* Mutant of InfoAfter: only what was asked for is remembered.
InfoOfOne(n) ==
  LET at == {i \in Added(n[1]) : scene_text[n[1]][i].label = n[2]}
  IN  IF info[n] # 0 \/ at = {} THEN info ELSE [info EXCEPT ![n] = CHOOSE i \in at : TRUE]

InfoAfter(n) ==
  IF info[n] # 0 THEN info
  ELSE [m \in SceneNames |->
          LET at == {i \in Added(n[1]) : m = <<n[1], scene_text[n[1]][i].label>>}
          IN  IF at = {} THEN info[m] ELSE CHOOSE i \in at : TRUE]

\* What the call returns: NULL, too, if an entry of the file was refused.
Answer(n) ==
  IF info[n] = 0 /\ Added(n[1]) # Parsed(n[1]) THEN 0 ELSE InfoAfter(n)[n]

AskInfo(n) ==
  /\ info' = InfoAfter(n)
  /\ asked' = asked \cup {<<n, Answer(n)>>}

EntryAt(n, i) == scene_text[n[1]][i]

----------------------------------------------------------------------------
\* GetScene and RecursiveCreateNode.

Activation(x, e) == [node |-> x, entry |-> e, at |-> 0]

\* GetScene(n) up to the first RecursiveCreateNode.  What the client had of the
\* scene before is gone.
GetScene(n) ==
  /\ building = <<>> /\ loading = NotLoading /\ ~crashed
  /\ Called
  /\ AskInfo(n)
  /\ LET i == Answer(n)
         e == IF i = 0 THEN NoEntry ELSE EntryAt(n, i)
         made_root == e.type = "scene"
     IN  /\ entry' = [x \in Nodes |-> IF x = Root /\ made_root THEN e ELSE NoEntry]
         /\ building' = IF made_root THEN <<Activation(Root, e)>> ELSE <<>>
         /\ outcome' = IF made_root THEN "building" ELSE "null"
  /\ parent' = [x \in Nodes |-> Null]
  /\ first_child' = parent' /\ last_child' = parent'
  /\ next_sibling' = parent' /\ prev_sibling' = parent'
  /\ mesh' = [x \in Nodes |-> FALSE]
  /\ nodemap' = {} /\ freed' = {}
  /\ UNCHANGED <<named, stale, text, sound, stores, loading, given, crashed, scene_text>>

top == Last(building)
Advanced == [building EXCEPT ![Len(building)].at = @ + 1]
Working == building # <<>> /\ loading = NotLoading /\ ~crashed

\* Nothing to attach, or a light.  The test for NULL is the wrong way round: a
\* light that is found is not attached, a NULL one is.
AttachNothing ==
  /\ Working /\ top.at = 0 /\ top.entry.attach = Null
  /\ building' = Advanced
  /\ UNCHANGED <<treeVars, resVars, scene_text, info, asked, entry, mesh, nodemap, freed,
                 outcome>>

AttachLight ==
  /\ Working /\ top.at = 0 /\ top.entry.attach # Null /\ top.entry.type = "light"
  /\ \E n \in Names :
       /\ n = top.entry.attach
       /\ Ask(n)
       /\ crashed' = (top.node = Null /\ DictAfter(n)[n] = 0)
  /\ building' = Advanced
  /\ UNCHANGED <<treeVars, text, sound, mesh_dict, technique_dict, gpu_program_dict, loading,
                 calls, scene_text, info, asked, entry, mesh, nodemap, freed, outcome>>

\* GetMesh: the mesh is loaded first if the dictionary does not know it.
LoadMesh ==
  /\ Working /\ top.at = 0 /\ top.entry.attach # Null /\ top.entry.type = "mesh"
  /\ \E m \in Meshes : m = top.entry.attach /\ LoadSubMesh(m)
  /\ UNCHANGED <<treeVars, calls, sceneVars>>

\* Mutant of AttachMesh: the test for NULL is the wrong way round here too.
AttachMeshInverted ==
  /\ Working /\ top.at = 0 /\ top.entry.attach # Null /\ top.entry.type = "mesh"
  /\ mesh_dict[top.entry.attach] # NoMesh
  /\ mesh' = [x \in Nodes |->
       mesh[x] \/ (x = top.node /\ mesh_dict[top.entry.attach] = NullMesh)]
  /\ building' = Advanced
  /\ UNCHANGED <<treeVars, resVars, scene_text, info, asked, entry, nodemap, freed, outcome>>

\* A mesh that cannot be had is only logged.
AttachMesh ==
  /\ Working /\ top.at = 0 /\ top.entry.attach # Null /\ top.entry.type = "mesh"
  /\ mesh_dict[top.entry.attach] # NoMesh
  /\ LET found == mesh_dict[top.entry.attach] # NullMesh
     IN  /\ mesh' = [x \in Nodes |-> mesh[x] \/ (x = top.node /\ found)]
         /\ crashed' = (found /\ top.node = Null)
  /\ building' = Advanced
  /\ UNCHANGED <<treeVars, text, sound, stores, loading, given, calls, scene_text, info,
                 asked, entry, nodemap, freed, outcome>>

Child == top.entry.kids[top.at]
AtChild == Working /\ top.at \in 1 .. Len(top.entry.kids)

\* Mutant of ChildNotFound: the NULL pointer is not looked at.
ChildNotChecked ==
  /\ AtChild
  /\ Answer(Child) = 0
  /\ AskInfo(Child)
  /\ crashed' = TRUE
  /\ UNCHANGED <<treeVars, text, sound, stores, loading, given, calls, scene_text, entry, mesh,
                 nodemap, freed, building, outcome>>

\* A child whose description is not found: the whole call fails, and the tree
\* goes with it.
ChildNotFound ==
  /\ AtChild
  /\ Answer(Child) = 0
  /\ AskInfo(Child)
  /\ building' = <<>>
  /\ outcome' = "null"
  /\ UNCHANGED <<treeVars, resVars, scene_text, entry, mesh, nodemap, freed>>

\* CreateNode on a NULL pointer.
ChildOfNull ==
  /\ AtChild
  /\ Answer(Child) # 0 /\ top.node = Null
  /\ AskInfo(Child)
  /\ crashed' = TRUE
  /\ UNCHANGED <<treeVars, text, sound, stores, loading, given, calls, scene_text, entry, mesh,
                 nodemap, freed, building, outcome>>

\* The name of an entry, among those the map holds.
InMap(label) == \E x \in nodemap : entry[x].label = label

Fresh == {x \in Nodes : entry[x] = NoEntry}

\* Mutant of CreateNode: the map takes every node.
CreateNodeUnchecked(x) ==
  /\ AtChild
  /\ Answer(Child) # 0 /\ top.node # Null
  /\ AskInfo(Child)
  /\ x \in Fresh /\ \A y \in Fresh : x <= y
  /\ AddChild(top.node, x)
  /\ entry' = [entry EXCEPT ![x] = EntryAt(Child, Answer(Child))]
  /\ nodemap' = nodemap \cup {x}
  /\ building' = Append(building, Activation(x, entry'[x]))
  /\ UNCHANGED <<resVars, scene_text, mesh, freed, outcome>>

\* CreateNode: AddChild, and then root_->AddDescent.  A node that the map
\* refuses is destroyed where it hangs, and RecursiveCreateNode goes on with
\* NULL in its place.  AddChild behind such a node writes to freed memory, which
\* may end the program.
CreateNode(x) ==
  /\ AtChild
  /\ Answer(Child) # 0 /\ top.node # Null
  /\ AskInfo(Child)
  /\ x \in Fresh /\ \A y \in Fresh : x <= y
  /\ AddChild(top.node, x)
  /\ entry' = [entry EXCEPT ![x] = EntryAt(Child, Answer(Child))]
  /\ LET refused == InMap(entry'[x].label)
     IN  /\ nodemap' = IF refused THEN nodemap ELSE nodemap \cup {x}
         /\ freed' = IF refused THEN freed \cup {x} ELSE freed
         /\ building' = Append(building, Activation(IF refused THEN Null ELSE x, entry'[x]))
  /\ crashed' \in {FALSE, last_child[top.node] \in freed}
  /\ UNCHANGED <<text, sound, stores, loading, given, calls, scene_text, mesh, outcome>>

\* Mutants of Return: the loop of the caller skips a child; it does not go on.
ReturnTwice ==
  /\ Working /\ top.at = Len(top.entry.kids) + 1
  /\ LET rest == Front(building)
     IN  /\ building' = IF rest = <<>> THEN rest ELSE [rest EXCEPT ![Len(rest)].at = @ + 2]
         /\ outcome' = IF rest = <<>> THEN "scene" ELSE outcome
  /\ UNCHANGED <<treeVars, resVars, scene_text, info, asked, entry, mesh, nodemap, freed>>

ReturnStays ==
  /\ Working /\ top.at = Len(top.entry.kids) + 1
  /\ building' = Front(building)
  /\ outcome' = IF building' = <<>> THEN "scene" ELSE outcome
  /\ UNCHANGED <<treeVars, resVars, scene_text, info, asked, entry, mesh, nodemap, freed>>

\* All children are made: back to the loop of the caller, or out of GetScene.
Return ==
  /\ Working /\ top.at = Len(top.entry.kids) + 1
  /\ LET rest == Front(building)
     IN  /\ building' = IF rest = <<>> THEN rest ELSE [rest EXCEPT ![Len(rest)].at = @ + 1]
         /\ outcome' = IF rest = <<>> THEN "scene" ELSE outcome
  /\ UNCHANGED <<treeVars, resVars, scene_text, info, asked, entry, mesh, nodemap, freed>>

SceneStep ==
  \/ AttachNothing \/ AttachLight \/ LoadMesh \/ AttachMesh
  \/ ChildNotFound \/ ChildOfNull
  \/ \E x \in Nodes : CreateNode(x)
  \/ Return

\* What the one thread does next while a call of it is under way.
Step == SceneStep \/ (LoadNext /\ UNCHANGED <<treeVars, sceneVars>>)

Next ==
  \/ Step
  \/ \E n \in SceneNames : GetScene(n)
  \/ building = <<>> /\ ClientNext /\ UNCHANGED <<treeVars, sceneVars>>

\* A call that has begun goes on.
Spec == SceneInit /\ [][Next]_vars /\ WF_vars(Step)

----------------------------------------------------------------------------
\* Properties.

TypeOK ==
  /\ ResTypeOK
  /\ \A n \in SceneNames : info[n] \in {0} \cup Parsed(n[1])
  /\ nodemap \subseteq Nodes \ {Root}
  /\ freed \subseteq Nodes \ nodemap
  /\ \A a \in ToSet(building) : a.node \in Pointer /\ a.at \in 0 .. Len(a.entry.kids) + 1
  /\ outcome \in {"none", "building", "scene", "null"}

\* No name twice in s.
NamesOnce(s) ==
  \A i, j \in Parsed(s) : scene_text[s][i].label = scene_text[s][j].label => i = j

\* The first entry of n's file that has n's name, or 0.
EntryOf(n) ==
  LET at == {i \in Parsed(n[1]) : EntryAt(n, i).label = n[2]}
  IN  IF at = {} THEN 0 ELSE CHOOSE i \in at : \A j \in at : i <= j

\* GetSceneNodeInfo answers what the file says, whatever has been asked, and
\* whatever has failed, before: if the file gives no name twice, it finds an
\* entry when and only when the parser has reached it.
InfoAnswerRight ==
  \A q \in asked : NamesOnce(q[1][1]) => q[2] = EntryOf(q[1])

\* What the node asked for is made of, by the text alone.
KidsOf(n) == IF EntryOf(n) = 0 THEN <<>> ELSE EntryAt(n, EntryOf(n)).kids

Mentioned ==
  {n \in SceneNames :
     \A S \in SUBSET SceneNames :
       ToSet(entry[Root].kids) \subseteq S /\ (\A m \in S : ToSet(KidsOf(m)) \subseteq S)
         => n \in S}

Mentions ==
  {<<Null, i, entry[Root].kids[i]>> : i \in DOMAIN entry[Root].kids} \cup
  UNION {{<<n, i, KidsOf(n)[i]>> : i \in DOMAIN KidsOf(n)} : n \in Mentioned}

\* No item's name is mentioned at two places below the root.
NamedApart == \A a, b \in Mentions : a[3][2] = b[3][2] => a = b

\* The two ways to a node agree: the tree, walked upwards or downwards, leads to
\* the nodes of the map and, besides, only to those the map has refused; and
\* there is one node of a name in the map.
MapAgreesWithTree ==
  outcome \in {"building", "scene"} =>
    /\ {x \in Nodes \ {Root} : Reaches(parent, x, Root)} = nodemap \cup freed
    /\ ToSet(Traverse(Root)) = {Root} \cup nodemap \cup freed
    /\ \A x, y \in nodemap : entry[x].label = entry[y].label => x = y

\* A scene that is returned is the one the files describe: if their names are
\* apart, no node of it has been destroyed, the children of every node are the
\* described ones in their order, and a node has its mesh unless there is none.
SceneMirrorsText ==
  outcome = "scene" /\ NamedApart =>
    /\ freed = {}
    /\ \A x \in nodemap \cup {Root} :
         LET kids == entry[x].kids
         IN  [i \in DOMAIN Chain(first_child[x]) |-> entry[Chain(first_child[x])[i]]]
               = [i \in DOMAIN kids |-> EntryAt(kids[i], EntryOf(kids[i]))]
    /\ \A x \in nodemap :
         mesh[x] <=> /\ entry[x].type = "mesh" /\ entry[x].attach # Null
                     /\ mesh_dict[entry[x].attach] # NullMesh

\* The program dereferences a NULL or a destroyed node only if a name comes twice
\* below one root, or a mesh can be read and its vertex description cannot.  A
\* description that is missing, a light, a material or a mesh never lead there.
CrashOnlyIf ==
  crashed =>
    \/ ~NamedApart
    \/ \E m \in Meshes :
         /\ m \in sound
         /\ text[m].desc[1] \notin sound \/ ~Holds(text[m].desc)

\* GetScene comes to an end, though the entries of the files may contain each
\* other: the second node of a name ends it at the latest.
GetSceneReturns == building # <<>> ~> (building = <<>> \/ crashed)
=============================================================================
