----------------------------- MODULE Resources ------------------------------
(***************************************************************************)
(* azer/resources: the dictionaries behind ResourceManager.  Materials,    *)
(* vertex descriptions and lights live several to a file and are asked for *)
(* as "file:item"; a miss loads the whole file.  MaterialManager,          *)
(* GeometryManager and SceneManager do this word for word alike, so one    *)
(* set of files, Packages, stands for the three kinds.  A mesh file is one *)
(* SubMesh, which refers to a vertex description and to materials; a       *)
(* technique refers to a vertex description and to shader programs.        *)
(*                                                                         *)
(* An object is told from another of the same name by the number of the    *)
(* load that made it (0: the NULL pointer).  Files are added or repaired   *)
(* between the calls of a client, and do not change otherwise.             *)
(***************************************************************************)
EXTENDS Naturals, Sequences, FiniteSets

CONSTANTS
  Packages,    \* files of materials, of vertex descriptions, of lights
  Items,       \* what may stand in one
  Meshes, Techniques, Programs, Textures,   \* files that are one object each
  Contents,    \* what the files may say, see text
  Sounds,      \* which of them may be sound at first
  MaxCalls     \* bound on the calls of clients; the code has none

Files == Packages \cup Meshes \cup Techniques \cup Programs \cup Textures
Names == Packages \X Items

\* A file is of one kind, and the names in it are written "file:item".
ASSUME KindsApart == Packages \cap Textures = {} /\ Names \cap Textures = {}
ASSUME ContentsAssumption ==
  \A c \in Contents :
    /\ \A m \in Meshes : c[m].desc \in Names /\ c[m].groups \in Seq(Names)
    /\ \A t \in Techniques : c[t].desc \in Names

VARIABLES
  text,      \* text[p], p a package: its items; text[m], m a mesh: its desc and
             \* the materials of its groups; text[t]: its desc and programs
  sound,     \* the files that are there and can be parsed
  dict,      \* material_dict_, vertex_desc_dict_, light_dict_
  made,      \* made[f]: how often the objects of f have been made
  mesh_dict, \* mesh_dict_[m]: NoMesh, NullMesh, or the vertex description of
             \* the SubMesh and the materials of its groups
  technique_dict,     \* technique_dict_[t]: 0, or the vertex description in it
  gpu_program_dict,   \* gpu_program_dict_[p]: "none", "empty" or "code"
  loading,   \* the call of LoadSubMesh that is under way, or NotLoading
  given,     \* what Get... has returned to anyone, and whether the file was sound
  crashed,   \* a NULL pointer has been dereferenced
  calls      \* calls made by clients

stores == <<dict, made, mesh_dict, technique_dict, gpu_program_dict>>
resVars == <<text, sound, stores, loading, given, crashed, calls>>

NotLoading == [mesh |-> "none"]
NoMesh == <<>>
NullMesh == <<0>>

ResInit ==
  /\ text \in Contents
  /\ sound \in Sounds
  /\ dict = [n \in Names |-> 0]
  /\ made = [f \in Packages \cup Textures |-> 0]
  /\ mesh_dict = [m \in Meshes |-> NoMesh]
  /\ technique_dict = [t \in Techniques |-> 0]
  /\ gpu_program_dict = [p \in Programs |-> "none"]
  /\ loading = NotLoading
  /\ given = {}
  /\ crashed = FALSE
  /\ calls = 0

----------------------------------------------------------------------------
\* GetMaterial, GetVertexDesc, GetLight: Find, on a miss Load, and Find again.

Holds(n) == n[2] \in text[n[1]]

\* Mutant of Misses: what was not found once is not looked for again.
MissesOnce(n) == dict[n] = 0 /\ n[1] \in sound /\ ~\E g \in given : g.name = n /\ g.object = 0

Misses(n) == dict[n] = 0 /\ n[1] \in sound

\* Mutant of DictAfter: the dictionary is not looked at first.
LoadsAlways(n) ==
  IF n[1] \in sound
  THEN [m \in Names |-> IF m[1] = n[1] /\ Holds(m) THEN made[n[1]] + 1 ELSE dict[m]]
  ELSE dict

\* The dictionary after n has been asked for: if n is not in it and its file can
\* be read and parsed, every item of the file is stored, over what was there.
DictAfter(n) ==
  IF Misses(n)
  THEN [m \in Names |-> IF m[1] = n[1] /\ Holds(m) THEN made[n[1]] + 1 ELSE dict[m]]
  ELSE dict

MadeAfter(n) == IF Misses(n) THEN [made EXCEPT ![n[1]] = @ + 1] ELSE made

\* The call returns DictAfter(n)[n].
Ask(n) ==
  /\ dict' = DictAfter(n)
  /\ made' = MadeAfter(n)
  /\ given' = given \cup
       {[name |-> n, object |-> DictAfter(n)[n], readable |-> n[1] \in sound]}

Called == calls < MaxCalls /\ calls' = calls + 1

GetItem(n) ==
  /\ Called
  /\ Ask(n)
  /\ UNCHANGED <<text, sound, mesh_dict, technique_dict, gpu_program_dict, loading, crashed>>

\* texture_dict_ is searched, but LoadTexture's result is not stored in it.
GetTexture(f) ==
  /\ Called
  /\ LET obj == IF f \in sound THEN made[f] + 1 ELSE 0
     IN  /\ given' = given \cup {[name |-> f, object |-> obj, readable |-> f \in sound]}
         /\ made' = [made EXCEPT ![f] = IF obj = 0 THEN @ ELSE obj]
  /\ UNCHANGED <<text, sound, dict, mesh_dict, technique_dict, gpu_program_dict,
                 loading, crashed>>

----------------------------------------------------------------------------
\* GetSubMesh: what LoadSubMesh returns is stored, NULL too.

\* The call reaches LoadSubMesh: no file, or the vertex description is fetched.
\* VertexData dereferences it unchecked.
LoadSubMesh(m) ==
  /\ mesh_dict[m] = NoMesh
  /\ IF m \notin sound
     THEN /\ mesh_dict' = [mesh_dict EXCEPT ![m] = NullMesh]
          /\ UNCHANGED <<dict, made, given, loading, crashed>>
     ELSE /\ Ask(text[m].desc)
          /\ IF DictAfter(text[m].desc)[text[m].desc] = 0
             THEN crashed' = TRUE /\ UNCHANGED loading
             ELSE /\ loading' = [mesh |-> m, groups |-> <<>>,
                                 desc |-> DictAfter(text[m].desc)[text[m].desc]]
                  /\ UNCHANGED crashed
          /\ UNCHANGED mesh_dict
  /\ UNCHANGED <<text, sound, technique_dict, gpu_program_dict>>

GetSubMesh(m) == Called /\ LoadSubMesh(m)

GroupsOf(m) == text[m].groups

\* One turn of the loop over the groups.  A group whose material is not found
\* keeps a NULL pointer, and the mesh is made all the same.
LoadGroup ==
  /\ loading # NotLoading
  /\ ~crashed
  /\ Len(loading.groups) < Len(GroupsOf(loading.mesh))
  /\ LET n == GroupsOf(loading.mesh)[Len(loading.groups) + 1]
     IN  /\ Ask(n)
         /\ loading' = [loading EXCEPT !.groups = Append(@, DictAfter(n)[n])]
  /\ UNCHANGED <<text, sound, mesh_dict, technique_dict, gpu_program_dict, crashed, calls>>

FinishSubMesh ==
  /\ loading # NotLoading
  /\ Len(loading.groups) = Len(GroupsOf(loading.mesh))
  /\ mesh_dict' = [mesh_dict EXCEPT
       ![loading.mesh] = <<loading.desc>> \o loading.groups]
  /\ loading' = NotLoading
  /\ UNCHANGED <<text, sound, dict, made, technique_dict, gpu_program_dict, given,
                 crashed, calls>>

----------------------------------------------------------------------------
\* GetTechnique.  Only a technique that is complete is stored.
Complete(t) == \A p \in text[t].programs : p \in sound

\* The vertex description is fetched before the programs are looked for.
\* CreateTechnique may fail on the device.
GetTechnique(t) ==
  /\ Called
  /\ technique_dict[t] = 0
  /\ t \in sound
  /\ Ask(text[t].desc)
  /\ \E created \in BOOLEAN :
       technique_dict' = [technique_dict EXCEPT
         ![t] = IF Complete(t) /\ created THEN DictAfter(text[t].desc)[text[t].desc] ELSE @]
  /\ UNCHANGED <<text, sound, mesh_dict, gpu_program_dict, loading, crashed>>

\* GetGpuProgram stores the empty string for a file that is not there.
GetGpuProgram(p) ==
  /\ Called
  /\ gpu_program_dict[p] = "none"
  /\ gpu_program_dict' = [gpu_program_dict EXCEPT
       ![p] = IF p \in sound THEN "code" ELSE "empty"]
  /\ UNCHANGED <<text, sound, dict, made, mesh_dict, technique_dict, loading, given, crashed>>

\* The user of the engine puts a file in place, or repairs it.
FileAppears(f) ==
  /\ f \notin sound
  /\ sound' = sound \cup {f}
  /\ UNCHANGED <<text, stores, loading, given, crashed, calls>>

ClientNext ==
  /\ loading = NotLoading
  /\ ~crashed
  /\ \/ \E n \in Names : GetItem(n)
     \/ \E f \in Textures : GetTexture(f)
     \/ \E m \in Meshes : GetSubMesh(m)
     \/ \E t \in Techniques : GetTechnique(t)
     \/ \E p \in Programs : GetGpuProgram(p)
     \/ \E f \in Files : FileAppears(f)

LoadNext == LoadGroup \/ FinishSubMesh

ResNext == ClientNext \/ LoadNext

ResSpec == ResInit /\ [][ResNext]_resVars

----------------------------------------------------------------------------
\* Properties.

ResTypeOK ==
  /\ dict \in [Names -> Nat]
  /\ made \in [Packages \cup Textures -> Nat]
  /\ technique_dict \in [Techniques -> Nat]
  /\ gpu_program_dict \in [Programs -> {"none", "empty", "code"}]
  /\ DOMAIN mesh_dict = Meshes
  /\ given \subseteq [name : Names \cup Textures, object : Nat, readable : BOOLEAN]
  /\ crashed \in BOOLEAN

\* Something was asked for that the file f, though it can be read, does not hold.
AskedInVain(f) == \E n \in Names : \E g \in given :
                    n[1] = f /\ g.name = n /\ g.readable /\ ~Holds(n)

\* "The following object shared by the same name" (resource_manager.h), with the
\* one exception the code makes.  Of one name of a package there are two objects,
\* in a mesh, a technique or a client, only if somebody asked the same file for an
\* item it does not hold: that reloads the file and replaces its objects.
SharedUnlessAskedInVain ==
  \A g, h \in given :
    g.name = h.name /\ g.name \in Names /\ 0 \notin {g.object, h.object}
      => g.object = h.object \/ AskedInVain(g.name[1])

\* An item that the dictionary hands out belongs to the last load of its file: a
\* load never leaves some of the older objects behind among the newer.
OneLoadPerFile == \A n \in Names : dict[n] \in {0, made[n[1]]}

\* Whoever asks for an item gets one when and only when its file can be read and
\* holds it, whatever was asked or failed before: other than a mesh or a program,
\* an item that was not found is looked for again.
FoundWhereItStands ==
  \A n \in Names, g \in given :
    g.name = n => (g.object # 0 <=> g.readable /\ Holds(n))
=============================================================================
