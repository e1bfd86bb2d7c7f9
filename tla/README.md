# azer: a TLA+ model of the shader compiler, the resources and the scene graph

azer is a C++ rendering engine (Windows, Direct3D 11). Its largest part with
logic of its own is `src/azer/afx`, the compiler of the AFX shader language:
a preprocessor, a bison grammar that builds an AST, a linker for included files,
a dependency calculation, and code generators for HLSL and C++. Around it lie
resource managers with dictionaries by name, a scene graph that is built from
description files, a terrain grid with a quad tree, widgets and a rendering abstraction. All of it
runs on one thread. What is hard here is not interleaving: it is pointer
structures that are rewritten link by link, recursion over data that grows during
the recursion, errors that occur deep inside and must reach the top, and tables
whose keys do not say what they seem to say.

## Inventory

| component | code | state | operations | what makes it correct |
|---|---|---|---|---|
| intrusive tree | `base/tree_node.h` | five links and a name per node | AddChild, RemoveChild, InsertBefore, InsertAfter, find, traverse | the links describe one ordered forest; traversals visit each node once and end |
| AST building | `afx/compiler/tree_node.h`, `astnode.cc`, `afxlang.y` | parentless sibling chains, then trees | AddSibling, AddChildren, grammar actions | nothing is lost or listed twice on the way from chain to tree (two rules of the grammar do list a node twice) |
| preprocessor tokenizer | `afx/preprocessor/tokenizer.cc` | position, state, what was carried over (rest_), line | GetNextToken per part | nothing is added or lost between parts; errors name the right line |
| preprocessor | `afx/preprocessor` | defined_, includes_, package_, failed_ | one action per statement (#if is a token without a rule) | macros are visible where they must be |
| linker | `afx/linker/linker.cc`, `program.cc` | tree of Programs, tree of contexts, failed_ | Load, OnAddInclude, ParseASTreeRecursive | each include is loaded, parsed before its includer; no error is lost |
| symbol contexts | `afx/compiler/context.cc` | scopes, tables of functions, types, variables; parent context | AddVariableDecl, AddStructDecl, LookupSymbol, LookupFunction, ... | a name means the nearest declaration; no two definitions share a key |
| validators | `afx/compiler/*_validator.cc` | types written into AST nodes | visitors | each expression has one type or an error |
| dependency calculation | `afx/linker/depend_calactor.cc` | depend_, uniforms_, uni_depend_, inserted_ | Calc | complete, exact, finite |
| code generation | `afx/codegen` | text | GenCode per stage | definitions precede uses, none is written more often than it has names |
| techniques, afxc | `afx/linker/technique_parser.cc`, `afx/afxc` | techniques by name | Parse, file output | the right entry per stage |
| resource managers | `resources` | five dictionaries by name | GetMaterial, GetVertexDesc, GetLight, GetTexture, GetMesh, GetTechnique, GetGpuProgram | one name, one shared object; an item is found when and only when its file holds it |
| scene graph | `scene`, `resources/scene_manager.cc` | descriptions by name; tree and a map of descendants | GetSceneNodeInfo, GetScene, CreateNode | the map agrees with the tree, and the tree with the files; the recursion ends |
| tile quad tree | `util/tile.cc` | array of nodes, filled while it is walked | Split, SplitPitch, InitPitchIndices; what to split is asked of a Splitable | the pitches tile the plane; the array is long enough; triangles cover what is drawn |
| widgets | `ui/widget` | tree of widgets, ids | add, remove | (unfinished: see below) |
| window, message loop | `ui/window` | Win32 queue | Run, Quit | runs until quit |
| rendering, math, animation | `render`, `render_system`, `math`, `animation` | GPU handles; floats | wrappers; algebra | outside the reach of a model checker |

Interaction: the grammar calls AddSibling and AddChildren while it reduces; the
preprocessor's parser calls the linker back for each `#include`, and the linker
calls the preprocessor for the included file; ParseASTreeRecursive links the
contexts along which symbol lookup walks; each stage of a technique gets a
DependCalactor, whose lists the code generator writes out. GetScene asks the mesh
dictionary, which asks those of vertex descriptions and of materials, and hangs the
nodes into the intrusive tree and into the root's map. Program, ParseContext,
ASTNode, the scene nodes and the widgets are all nodes of the intrusive tree, so
the tree comes first.

`src/base`, `src/skia`, `src/ui/gfx`, `src/testing` and `src/tools` are vendored
(Chromium, Skia, gtest, gyp).

## Modules

| module | what it is |
|---|---|
| `OrderedForest` | the promise of the tree, without pointers: lists of children, parentless chains, what is gone |
| `TreeNode` | `base/tree_node.h`, one operator per method, the five links as functions |
| `AstNode` | extends it with `afx/compiler/tree_node.h`, `ASTNode::AddChildren` and the grammar's callers; the specification `AstSpec`, the properties, the refinement to `OrderedForest` |
| `AstNodeProofs` | proofs about the tree |
| `Linker` | `AfxLinker::Load` with the programs, the preprocessor's tables and the context tree |
| `LinkerProofs` | proofs about its order: stack, parse, macros |
| `LoadProofs` | extends them with what Load makes of the texts, and its verdict |
| `DependCalactor` | `DependCalactor::Calc` and the order of `AfxCodegen::GenCode` |
| `DependProofs` | proofs about the dependency calculation |
| `CodeParty` | `CodeParty` of the preprocessor's tokenizer, character by character |
| `CodePartyProofs` | proofs about it: carry-over, the cut into segments, the lines |
| `Contexts` | names of structures and functions: registration, the tokenizer's and the validator's lookup |
| `ContextsProofs` | proofs about the walks and the answers |
| `Resources` | the dictionaries of `resources/*_manager` |
| `Scenes` | extends `TreeNode` and `Resources` with the scene files and GetScene: the composition that is checked |
| `ScenesProofs` | proofs about the dictionaries and about what GetScene builds, under every step of `Scenes` |
| `Tile` | `QuadTree::Split` for any Splitable, and InitPitchIndices |
| `TileProofs` | proofs about it |
| `MC...` | constants for TLC |

### TreeNode and AstNode

Variables `parent`, `first_child`, `last_child`, `next_sibling`, `prev_sibling`
are the members with a trailing underscore; `named` holds the nodes whose
`node_name_` has not been cleared by `reset()`. `stale` is a variable
the code does not have: nodes that keep pointers no tree agrees with (what hung
below a removed node, the temporary of a grammar rule). The callers in the
repository never touch such nodes again, and neither does the model.

A method's assignments are one step: nothing can look at the tree between two of
them. A DCHECK is a guard. What the code does not check and most callers respect is
in `TreeNext` and `Calls`: a node is attached only while it hangs nowhere, and
never below itself. Two rules of the grammar do not respect it, and no DCHECK stops
them; they are actions of their own.

- `ShareAttributes`: `[x="y"] float a, b;` in a structure gives the one node of the
  attributes to every field of the list (afxlang.y:865). a goes on listing it while its
  `parent()` is b.
- `DeclareLocally`: a structure declared in a function is made a child of the root by
  AddStructDecl in the middle of the rule (context.cc:141), and CreateStatement then adds
  it below the statement (util.cc:141). The root goes on listing it, as its last
  child and as the next sibling of the child before, which the node no longer points back to.

From then on two lists hold one node. The history variable `torn` is set by the two
actions, and a run ends there: what code does with a torn tree (it traverses it, and
the DCHECK of tree_node.h:186 fails: run `ast_shared`) is not modelled further. So all
properties of the tree but TypeOK and AddChildrenIsItsLoop say "unless torn", and
TraverseAssertsOnlyTorn says that nothing else makes the assertion fail.

`AddChildren` is written by its effect; the
code's destructive loop is `AddChildrenLoop`, made of one `Round` per node, and the action property
`AddChildrenIsItsLoop` shows that the loop ends and that both do the same. `ReplaceBy` (tree_node.h:40) has no
caller and is left out; whoever calls it will find that it tells neither the children nor
the neighbours of the replaced node.

`AstNode` implements `OrderedForest` under the mapping kids = the chain from
`first_child`, chains = the chains from parentless heads, gone = `stale`. The forest
has one disorderly step, Tear: a child of one node is given to another without being taken
out. The two actions above are Tears, and all the others rearrange lists.

### Linker

A file is the sequence of its preprocessor statements and a verdict of the AFX
parser; which files exist, what they say and which of them are sound is chosen in
`Init`. `programs` is the tree of Programs with the table of
each one's preprocessor and the children of its context. The C++ stack of the two
recursions is `stack`; each activation is a program and a position. `failed` is
`failed_`, `result` what Load returns. Each statement is one action, and so is
each return of Preprocess and each step of ParseASTreeRecursive.
`MaxPrograms` bounds the number of programs, which the code does not; in
`Linker.cfg` it is 10, more than these texts can reach, so it bounds nothing.

Macros have their values on every level of includers, since the levels can differ:
AddDefined, SetDefinedValue and RemoveDefined do the same to all of them, but `#define K(x)`
(SetDefinedParams) makes an entry where there is none and leaves the value of one that
is there. `DefinesFlowUp` therefore says that an includer knows every macro of the file it
includes, with the same value unless that file has none for it.

Left out: the names of macro parameters, the text that results, the wording of errors. There is
nothing to model of `#if`: its rules are commented out in the grammar.

### DependCalactor

`refs` says what each definition refers to, in traversal order: functions, structures
and variables (`Symbols`). `Decl` is the declaration of a variable, and one declaration may
have several (`int a, b;`); `struct_of` is the structure it is declared with. `at` and `pos`
are the index in `depend_` and the place of the traversal. A function is remembered by its
written name (inside a package it has to be written with the package, because the tokenizer
rewrites names that way), hence without parameter types; a variable by its name
without package; a structure by its full name: the constant `Name`. What is stored under a
variable's name is its declaration. A declaration that is traversed meets its own symbols
(`SourcesAreTexts` says so), so `int a, b;` gets into `depend_` under each of its two
names whichever is referred to, and is written twice; `EmittedOncePerName` says that nothing is
written more often than that. `Emitted` is
the order of the generated shader. The order among the uniforms, which Swap sorts
by size, does not matter to any property. One DependCalactor serves one stage of one
technique, so one Calc is a whole life.

Left out: textures, built-in functions, anonymous structures, members of structures.

### CodeParty

A step is one character of the loop in `GetNextToken`, with the state of the code as
`status` and one action per case of the switch (two for kCommentStartBegin, which
either opens a comment or turns out to be a plain "/"). A step that returns a part
also begins the next call, so that `content` starts with `rest`. What the text
itself says is `Segments`, written without a state machine: where each kind of
segment must end. `Plain` names the texts for which machine and definition
agree; TLC tries the others as well, and `PartsAreTheText` shows how one kind of
them goes wrong. Two kinds of newline are not counted by the code (`Uncounted`);
`LineOfPart` says that there are no more.

### Contexts

Files are numbered in the order `Linker` parses them, leaves first; the tree and
the packages are chosen in `Init`, and only the first file given to Load may have no
package (linker.cc refuses others). The tokenizer's lookup is a list of places:
the contexts that LookupSymbolType asks, in its order, each with the package
that is on `*rname` when all calls have returned. `Met` is the first place that has
the name. The validator's lookup walks depth first. A statement is a step;
`uses` are the nodes that wait for the validator, which runs in `EndOfFile`.
Errors are one flag: what comes after the first does not change the verdict.

Left out: variables (local to a file), built-in functions, anonymous
structures, a prefix without a name behind it.

### Resources

Materials, vertex descriptions and lights are looked up by three pieces of code that
differ in names only: Find, on a miss load the whole file, Find again. One dictionary,
`dict`, stands for the three, and one set of files, `Packages`. What the properties tell
apart is only which load made an object, so an object is the number of its load,
and `made` counts the loads. A mesh and a technique are made of such objects;
LoadSubMesh asks for several of them and is a call with several steps (`loading`).
`given` records what every Get... has returned; no code reads it. Files may
appear or be repaired between calls (`FileAppears`), as a client may do while the program runs.

Three things the code does are in the model as they are. `texture_dict_` is searched
and never filled, so each request makes a texture. A mesh that could not be loaded is
remembered as NULL, and an absent shader program as the empty string. And a request for
what a file does not hold loads the file again and replaces its objects:
`SharedUnlessAskedInVain` says that nothing else ever does.

### Scenes

`scene_text` is what the files say: entries with a label, a type, an object to attach and
children. GetScene and RecursiveCreateNode are the stack `building`, each step one
attachment, one child, or one return. CreateNode is `AddChild` of `TreeNode`, and then
the map. A node the map refuses because of its name is in `freed`: it is destroyed where it hangs,
and what is done to it, or to the NULL returned for it, may or will end the program
(`crashed`). A client drops a scene before it asks for the next; two scenes share
nothing but the descriptions, which stay.

Left out: transforms, bounding boxes, rendering; an entry without a type (it takes that of
the entry before it); an object attached to an entry of type scene (NOTREACHED).

### Tile

`nodes`, `tail` and `cur` are the array, its end and the position of the loop; what the
Splitable answers is free, so the properties hold for every Splitable that respects
the assertion on the level (tile.cc:198), which is a guard here. The repository has two:
FrustrumSplit, and one in `tile_test.cc`. FrustrumSplit does not look at the level, so for a view
in which it asks for the split of a node of level 1, `TailFits` says nothing.
Powers of two are the constant `Width`, which the
proofs can work with. `Triangles` is the index buffer of a pitch at a coarseness.

Left out: `children` and `splitted`, which nothing reads (SplitPitch resets the flag of its
second child twice and that of the first never); heights, which SetHeight writes at
x * kGridLine + z and vertex() reads at z * kGridLine + x, and which nobody sets.

## Runs

| run | instance | shows |
|---|---|---|
| `ast_tree` | 5 nodes, symmetric | type, neighbours, ends, no rings, down = up, traverse visits each node once, find, the loop of AddChildren, and the refinement |
| `ast_shared` | 3 nodes | a node in two lists makes the assertion of traverse() fail (expected violation) |
| `linker` | 3 files, all combinations of 15 x 7 x 6 texts, missing and unsound files | macros and their values reach all includers, programs mirror the text, parse order, the verdict, termination |
| `linker_circle` | 2 files that include each other | no circular include is refused (expected violation) |
| `depend` | 3 functions, a declaration of two globals, one of two uniforms, a structure; texts of up to two references, recursion | complete, exact, terminating, nothing written more often than it has names |
| `depend_order` | the same with one global, without recursion or uniforms in the texts | the order of the output is not topological (expected violation) |
| `codeparty` | all texts of 5 characters out of 7, of 7 out of 4, of 6 out of 5 | parts, kinds and lines |
| `codeparty_slash` | texts of 4 characters | a slash in a directive is doubled (expected violation) |
| `contexts` | all trees of 4 files, 3 packages (one of them none), one name | the tokenizer's answer stays, the validator finds what it met, no name twice on a path |
| `contexts_mixed` | 3 files | with a package reopened below another the full name is wrong (expected violation) |
| `scenes` | 6 nodes; a package with two of three items, a mesh with two groups, a technique, a program, a texture; 2 scene files of 45 combinations; 2 calls | sharing and finding in the dictionaries; map, tree and text agree; when the program crashes; the recursion ends |
| `tile` | 8 x 8 cells, every answer for every node | tiling, the size of the array, the triangles at each coarseness, termination |

Why the bounds are enough. Five nodes give a list with first, middle and last
child and a node below and above it, and two chains of two with a parent; each
tree operation touches the links of at most four nodes. Three files give an include
inside an include, the same file reached twice on one level and through two,
an error on the lowest, middle and top level. In the
dependency graph a definition can be reached through one other, through two, and
by a circle; a structure through a uniform, through a global and
directly, in each order; a declaration of two variables through either of them or both. The longest decision of CodeParty spans three
characters (a comment, its opening, what follows); five to seven have one inside
another kind and a third part behind it. Names do not interact in Contexts, so one is
enough; four files give a package, another below it and the first again below
that, with a file without package on top, and two siblings of which one has a child.
The two files parsed first say one statement, the others two. In `scenes` two calls
are a failure and its repair, a request in vain and one that notices, a mesh and then a
scene with it; six nodes are more than any description here makes before a
name comes twice, so the bound on nodes cuts nothing off. The files hold names that are apart,
doubled in a file, doubled across files, children that contain their parents, an entry that
cannot be parsed, and a missing file. Eight by eight cells are three levels: a root, nodes with a
parent and children, and nodes that may not be split.

`CHECK_DEADLOCK FALSE`: with all nodes in one tree or stale the callers may have
nothing left to do, Load, Calc, the tokenizer and the parser end, a crashed program stops, and
the calls of `scenes` are used up. `tile` is checked for deadlock.

Fairness is `WF_vars(Next)` in `Linker` and `DependCalactor`: Load and Calc are
single calls on one thread without waiting, so a step that can be taken is
taken. In `Scenes` and `Tile` it is `WF_vars(Step)`, for the same reason, where Step is what
a call under way does; that clients make calls is not assumed. `AstSpec` has no fairness; nobody is obliged to build a tree.

## Proofs

Tree (`AstNodeProofs`). For every set of nodes, finite or not,
`AstSpec => []AstInv`: the links are typed, and unless torn, TreeInv holds: types,
LinkedBothWays, EndsMeet and NoRings together (SiblingLinks, ListEnds and Acyclic without
"unless torn"). None of them is inductive alone: a new link closes no ring
because it starts at the end of a list and leads to a head; that those
have no successor (no predecessor) elsewhere is SiblingLinks; that `last_child` is
such an end is ListEnds; and that the removal of a node cuts off just its own
descendants needs the absence of rings. The graph part comes first:
reachability along a function defined by closed sets, and three lemmas on when a
change of a link (redirect, insert, remove) makes no cycle. There is one lemma
per orderly action (CallInv joins them); the two disorderly ones keep the types (AddChildrenTypes)
and set torn. From AstInv follow NeighboursAgree, EndsAgree, NeverARing,
DownAgreesWithUp (ChildListsAgree), TraverseAssertsOnlyTorn and ListAssertionsHold
(the DCHECKs that `AddChild` and `RemoveChild` make as guards in the model hold
anyway for the calls that are made).
Assumption: Null is no node.

The other half of `AstNodeProofs` reads the links as lists, for finitely many nodes (a list with
infinitely many is no sequence, and the loops of the code would not end). ListFromIsList is
the base: the recursive function of ListFrom is the list the link makes, since it may go on for as many
steps as there are nodes and a list without rings repeats none (ListFits); ListHolds says
that the list has each node on the way once. VisitedOnce (TraversalExact) goes by the height of what
is below a node (TraverseHolds): the children's subtrees are apart from each other, so FlattenSeq
repeats nothing. FoundFromAbove (FindByName) and OnePlaceEach (EachNodeOnce) follow.
LinksImplementForest is the refinement `AstSpec => ImplementsForest`, step by step: AddChild and AddChildren
are Adopt, AddSibling is Join, InsertBefore and InsertAfter are Place, RemoveChild is
TakeOut, AppendExpression is HandOver, ShareAttributes and DeclareLocally are Tear (TearStep). Every step uses the same three facts: a way along a link may be
cut and joined (WayCut, WayOn), a rewritten link only turns the way whose last node it belongs
to (WayTurned), and a list no assignment touches stays (KidsKept, ChainKept). What hangs below
a node by `parent` is what the forest has under it (UnderIs), so the callers' condition that
nothing goes below itself means the same on both sides.
LoopIsOneStep (AddChildrenIsItsLoop) is the loop of AddChildren: LinksAfter says what the links are after
k rounds along the chain; one round leads from k - 1 to k since the node it moves is neither the last child
so far nor p, and the successor it has read first is still the chain's. After as many rounds as the chain has
nodes the links are those of the action.

Linker (`LinkerProofs`). TypeCorrect, DefinesReachIncluders and ParsedBottomUp, for all
files, texts and keys, for circular includes too, and without regard to MaxPrograms.
LinkInv has the two sides of the tree of programs (Tree: a parent is older than its children,
`children` has each of them once) and, per phase, what the stack of the C++ recursion says
about the programs. While files are preprocessed its programs are ancestors of each other, and
nothing has been linked yet; a program that is off the stack has a context unless an error is
recorded. It is the latter that makes the start of the parse sound: without an error every
program has a context. While they are parsed, an activation at its i-th child has its
first i - 1 children parsed and linked in that order, apart from the one it is inside of, and
has not touched the others; so a program whose loop is over has all its children as
`kids`. BottomUp is a conjunct of LinkInv. DefinesFlowUp is inductive relative to LinkInv: a
macro is set in all ancestors of the innermost program, which the whole stack
belongs to, by one function from entry to entry that keeps Covers between a level and the
one above it. Assumptions: the root is a file, texts are sequences of statements.

Load (`LoadProofs`). On top of LinkInv, again for all files and texts and without regard to
MaxPrograms: ChildrenAreAsked (ChildrenMirrorText) and VerdictProved (VerdictIsRight).
LoadInv has two sides. While there is no error, everything a program has read so far is as
it should be: its children are the files its text has asked for up to the position on
the stack, file by file in that order (counted by the rank of a statement among the includes), its
package is the one declared last, and nothing that Loadable forbids has been read; the programs
off the stack have been read to the end. Once there is an error, the input is not Loadable: each
action that records one shows what it has met, at a file the root reaches. What the root
reaches (Reached) is the least set closed under "asks for", so both directions are arguments about closed sets:
the files of programs are one when all texts are read, and each of them is in every other.
The assumptions are those of LinkerProofs.

Dependencies (`DependProofs`). `Spec => []TypeOK`, and, if no two
functions, structures or variables share a name, `Spec => []AllDependencies`, for every set of definitions and every text.
The invariant DependInv says that a name in `inserted` stands for something stored,
that a stored variable has its structure stored too, that whatever the
traversal has passed is stored, and that nothing is stored without need. When
the index reaches the end of `depend_`, the stored set is closed under
"needs", and Needed is the least such set. The hypothesis on names, `UniqueNames`, is
needed: a function is remembered without its parameters' types, and of two
overloads that are called the second is dropped. Assumptions: the entry is a function, the
kinds are disjoint, every variable has a declaration and there are finitely many, the texts
are sequences of functions, structures and variables, and the text of a global has its own.
OnceUnderEachName (`Spec => []EmittedOncePerName`) needs no hypothesis on names. Add stores
something under a name that has not been used, so the places at which a list holds one
definition can be told apart by the names of it they were stored under (Naming, Named); these
names are in `inserted`, which keeps it so (ListsApart). GenUniDepend writes no structure
twice (UniformTypesApart) and leaves out those `depend_` holds, so Emitted as a whole has such a
naming (WrittenOnce), which is an injection from places into names (NamedCounts).

Tokenizer (`CodePartyProofs`). For every set of texts, of any length: TypeCorrect, SegmentsAreParts
(CutIntoSegments) and LinesAreRight (LineOfPart). TypeCorrect is about the carry-over: `rest` is
empty or one "/" that is not decided yet, and the line count never runs ahead of the
text. The strengthening, Undecided, says which state a "/" returns to
and that `rest` has the "/" unless it opened the part.

The segments are a recursive function over what is left of the text. It is unfolded in one place
only, to show that the segments are pieces that lie one behind the other and each
end where they first must (Cut, EndsIn, StartsOf); from there on a segment is a pair of
positions, and all is arithmetic. CutInv says that the parts returned so far are the first segments,
and relates the state of the machine to its position in the segment it reads (Place): inside,
at a "/" it cannot judge yet, or one character into the next segment, because a "/" in code
is only known to have ended it when the character behind it is read. Every action stays in the
segment or returns exactly the whole of it (Moves). The proof shows what the hypothesis Plain is for: a "/"
in a directive (written twice), code that begins or ends with a "/", a text that ends behind the "*"
of a comment.
LineInv is inductive relative to CutInv: the line of a part is the number of counted newlines in the
segments before it, and `lineno` is that and the counted newlines of what has been read of the
segment since; that the one character read too far is no newline is why the two agree
again at each end. Assumption: texts are sequences of characters.

Dictionaries (`ScenesProofs`). For all files, items and contents, and under every step of
`Scenes`: LoadsDoNotMix, SharedByName (SharedUnlessAskedInVain) and FoundIffHeld
(FoundWhereItStands). The invariant has four parts besides FoundWhereItStands: a type
invariant; DictExact (an item is in the dictionary with the number of its file's last
load exactly if that load has taken place and the file holds it); ReloadedInVain (a file
that has been loaded twice was asked for something it lacks); and GivenSoFar (nothing
has been given out from a later load than the last). All actions but Ask leave `dict`, `made`
and `given` alone or change other entries, so that there is one lemma for Ask and one
for the rest. Assumptions: files of packages and textures are different, contents name items.

Scenes (the rest of `ScenesProofs`). For all files, texts and nodes, circular scenes and failed
calls included: TypeCorrect, InfoAnswersProved (InfoAnswerRight), MapAgreesProved
(MapAgreesWithTree), SceneMirrorsProved (SceneMirrorsText) and CrashOnlyIfProved. The invariant,
AllInv, has the dictionaries' (IInv) and four parts of its own.

- InfoInv: what is remembered of a name is the first entry the parser reaches of it, or nothing;
  and a file that gives no name twice has been read as a whole or not at all (AllOrNone). Without
  the latter, an answer NULL "because an entry was refused" could hit an entry that is there.
- BuildInv: the links are a tree (TreeInv of `AstNodeProofs`, cited through an INSTANCE) that hangs
  together below the root, every node of it is in the map or refused (ShapeInv), the children of
  a node are the first ones its entry lists (KidsRight), every node of the map has the name it was
  found by, mentioned below the root (NamedBy), and a node is only refused if a name is mentioned
  at two places. CreateNode is the one action that disturbs it. For that step (Hangs), two mentions of one
  label are exhibited: the child's, and the one of the node that holds the label. They are one
  mention only if one parent made both children at one place, and it makes one at a time.
- WorkInv: an activation with a node is the only one at that node and its counter says how many
  children that has; all other nodes have all of theirs (ProgressInv). A node of the map has had its
  mesh asked for unless it is the innermost and has not begun (MeshInv), and a mesh once asked for
  stays what it is. When `building` is empty this says what SceneMirrorsText says.
- LoadingInv: no one else has stored the mesh that is being loaded.

CrashOnlyIf is inductive relative to AllInv: an activation on NULL, or a last child that is
freed, means that a node was refused; and LoadSubMesh fails on a vertex description only as
FoundWhereItStands says. Assumptions: finitely many nodes, numbered from 1, and Null is neither a
node nor a name; the texts are sequences of Entries, which attach a mesh to entries of type mesh,
a light to those of type light, and nothing else.

Quad tree (`TileProofs`). For every level: TileTypeOK and SplitTiles (`Spec => []Tiling`).
The step of Tiling is that four quarters cover the cells of their parent and are
apart from each other and from everything the parent was apart from; for that the
type invariant has the width of each node. NeverFull (`Spec => []TailFits`) is that
SplitPitch stays inside the array, although it never looks. The argument is an account
(Budget): a split takes four places and pays with the cells that it hands on to nodes
of at least four cells each; an answer without a split gives its cells up. With all nodes behind `cur`
worth four cells or more, `tail` is at most a third of the cells of the plane, which is
the number of nodes of a full tree. KeptAreCovered (`Spec => []IndicesCoverKept`) is arithmetic: two
widths divide each other (WidthRatio), so the rows and columns that InitIndices loops over fill the
tile and do not leave it; the number of a vertex determines its row and column
(DivMod), so a square's corner occurs at two places of the index buffer and no more, and
these two triangles are its halves. Assumption: Width is the powers of two.

Symbols (`ContextsProofs`). For any number of files and names, every tree of contexts and every
package on it: TypeCorrect, PackageKeptProved, AnswerStaysProved, NoRedeclarationProved and
MeansDeclarationProved. The two walks are recursive functions, whose values are sequences; the
proofs only use what such a sequence meets first: it Leads to a place if the place satisfies a
condition and nothing before it does, or it Misses the condition. Both are shown to go
through concatenation and FlattenSeq, and the recursion is unfolded by "take the file with the
least number for which it fails", since children have smaller numbers. WalkIsPreorder is the
result: in a package, LookupSymbolTypeFromDep meets first what LookupType meets first on the files
of that package, for any set of files that have the name. ContextsInv joins the shape
of the tree (Shape), the tables (Tables, which say what is left of TypeOK after an error), the
answers (each use would be answered now as it was, and what was taken for a type is a
structure) and NoRedeclaration. Its step is Effect: a name is only registered where the
file that registers it could not see the name. That an answer stays needs NoRedeclaration
and the order of parsing: what registers later is not below the file that asked, or is
the file itself, which would have seen the name. Assumptions: there is a file, no package has
the name "", "type" is no list of parameters.

Only model-checked: liveness (LoadReturns, CalcReturns, GetSceneReturns, SplitReturns), which is out of the
prover's reach. Every other property that a passing run checks, the refinement included, is a theorem.

## Disagreements between code and comments

1. The linker's promised check for circular dependencies is not there (`linker_circle`).
2. Dependencies are not always written before what depends on them (`depend_order`).
3. A slash in a directive is written twice (`codeparty_slash`).
4. The full name of a structure found below another package is wrong (`contexts_mixed`).
   The same loop lets a file without a package see structures two includes down without
   a prefix; `MeansDeclarationUnmixed` leaves such names out.
5. traverse() asserts that a child's parent() is the node it was reached from; a structure
   declared in a function, and attributes of a list of fields, hang in two lists (`ast_shared`).

Noticed on the way, without a run: the second of two overloads is never collected
(depend_calactor.cc:39); a declaration of two globals is written twice (depend_calactor.cc:103-104,
afx_codegen.cc:37); a light that is found is not attached (scene_manager.cc:114);
FrustrumSplit keeps what is fully visible, but the box test it asks
(AxisAlignedBox::IsVisible, axis_aligned_box.cc:103-107, through Frustrum::IsVisible(center, halfsize),
frustrum.cc:67-76) never answers so: it wants every visible square split, those of the last level
included, which QuadTree::Split asserts not to happen (tile.cc:198);
ReplaceBy forgets children and neighbours (tree_node.h:40); TreeNodeDownUp::AddChildren
(tree_node.h:28) asks a node for its successor after the reset, so it would hand over the first node only, but
every caller gets the one of ASTNode, which asks first.

## Not modelled

- Validators and text generation: large tables without state of their own. The
  validator's verdict is an input of `Linker`, the order of the generated text is in
  `DependCalactor`.
- The technique parser and the afxc driver: a loop around what is modelled.
- The words of a directive (`PreprocessorTokenizer`), macro parameters:
  character work whose result `Linker` takes as statements; variables inside one
  file (`ScopedNode`).
- Widgets: the repository's code is unfinished. WidgetManager hands out ids, but no widget
  ever keeps one, and no event is routed, so there is no behaviour to state a
  property about beyond the intrusive tree.
- Window and message loop, GPU wrappers (operating system and device), math and
  animation (floating point without control), image and mesh file formats.
- FrustrumSplit: boxes and planes in floating point. Its three answers are among those `Tile` tries.
- Vendored code: `src/base`, `src/skia`, `src/ui`, `src/testing`, `src/tools` and the like, by far
  the most of the repository's lines.

## What could follow

1. The texts of `DependCalactor` taken from `Contexts`, with variables and scopes.
2. `CodeParty` feeding `Linker`, once the words of a directive are modelled.
