--------------------------- MODULE DependCalactor ---------------------------
(***************************************************************************)
(* azer/afx/linker/depend_calactor.cc (the name is the code's): what a     *)
(* shader's entry point needs of the linked programs, and the order in     *)
(* which codegen/afx_codegen.cc writes it out.  Calc traverses the entry,  *)
(* then one after the other the definitions it has put into depend_, while *)
(* depend_ grows.                                                          *)
(*                                                                         *)
(* A definition is what it refers to, in the order of traverse().  A       *)
(* declaration defines one variable or several ("int a, b;"), and its own  *)
(* symbols are among what the traversal of it meets.  A function is        *)
(* remembered under its name without the parameters' types, a declaration  *)
(* under the name of the symbol that led to it, without the package, a     *)
(* structure under its full name.  Textures and built-in functions have no *)
(* definition and are left out.                                            *)
(***************************************************************************)
EXTENDS Naturals, Sequences, FiniteSets, SequencesExt

CONSTANTS
  Functions, Globals, Uniforms, Structs,  \* the definitions
  Symbols,                                \* the variables
  Decl,                                   \* Decl[x]: the declaration of the variable x
  Entry,                                  \* the function Calc starts from
  NoStruct,
  Name,       \* Name[x]: the name of a function, a structure or a variable
  Sources     \* what the definitions may refer to: the values of refs

Defs == Functions \cup Globals \cup Uniforms \cup Structs
Referables == Functions \cup Structs \cup Symbols   \* what a text refers to

SymbolsOf(d) == {x \in Symbols : Decl[x] = d}
Definition(x) == IF x \in Symbols THEN Decl[x] ELSE x

ASSUME EntryIsFunction == Entry \in Functions
ASSUME KindsAreDisjoint ==
  /\ Functions \cap (Globals \cup Uniforms \cup Structs) = {}
  /\ Globals \cap (Uniforms \cup Structs) = {}
  /\ Uniforms \cap Structs = {}
  /\ NoStruct \notin Structs
ASSUME SymbolsAreDeclared ==
  /\ IsFiniteSet(Symbols)
  /\ Symbols \cap (Functions \cup Structs) = {}
  /\ Decl \in [Symbols -> Globals \cup Uniforms]
ASSUME SourcesAreTexts ==
  /\ Sources \subseteq [Functions \cup Globals -> Seq(Referables)]
  /\ \A r \in Sources, d \in Globals : SymbolsOf(d) \subseteq ToSet(r[d])

VARIABLES
  refs,           \* refs[d]: what d refers to, in the order of the traversal
  struct_of,      \* the structure a variable is declared with, or NoStruct
  depend,         \* depend_
  uniforms,       \* uniforms_
  uni_depend,     \* uni_depend_
  inserted,       \* inserted_
  at,             \* 0 while the entry is traversed, then the index in depend_
  pos,            \* the reference the traversal has come to
  done            \* Calc has returned

input == <<refs, struct_of>>
vars == <<refs, struct_of, depend, uniforms, uni_depend, inserted, at, pos, done>>

Init ==
  /\ refs \in Sources
  /\ struct_of \in [Globals \cup Uniforms -> Structs \cup {NoStruct}]
  /\ depend = <<>> /\ uniforms = <<>> /\ uni_depend = <<>>
  /\ inserted = {}
  /\ at = 0 /\ pos = 1
  /\ done = FALSE

----------------------------------------------------------------------------
Traversed == IF at = 0 THEN Entry ELSE depend[at]
Referred == refs[Traversed][pos]

\* Add: what has been added under a name is not added under it again.
Add(list, name, e) ==
  IF name \in list.inserted THEN list
  ELSE [depend |-> Append(list.depend, e), inserted |-> list.inserted \cup {name}]

Collected == [depend |-> depend, inserted |-> inserted]

MeetsReference ==
  /\ ~done
  /\ Traversed \in Functions \cup Globals
  /\ pos <= Len(refs[Traversed])

Collects(list) == depend' = list.depend /\ inserted' = list.inserted

\* AddFuncDep, AddStructDeclDep.
VisitDefinition ==
  /\ MeetsReference
  /\ Referred \in Functions \cup Structs
  /\ Collects(Add(Collected, Name[Referred], Referred))
  /\ pos' = pos + 1
  /\ UNCHANGED <<input, uniforms, uni_depend, at, done>>

\* The declaration of the variable, and the structure it is declared with.
WithStruct(list, d) ==
  IF struct_of[d] = NoStruct THEN list ELSE Add(list, Name[struct_of[d]], struct_of[d])

RefersTo(declarations) == Referred \in Symbols /\ Decl[Referred] \in declarations

\* AddSymbolNodeDep: the declaration under the name of the symbol, then its
\* structure.  A declaration of two symbols comes into depend_ under the one that
\* is referred to, and again under the other when it is traversed itself.
VisitGlobal ==
  /\ MeetsReference
  /\ RefersTo(Globals)
  /\ Collects(WithStruct(Add(Collected, Name[Referred], Decl[Referred]), Decl[Referred]))
  /\ pos' = pos + 1
  /\ UNCHANGED <<input, uniforms, uni_depend, at, done>>

\* Mutant of VisitUniform: the uniform goes where everything goes.
VisitUniformLikeGlobal ==
  /\ MeetsReference
  /\ RefersTo(Uniforms)
  /\ Collects(Add(Collected, Name[Referred], Decl[Referred]))
  /\ pos' = pos + 1
  /\ UNCHANGED <<input, uniforms, uni_depend, at, done>>

\* A uniform does not go into depend_, and its structure has a list of its own.
VisitUniform ==
  /\ MeetsReference
  /\ RefersTo(Uniforms)
  /\ LET d == Decl[Referred] IN
       /\ uniforms' = IF Name[Referred] \in inserted THEN uniforms ELSE Append(uniforms, d)
       /\ uni_depend' = IF struct_of[d] \in {NoStruct} \cup ToSet(uni_depend)
                        THEN uni_depend ELSE Append(uni_depend, struct_of[d])
  /\ inserted' = inserted \cup {Name[Referred]}
  /\ pos' = pos + 1
  /\ UNCHANGED <<input, depend, at, done>>

\* Mutant of NextDefinition: the last one is not traversed.
NextDefinitionShort ==
  /\ ~done
  /\ Traversed \in Functions \cup Globals => pos > Len(refs[Traversed])
  /\ IF at + 1 < Len(depend) THEN at' = at + 1 /\ pos' = 1 /\ UNCHANGED done
                             ELSE done' = TRUE /\ UNCHANGED <<at, pos>>
  /\ UNCHANGED <<input, depend, uniforms, uni_depend, inserted>>

\* Mutant of NextDefinition: the index does not move past the first.
NextDefinitionSame ==
  /\ ~done
  /\ Traversed \in Functions \cup Globals => pos > Len(refs[Traversed])
  /\ IF at < Len(depend) THEN at' = 1 /\ pos' = 1 /\ UNCHANGED done
                         ELSE done' = TRUE /\ UNCHANGED <<at, pos>>
  /\ UNCHANGED <<input, depend, uniforms, uni_depend, inserted>>

\* The traversal is over: the next entry of depend_, if there is one.
NextDefinition ==
  /\ ~done
  /\ Traversed \in Functions \cup Globals => pos > Len(refs[Traversed])
  /\ IF at < Len(depend) THEN at' = at + 1 /\ pos' = 1 /\ UNCHANGED done
                         ELSE done' = TRUE /\ UNCHANGED <<at, pos>>
  /\ UNCHANGED <<input, depend, uniforms, uni_depend, inserted>>

Next == VisitDefinition \/ VisitGlobal \/ VisitUniform \/ NextDefinition

\* Calc is one call on one thread.
Spec == Init /\ [][Next]_vars /\ WF_vars(Next)

\* Mutant of Emitted: the uniforms' structures are all written.
EmittedTypesTwice == Reverse(depend) \o Reverse(uni_depend) \o uniforms \o <<Entry>>

\* GenUniformDeps: uni_depend backwards, without the structures that have been
\* written already (type_depends_).
UniformTypes ==
  LET written[i \in 0 .. Len(uni_depend)] ==
        IF i = 0 THEN <<>>
        ELSE (IF uni_depend[i] \in ToSet(depend) THEN <<>> ELSE <<uni_depend[i]>>)
               \o written[i - 1]
  IN  written[Len(uni_depend)]

\* AfxCodegen::GenCode: depend_ backwards, the structures of the uniforms, the
\* constant buffer (which Swap has sorted by size; no uniform refers to
\* another), the entry.
Emitted == Reverse(depend) \o UniformTypes \o uniforms \o <<Entry>>

----------------------------------------------------------------------------
\* Properties.

TypeOK ==
  /\ refs \in [Functions \cup Globals -> Seq(Referables)]
  /\ struct_of \in [Globals \cup Uniforms -> Structs \cup {NoStruct}]
  /\ depend \in Seq(Functions \cup Globals \cup Structs)
  /\ uniforms \in Seq(Uniforms)
  /\ uni_depend \in Seq(Structs)
  /\ inserted \subseteq {Name[x] : x \in Referables}
  /\ at \in 0 .. Len(depend)
  /\ pos \in Nat \ {0}
  /\ done \in BOOLEAN

\* What the text of d needs besides d.
DirectNeeds(d) ==
  (IF d \in Functions \cup Globals THEN {Definition(x) : x \in ToSet(refs[d])} ELSE {})
    \cup (IF d \in Globals \cup Uniforms THEN {struct_of[d]} \ {NoStruct} ELSE {})

\* What the entry needs, directly or not.
Needed ==
  LET Closed == {S \in SUBSET Defs :
                   /\ DirectNeeds(Entry) \subseteq S
                   /\ \A d \in S : DirectNeeds(d) \subseteq S}
  IN  {e \in Defs : \A S \in Closed : e \in S}

Collection == ToSet(depend) \cup ToSet(uniforms) \cup ToSet(uni_depend)

\* "What has been saved is then all the dependencies" (depend_calactor.h): when
\* the vector stops growing it holds everything the entry needs, to any depth
\* and through recursion, and nothing else.
AllDependencies ==
  /\ Collection \subseteq Needed
  /\ done => Collection = Needed

\* The names a definition may be collected under.
NamesOf(d) ==
  IF d \in Globals \cup Uniforms THEN {Name[x] : x \in SymbolsOf(d)} ELSE {Name[d]}

Written(d) == {i \in DOMAIN Front(Emitted) : Front(Emitted)[i] = d}

\* The generated shader defines nothing more often than it has names: a function, a
\* structure and a declaration of one variable once, a declaration of two variables
\* at most twice.  (A recursive entry is the exception; HLSL knows none.)
EmittedOncePerName ==
  done => \A d \in Defs : Cardinality(Written(d)) <= Cardinality(NamesOf(d))

\* The vector stops growing, whatever refers to what.
CalcReturns == <>done

\* "First generates the code that is depended on" (technique_parser.h): in the
\* generated shader nothing refers to what is defined further down.
DependedFirst ==
  done =>
    \A i, j \in DOMAIN Emitted : i < j => Emitted[j] \notin DirectNeeds(Emitted[i])
=============================================================================
