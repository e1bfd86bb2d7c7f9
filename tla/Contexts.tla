------------------------------ MODULE Contexts ------------------------------
(***************************************************************************)
(* azer/afx/compiler/context.cc: what a name means.                        *)
(*                                                                         *)
(* Every file has a ParseContext; those of the files it includes are its   *)
(* children, parsed before it.  A name is looked up twice.  The tokenizer  *)
(* asks LookupSymbolType, at once, whether the identifier is a structure   *)
(* or a function, and under which full name: the full name goes into the   *)
(* AST.  When the file has been parsed, the validator asks LookupType and  *)
(* LookupFunction for the declaration of that full name.  The two walk     *)
(* along the contexts by different rules, and the first walks while the    *)
(* tables it reads are still being filled.                                 *)
(*                                                                         *)
(* A statement of a file is a step; those of a function's body come before *)
(* the step that defines the function.  The first error ends the model:    *)
(* whatever is read after it, the file fails, and so do those above it.    *)
(* Left out: a prefix "P::" without a name behind it, variables, the       *)
(* built-in functions, which are asked before all others.                  *)
(***************************************************************************)
EXTENDS Naturals, Sequences, FiniteSets, SequencesExt, FiniteSetsExt

CONSTANTS
  N,              \* number of files, numbered in the order they are parsed
  Packages,       \* without the global one
  Names,          \* of functions and structures
  Signatures,     \* lists of parameter types
  MaxStatements   \* bound: statements read of each file

ASSUME SomeFile == N \in Nat \ {0}

Contexts == 1 .. N
Global == "global"    \* the package "", which only the first file may have
Nowhere == 0
Qualifiers == Packages \cup {Global}

ASSUME GlobalIsNoPackage == Global \notin Packages
ASSUME TypeIsNoSignature == "type" \notin Signatures

VARIABLES
  up,           \* parent() of the contexts
  package,      \* package_
  symbol_type,  \* symbol_type_, "unknown" for what is not in it
  struct_decl,  \* struct_decl_, as the set of its names
  functions,    \* functions_, as the set of name and signature
  now,          \* the file being parsed
  read,         \* statements of it that have been read
  uses,         \* the nodes of its tree that refer to a declaration
  resolved,     \* those of the files that have been validated
  failed        \* errno_

vars == <<up, package, symbol_type, struct_decl, functions, now, read, uses, resolved, failed>>

\* The numbers of a tree's nodes in postorder.
Postorder(u) ==
  /\ \A c \in Contexts \ {N} : u[c] > c
  /\ \A a, b \in Contexts \ {N} : a < b /\ b < u[a] => u[b] <= u[a]

Init ==
  /\ up \in {u \in [Contexts -> Contexts \cup {Nowhere}] :
               (\A c \in Contexts : u[c] = Nowhere <=> c = N) /\ Postorder(u)}
  /\ package \in {p \in [Contexts -> Qualifiers] : \A c \in Contexts \ {N} : p[c] # Global}
  /\ symbol_type = [c \in Contexts |-> [n \in Names |-> "unknown"]]
  /\ struct_decl = [c \in Contexts |-> {}]
  /\ functions = [c \in Contexts |-> {}]
  /\ now = 1 /\ read = 0
  /\ uses = {} /\ resolved = {}
  /\ failed = FALSE

\* A loop over the children of c goes through them in the order they were parsed,
\* which is that of their numbers: it is FlattenSeq of what every context adds.

----------------------------------------------------------------------------
\* LookupSymbolType, without the name: the contexts it asks, in order, each with
\* the package that is put before the name if the name is found there.

Under(p, places) == [i \in DOMAIN places |-> [places[i] EXCEPT !.as = p]]

\* Mutant of PlacesFromDep: a name found further down gets the child's package.
PlacesFromDepOfChild ==
  LET from[c \in Contexts] == [p \in Qualifiers |->
        LET own == IF package[c] = p THEN <<[at |-> c, as |-> p]>> ELSE <<>>
            Below(d) ==
              Under(package[d],
                (IF package[d] = p THEN <<[at |-> d, as |-> p]>> \o from[d][Global] ELSE <<>>)
                  \o from[d][IF p = Global THEN package[c] ELSE p])
        IN  own \o FlattenSeq([d \in Contexts |-> IF up[d] = c THEN Below(d) ELSE <<>>])]
  IN  from

\* Mutant of PlacesFromDep: only the children are asked.
PlacesFromDepOneLevel ==
  LET from[c \in Contexts] == [p \in Qualifiers |->
        LET Asked(d) == package[d] = (IF p = Global THEN package[c] ELSE p)
        IN  (IF package[c] = p THEN <<[at |-> c, as |-> p]>> ELSE <<>>)
              \o FlattenSeq([d \in Contexts |->
                    IF up[d] = c /\ Asked(d) THEN <<[at |-> d, as |-> package[d]]>> ELSE <<>>])]
  IN  from

\* LookupSymbolTypeFromDep(p, ...) of context c.  A name that is looked up in
\* "" is looked up below in the package of the context that asks.
PlacesFromDep ==
  LET from[c \in Contexts] == [p \in Qualifiers |->
        LET own == IF package[c] = p THEN <<[at |-> c, as |-> p]>> ELSE <<>>
            Below(d) ==
              (IF package[d] = p
               THEN Under(p, <<[at |-> d, as |-> p]>> \o from[d][Global]) ELSE <<>>)
                \o (IF p # Global THEN Under(p, from[d][p])
                                  ELSE Under(package[d], from[d][package[c]]))
        IN  own \o FlattenSeq([d \in Contexts |-> IF up[d] = c THEN Below(d) ELSE <<>>])]
  IN  from

\* LookupSymbolType of context c, with extern_prefix_ p.
Places(c, p) ==
  IF p = Global THEN <<[at |-> c, as |-> package[c]]>> \o PlacesFromDep[c][Global]
                ELSE PlacesFromDep[c][p]

\* Where the tokenizer of c meets the name n behind the prefix p.
Met(c, p, n) ==
  LET places == Places(c, p)
      hits == {i \in DOMAIN places : symbol_type[places[i].at][n] # "unknown"}
  IN  IF hits = {} THEN [at |-> Nowhere, as |-> Global] ELSE places[Min(hits)]

TypeOf(place, n) == IF place.at = Nowhere THEN "unknown" ELSE symbol_type[place.at][n]

----------------------------------------------------------------------------
\* LookupType and LookupFunction: depth first, without regard to who asks.

Preorder ==
  LET from[c \in Contexts] ==
        <<c>> \o FlattenSeq([d \in Contexts |-> IF up[d] = c THEN from[d] ELSE <<>>])
  IN  from

FirstIn(c, declaring) ==
  LET order == Preorder[c]
      hits == {i \in DOMAIN order : order[i] \in declaring}
  IN  IF hits = {} THEN Nowhere ELSE order[Min(hits)]

\* Mutant of LookupType: the package is not compared.
LookupTypeAnyPackage(c, p, n) == FirstIn(c, {d \in Contexts : n \in struct_decl[d]})

LookupType(c, p, n) ==
  LET In(q) == FirstIn(c, {d \in Contexts : package[d] = q /\ n \in struct_decl[d]}) IN
  IF p = Global /\ In(package[c]) # Nowhere THEN In(package[c]) ELSE In(p)

LookupFunction(c, p, n, s) ==
  FirstIn(c, {d \in Contexts : package[d] = p /\ <<n, s>> \in functions[d]})

----------------------------------------------------------------------------
Reads ==
  /\ ~failed
  /\ now <= N
  /\ read < MaxStatements[now]
  /\ read' = read + 1
  /\ UNCHANGED <<up, package, now, resolved>>

Registers(n, type) == symbol_type' = [symbol_type EXCEPT ![now][n] = type]

\* Mutant of DeclareStruct: only another structure is in the way.
DeclareStructOverFunction(n) ==
  LET met == Met(now, Global, n) IN
  /\ Reads
  /\ IF met.at = Nowhere THEN Registers(n, "struct") ELSE UNCHANGED symbol_type
  /\ struct_decl' =
       IF TypeOf(met, n) = "struct" THEN struct_decl
                                    ELSE [struct_decl EXCEPT ![now] = @ \cup {n}]
  /\ failed' = (TypeOf(met, n) = "struct")
  /\ UNCHANGED <<functions, uses>>

\* struct n {...};  A known name is refused: a structure's by the grammar (the
\* tokenizer makes STRUCT_TYPE of it), a function's by REGISTER_STRUCT.
DeclareStruct(n) ==
  LET met == Met(now, Global, n) IN
  /\ Reads
  /\ IF met.at = Nowhere THEN Registers(n, "struct") ELSE UNCHANGED symbol_type
  /\ struct_decl' =
       IF TypeOf(met, n) = "struct" THEN struct_decl
                                    ELSE [struct_decl EXCEPT ![now] = @ \cup {n}]
  /\ failed' = (met.at # Nowhere)
  /\ UNCHANGED <<functions, uses>>

\* Mutant of FunctionClashes: the included files are not asked.
FunctionClashesLocally(n) == symbol_type[now][n] = "struct"

\* REGISTER_FUNCDECL refuses n: it is known, and not as a function of this file.
FunctionClashes(n) ==
  LET met == Met(now, Global, n) IN
  met.at # Nowhere /\ ~(met.at = now /\ symbol_type[now][n] = "function")

\* float n(...);
DeclareFunction(n) ==
  /\ Reads
  /\ IF FunctionClashes(n) THEN UNCHANGED symbol_type ELSE Registers(n, "function")
  /\ failed' = FunctionClashes(n)
  /\ UNCHANGED <<struct_decl, functions, uses>>

\* float n(...) {...}  REGISTER_FUNCDECL, then AddFunction; a structure's name
\* is a syntax error.
DefineFunction(n, s) ==
  /\ Reads
  /\ IF FunctionClashes(n) THEN UNCHANGED symbol_type ELSE Registers(n, "function")
  /\ functions' =
       IF TypeOf(Met(now, Global, n), n) = "struct" THEN functions
                                    ELSE [functions EXCEPT ![now] = @ \cup {<<n, s>>}]
  /\ failed' = (FunctionClashes(n) \/ <<n, s>> \in functions[now])
  /\ UNCHANGED <<struct_decl, uses>>

\* p::n x;  The full name is what LookupSymbolType says.
UseType(p, n) ==
  LET met == Met(now, p, n) IN
  /\ Reads
  /\ failed' = (TypeOf(met, n) # "struct")
  /\ uses' = uses \cup {[sort |-> "type", by |-> now, prefix |-> p, name |-> n,
                         met |-> met.at, full |-> met.as, decl |-> Nowhere]}
  /\ UNCHANGED <<symbol_type, struct_decl, functions>>

\* p::n(...)  Only behind a prefix does the name have to be known, and only
\* there is it replaced by the full name.
CallFunction(p, n, s) ==
  LET met == Met(now, p, n) IN
  /\ Reads
  /\ failed' = IF p = Global THEN TypeOf(met, n) = "struct" ELSE TypeOf(met, n) # "function"
  /\ uses' = uses \cup {[sort |-> s, by |-> now, prefix |-> p, name |-> n, met |-> met.at,
                         full |-> IF p = Global THEN Global ELSE met.as, decl |-> Nowhere]}
  /\ UNCHANGED <<symbol_type, struct_decl, functions>>

\* ContextValidator: LookupTypeDecl, LookupFunctionDecl.
DeclarationOf(u) ==
  IF u.sort = "type" THEN LookupType(u.by, u.full, u.name)
                     ELSE LookupFunction(u.by, u.full, u.name, u.sort)

\* The file has been parsed: its tree is validated, and the next one is parsed.
EndOfFile ==
  LET found == {[u EXCEPT !.decl = DeclarationOf(u)] : u \in uses} IN
  /\ ~failed
  /\ now <= N
  /\ IF \E u \in found : u.decl = Nowhere
     THEN failed' = TRUE /\ UNCHANGED <<now, read, uses, resolved>>
     ELSE /\ now' = now + 1 /\ read' = 0
          /\ uses' = {} /\ resolved' = resolved \cup found
          /\ UNCHANGED failed
  /\ UNCHANGED <<up, package, symbol_type, struct_decl, functions>>

Next ==
  \/ \E n \in Names : DeclareStruct(n) \/ DeclareFunction(n)
  \/ \E n \in Names, s \in Signatures : DefineFunction(n, s)
  \/ \E p \in Qualifiers, n \in Names : UseType(p, n)
  \/ \E p \in Qualifiers, n \in Names, s \in Signatures : CallFunction(p, n, s)
  \/ EndOfFile

Spec == Init /\ [][Next]_vars

----------------------------------------------------------------------------
\* Properties.

Below(c) == ToSet(Preorder[c])

\* No package is opened again below a file of another one.
Unmixed ==
  \A c \in Contexts : \A d \in Below(c) :
    package[c] = package[d] => \A e \in Below(c) : d \in Below(e) => package[e] = package[c]

Uses == IF failed THEN resolved ELSE uses \cup resolved

\* As long as nothing is refused, what a file has registered as a structure it
\* has declared, and what it has defined is registered as a function.
TypeOK ==
  /\ symbol_type \in [Contexts -> [Names -> {"unknown", "struct", "function"}]]
  /\ functions \in [Contexts -> SUBSET (Names \X Signatures)]
  /\ now \in 1 .. N + 1 /\ read \in Nat
  /\ ~failed => \A c \in Contexts :
       /\ struct_decl[c] = {n \in Names : symbol_type[c][n] = "struct"}
       /\ \A f \in functions[c] : symbol_type[c][f[1]] = "function"
       /\ c > now => \A n \in Names : symbol_type[c][n] = "unknown"

\* A name that is written with its package keeps the package, however deep it is
\* found.
PackageKept ==
  \A u \in Uses : u.prefix # Global /\ u.met # Nowhere => u.full = u.prefix

\* What the tokenizer has made of an identifier stays right: nothing that is
\* declared later, in the same file or another, would change its answer.
AnswerStays ==
  \A u \in Uses : u.met # Nowhere => Met(u.by, u.prefix, u.name).at = u.met

\* On a path of includes no name is declared by two files of one package, be it
\* as a function or a structure, unless the load fails.
NoRedeclaration ==
  ~failed =>
    \A c \in Contexts : \A d \in Below(c) \ {c} : package[c] = package[d] =>
      \A n \in Names : symbol_type[c][n] = "unknown" \/ symbol_type[d][n] = "unknown"

\* The validator finds the declaration that the tokenizer has met ("identify
\* whether the identifier is a variable, a function or a structure", context.h):
\* the full name in the AST leads back to it.
TokenMeansDeclaration ==
  \A u \in Uses : u.sort = "type" => DeclarationOf(u) = u.met

\* It does where no package is opened again below another, unless a name without
\* a package has been met in another package.
MeansDeclarationUnmixed ==
  Unmixed =>
    \A u \in Uses :
      /\ u.sort = "type"
      /\ package[u.met] = IF u.prefix = Global THEN package[u.by] ELSE u.prefix
      => DeclarationOf(u) = u.met
=============================================================================
