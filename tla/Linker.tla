------------------------------- MODULE Linker -------------------------------
(***************************************************************************)
(* azer/afx/linker: AfxLinker::Load.  First the root file is preprocessed, *)
(* and every #include on the way loads, and preprocesses, one more Program *)
(* before the includer goes on (AfxLinker::OnAddInclude calls back into    *)
(* Program::Preprocess).  Then the tree of Programs is parsed from the     *)
(* leaves up (ParseASTreeRecursive), and the contexts of the parsed        *)
(* programs are linked into a second tree, along which names are looked    *)
(* up.  The C++ stack of either recursion is the variable stack.           *)
(*                                                                         *)
(* A file is the sequence of its preprocessor statements and the verdict   *)
(* of the AFX parser on its code.  Programs are numbered as they are       *)
(* created; 1 is the root.                                                 *)
(***************************************************************************)
EXTENDS Naturals, Sequences, FiniteSets, SequencesExt

CONSTANTS
  Files, Root,      \* the files that may be asked for; Root is the one given to Load
  Keys, Values,     \* of #define
  Empty,            \* the value of a macro that is defined without one
  Undefined,        \* a key that is not in defined_
  Texts,            \* Texts[f]: the statement sequences f may consist of
  MaxPrograms       \* bound on the programs of one Load; the code has none

ASSUME RootIsAFile == Root \in Files
ASSUME UndefinedIsNoValue == Undefined \notin Values
ASSUME EmptyIsAValue == Empty \in Values

VARIABLES
  disk,      \* the files LoadFile finds
  text,      \* text[f]: the statements of f
  sound,     \* the files whose code afx_yyparse and the validator accept
  programs,  \* the Programs, with the preprocessor and the context of each
  stack,     \* the activations of Preprocess, later of ParseASTreeRecursive
  phase,     \* "preprocess", "parse" or "done"
  failed,    \* AfxLinker::failed_
  result     \* what Load returned; FALSE until then

inputs == <<disk, text, sound>>
vars == <<disk, text, sound, programs, stack, phase, failed, result>>

\* The preprocessor statements (preprocessor.y).  "#define K" defines K with
\* the value Empty, "#define K v" and "#define K(x) v" with the value v;
\* "#define K(x)" is the statement "params".
Statements ==
  [op : {"include"}, file : Files, quoted : BOOLEAN]
    \cup [op : {"package", "broken"}]
    \cup [op : {"define"}, key : Keys, value : Values]
    \cup [op : {"undef", "params"}, key : Keys]

ASSUME TextsAreStatements == \A f \in Files : Texts[f] \subseteq Seq(Statements)

\* What a preprocessor may have for a key.
Entries == Values \cup {Undefined}

NewProgram(f, parent) ==
  [ file |-> f, parent |-> parent,
    children |-> <<>>,                       \* the children as a TreeNode
    defined |-> [k \in Keys |-> Undefined],  \* PreprocessorParser::defined_
    includes |-> {},                         \* includes_
    package |-> FALSE,                       \* package_ is not empty
    wrong |-> FALSE,                         \* PreprocessorParser::failed_
    context |-> FALSE,                       \* context_ is set
    parsed |-> "no",                         \* "no", "ok" or "bad"
    kids |-> <<>> ]                          \* the children of context_

Programs == DOMAIN programs
ChildrenOf(p) == programs[p].children

\* p and the programs on the way to the root.
Ancestors(p) ==
  {a \in Programs :
     \A S \in SUBSET Programs :
       p \in S /\ (\A x \in S : programs[x].parent \in S \cup {0}) => a \in S}

Init ==
  /\ text \in {t \in [Files -> UNION {Texts[f] : f \in Files}] :
                 \A f \in Files : t[f] \in Texts[f]}
  /\ disk \in {d \in SUBSET Files : Root \in d}
  /\ sound \in SUBSET Files
  /\ programs = <<NewProgram(Root, 0)>>
  /\ stack = <<[prog |-> 1, at |-> 1]>>
  /\ phase = "preprocess"
  /\ failed = FALSE
  /\ result = FALSE

----------------------------------------------------------------------------
\* Preprocessing: the statement at which the innermost activation stands.

Current == Last(stack).prog
Standing == Last(stack).at
TextOf(p) == text[programs[p].file]
Advanced(to) == [stack EXCEPT ![Len(stack)].at = to]

\* The next statement is s; the activation moves on to what follows it.
Reads(s) ==
  /\ phase = "preprocess"
  /\ Standing <= Len(TextOf(Current))
  /\ s = TextOf(Current)[Standing]

\* Mutant of AlreadyIncluded: the quotes do not matter.
AlreadyIncludedEitherWay(p, s) == s.file \in programs[p].includes

\* AddIncludes compares the path as it is written with the paths it has stored
\* without quotes, so a quoted path is never recognised.
AlreadyIncluded(p, s) == ~s.quoted /\ s.file \in programs[p].includes

\* Mutant of SkipInclude: the statement is read again.
SkipIncludeAgain ==
  \E s \in Statements :
    /\ Reads(s) /\ s.op = "include"
    /\ AlreadyIncluded(Current, s)
    /\ UNCHANGED vars

SkipInclude ==
  \E s \in Statements :
    /\ Reads(s) /\ s.op = "include"
    /\ AlreadyIncluded(Current, s)
    /\ stack' = Advanced(Standing + 1)
    /\ UNCHANGED <<inputs, programs, phase, failed, result>>

\* Mutant of IncludeMissing: the error is not recorded.
IncludeMissingUnreported ==
  \E s \in Statements :
    /\ Reads(s) /\ s.op = "include"
    /\ ~AlreadyIncluded(Current, s)
    /\ s.file \notin disk
    /\ programs' = [programs EXCEPT ![Current].includes = @ \cup {s.file}]
    /\ stack' = Advanced(Standing + 1)
    /\ UNCHANGED <<inputs, phase, failed, result>>

\* OnAddInclude cannot load the file; the includer goes on.
IncludeMissing ==
  \E s \in Statements :
    /\ Reads(s) /\ s.op = "include"
    /\ ~AlreadyIncluded(Current, s)
    /\ s.file \notin disk
    /\ programs' = [programs EXCEPT ![Current].includes = @ \cup {s.file}]
    /\ stack' = Advanced(Standing + 1)
    /\ failed' = TRUE
    /\ UNCHANGED <<inputs, phase, result>>

\* OnAddInclude makes the Program, a child of the includer, and preprocesses it.
IncludeFile ==
  \E s \in Statements :
    /\ Reads(s) /\ s.op = "include"
    /\ ~AlreadyIncluded(Current, s)
    /\ s.file \in disk
    /\ Len(programs) < MaxPrograms
    /\ programs' = Append([programs EXCEPT ![Current].includes = @ \cup {s.file},
                                           ![Current].children = Append(@, Len(programs) + 1)],
                          NewProgram(s.file, Current))
    /\ stack' = Append(Advanced(Standing + 1), [prog |-> Len(programs) + 1, at |-> 1])
    /\ UNCHANGED <<inputs, phase, failed, result>>

\* A second #package is an error, but the parse goes on.
DeclarePackage ==
  \E s \in Statements :
    /\ Reads(s) /\ s.op = "package"
    /\ programs' = [programs EXCEPT ![Current].package = TRUE,
                                    ![Current].wrong = @ \/ programs[Current].package]
    /\ stack' = Advanced(Standing + 1)
    /\ UNCHANGED <<inputs, phase, failed, result>>

\* Mutant of SetInAll: the includers are not told.
SetInCurrent(k, to) ==
  programs' = [programs EXCEPT ![Current].defined[k] = to[@]]

\* AddDefined, SetDefinedParams, SetDefinedValue and RemoveDefined call themselves on
\* the parent's preprocessor: on each level the entry e of the key becomes to[e].
SetInAll(k, to) ==
  programs' = [p \in Programs |->
    IF p \in Ancestors(Current) THEN [programs[p] EXCEPT !.defined[k] = to[@]] ELSE programs[p]]

Define ==
  \E s \in Statements :
    /\ Reads(s) /\ s.op = "define"
    /\ SetInAll(s.key, [e \in Entries |-> s.value])
    /\ stack' = Advanced(Standing + 1)
    /\ UNCHANGED <<inputs, phase, failed, result>>

\* SetDefinedParams makes an entry where there is none, and leaves the value of one
\* that is there.
DefineParams ==
  \E s \in Statements :
    /\ Reads(s) /\ s.op = "params"
    /\ SetInAll(s.key, [e \in Entries |-> IF e = Undefined THEN Empty ELSE e])
    /\ stack' = Advanced(Standing + 1)
    /\ UNCHANGED <<inputs, phase, failed, result>>

Undefine ==
  \E s \in Statements :
    /\ Reads(s) /\ s.op = "undef"
    /\ SetInAll(s.key, [e \in Entries |-> Undefined])
    /\ stack' = Advanced(Standing + 1)
    /\ UNCHANGED <<inputs, phase, failed, result>>

\* yyerror: preprocessor_yyparse gives up on the rest of the file.
BreakOff ==
  \E s \in Statements :
    /\ Reads(s) /\ s.op = "broken"
    /\ programs' = [programs EXCEPT ![Current].wrong = TRUE]
    /\ stack' = Advanced(Len(TextOf(Current)) + 1)
    /\ UNCHANGED <<inputs, phase, failed, result>>

\* Mutant of FinishInclude: what Preprocess returns is not looked at.
FinishIncludeUnchecked ==
  /\ phase = "preprocess"
  /\ Standing > Len(TextOf(Current))
  /\ Len(stack) > 1
  /\ programs' = [programs EXCEPT ![Current].context = ~programs[Current].wrong]
  /\ stack' = Front(stack)
  /\ UNCHANGED <<inputs, phase, failed, result>>

\* An included file is through: Preprocess returns into OnAddInclude.
FinishInclude ==
  /\ phase = "preprocess"
  /\ Standing > Len(TextOf(Current))
  /\ Len(stack) > 1
  /\ programs' = [programs EXCEPT ![Current].context = ~programs[Current].wrong]
  /\ failed' = (failed \/ programs[Current].wrong)
  /\ stack' = Front(stack)
  /\ UNCHANGED <<inputs, phase, result>>

\* The root is through: Load stops, or goes on to parse.
FinishRoot ==
  /\ phase = "preprocess"
  /\ Standing > Len(TextOf(Current))
  /\ Len(stack) = 1
  /\ programs' = [programs EXCEPT ![1].context = ~programs[1].wrong]
  /\ failed' = (failed \/ programs[1].wrong)
  /\ IF failed' THEN phase' = "done" /\ stack' = <<>>
               ELSE phase' = "parse" /\ stack' = <<[prog |-> 1, at |-> 1]>>
  /\ UNCHANGED <<inputs, result>>

----------------------------------------------------------------------------
\* ParseASTreeRecursive: at is the child the loop has come to.

\* Every activation returns false.
GiveUp == phase' = "done" /\ stack' = <<>> /\ failed' = TRUE /\ UNCHANGED result

RefuseChild ==
  /\ phase = "parse"
  /\ Standing <= Len(ChildrenOf(Current))
  /\ ~programs[ChildrenOf(Current)[Standing]].package
  /\ GiveUp
  /\ UNCHANGED <<inputs, programs>>

EnterChild ==
  /\ phase = "parse"
  /\ Standing <= Len(ChildrenOf(Current))
  /\ programs[ChildrenOf(Current)[Standing]].package
  /\ stack' = Append(Advanced(Standing + 1),
                     [prog |-> ChildrenOf(Current)[Standing], at |-> 1])
  /\ UNCHANGED <<inputs, programs, phase, failed, result>>

\* Mutant of Linked: the program's context goes below the root's.
LinkedToRoot(p, verdict) ==
  [q \in Programs |->
    IF q = p THEN [programs[q] EXCEPT !.parsed = verdict]
    ELSE IF q = 1 THEN [programs[q] EXCEPT !.kids = Append(@, p)]
    ELSE programs[q]]

\* The programs after Program::ParseASTree of p: p's context is a child of its
\* includer's, and p is parsed.
Linked(p, verdict) ==
  [q \in Programs |->
    IF q = p THEN [programs[q] EXCEPT !.parsed = verdict]
    ELSE IF q = programs[p].parent THEN [programs[q] EXCEPT !.kids = Append(@, p)]
    ELSE programs[q]]

ChildrenAreDone(p, at) == at > Len(ChildrenOf(p))

ParseProgram ==
  /\ phase = "parse"
  /\ ChildrenAreDone(Current, Standing)
  /\ programs[Current].file \in sound
  /\ programs' = Linked(Current, "ok")
  /\ IF Len(stack) = 1 THEN phase' = "done" /\ stack' = <<>> /\ result' = TRUE
                       ELSE stack' = Front(stack) /\ UNCHANGED <<phase, result>>
  /\ UNCHANGED <<inputs, failed>>

RejectProgram ==
  /\ phase = "parse"
  /\ ChildrenAreDone(Current, Standing)
  /\ programs[Current].file \notin sound
  /\ programs' = Linked(Current, "bad")
  /\ GiveUp
  /\ UNCHANGED inputs

Next ==
  \/ SkipInclude \/ IncludeMissing \/ IncludeFile
  \/ DeclarePackage \/ Define \/ DefineParams \/ Undefine \/ BreakOff
  \/ FinishInclude \/ FinishRoot
  \/ RefuseChild \/ EnterChild \/ ParseProgram \/ RejectProgram

\* Load is one call on one thread: while it can go on it does.
Spec == Init /\ [][Next]_vars /\ WF_vars(Next)

----------------------------------------------------------------------------
\* Properties.

TypeOK ==
  /\ disk \subseteq Files /\ sound \subseteq Files
  /\ \A f \in Files : text[f] \in Texts[f]
  /\ \A p \in Programs :
       /\ programs[p].file \in Files
       /\ programs[p].parent \in 0 .. p - 1
       /\ ToSet(programs[p].children) = {c \in Programs : programs[c].parent = p}
       /\ programs[p].defined \in [Keys -> Entries]
       /\ programs[p].includes \subseteq Files
       /\ programs[p].parsed \in {"no", "ok", "bad"}
       /\ programs[p].parsed # "no" => programs[p].context
  /\ \A i \in DOMAIN stack : stack[i].prog \in Programs /\ stack[i].at \in Nat \ {0}
  /\ phase \in {"preprocess", "parse", "done"}
  /\ failed \in BOOLEAN /\ result \in BOOLEAN

\* The includer's entry of a key is good enough for the included file's: the key is
\* known, and has the value, unless that is the empty one.
Covers(outer, inner) ==
  inner # Undefined => outer # Undefined /\ (inner # Empty => outer = inner)

\* While a file is being preprocessed its includers know every key it has
\* defined, and with the same value unless it has none there: a macro set deep
\* down is visible to all the code that follows the #include, on every level.
\* (The exception is "#define K(x)", which gives K the empty value in the file
\* and leaves an older value in the includers.)
DefinesFlowUp ==
  \A i, j \in DOMAIN stack : phase = "preprocess" /\ i < j =>
    \A k \in Keys :
      Covers(programs[stack[i].prog].defined[k], programs[stack[j].prog].defined[k])

\* The files f asks for, in order.
Asks(f) ==
  LET t == text[f]
      first(i) == \A j \in 1 .. i - 1 : t[j].op = "include" => t[j].file # t[i].file
      kept == {i \in DOMAIN t : t[i].op = "include" /\ (t[i].quoted \/ first(i))}
  IN  [n \in 1 .. Cardinality(kept) |->
         t[CHOOSE i \in kept : Cardinality({j \in kept : j <= i}) = n].file]

\* A preprocessed program that no error has touched has one child for every
\* #include of its text, in the order of the text, whatever the files below it
\* include in turn; only repeats without quotes are skipped.
ChildrenMirrorText ==
  \A p \in Programs :
    programs[p].context /\ ~failed =>
      LET kids == ChildrenOf(p) IN
      [i \in DOMAIN kids |-> programs[kids[i]].file] = Asks(programs[p].file)

\* A program's code is parsed only when everything it includes has been parsed
\* and hangs, in order, below its context: symbol lookup goes down from there.
BottomUp ==
  \A p \in Programs :
    /\ IsPrefix(programs[p].kids, ChildrenOf(p))
    /\ programs[p].parsed # "no" =>
         /\ programs[p].kids = ChildrenOf(p)
         /\ \A c \in ToSet(programs[p].kids) : programs[c].parsed = "ok"

\* The files that are met from the root.
Needed ==
  {f \in Files :
     \A S \in SUBSET Files :
       Root \in S /\ (\A g \in S : ToSet(Asks(g)) \subseteq S) => f \in S}

Loadable ==
  /\ Needed \subseteq disk \cap sound
  /\ \A f \in Needed :
       LET packages == {i \in DOMAIN text[f] : text[f][i].op = "package"} IN
       /\ \A i \in DOMAIN text[f] : text[f][i].op # "broken"
       /\ Cardinality(packages) <= 1
       /\ f # Root => Cardinality(packages) = 1

\* Load succeeds exactly if every file that is needed, at whatever depth, can be
\* loaded, preprocessed and parsed and, but for the root, names its package: no
\* error below is lost on the way up, and none is invented.
VerdictIsRight == phase = "done" => (result <=> Loadable)

\* Load comes back.
LoadReturns == <>(phase = "done")

\* "Load the files that are depended on and check the circular dependencies"
\* (linker.h): no file is opened while it is being preprocessed.
CircularIncludeRefused ==
  phase = "preprocess" =>
    \A i, j \in DOMAIN stack :
      i # j => programs[stack[i].prog].file # programs[stack[j].prog].file
=============================================================================
