---------------------------- MODULE LinkerProofs ----------------------------
(***************************************************************************)
(* The data structures of AfxLinker::Load are consistent (TypeCorrect),    *)
(* macros flow up to all includers (DefinesReachIncluders), and programs   *)
(* are linked and parsed from the leaves up (ParsedBottomUp), for all      *)
(* files, texts and keys, with or without circular includes.               *)
(*                                                                         *)
(* While files are preprocessed, the programs of the stack are the         *)
(* includers of the innermost.  While they are parsed, every activation    *)
(* has finished the children before the one it has come to, and has not    *)
(* touched those behind it.                                                *)
(***************************************************************************)
EXTENDS Linker, SequenceTheorems, TLAPS

Activations == [prog : Nat \ {0}, at : Nat \ {0}]

ProgramRecords ==
  [ file : Files, parent : Nat, children : Seq(Nat),
    defined : [Keys -> Entries], includes : SUBSET Files,
    package : BOOLEAN, wrong : BOOLEAN, context : BOOLEAN,
    parsed : {"no", "ok", "bad"}, kids : Seq(Nat) ]

Typed ==
  /\ disk \subseteq Files /\ sound \subseteq Files
  /\ \A f \in Files : text[f] \in Texts[f]
  /\ programs \in Seq(ProgramRecords)
  /\ stack \in Seq(Activations)
  /\ \A i \in DOMAIN stack : stack[i].prog \in Programs
  /\ phase \in {"preprocess", "parse", "done"}
  /\ failed \in BOOLEAN /\ result \in BOOLEAN
  /\ phase # "done" => stack # <<>>

\* The two sides of the tree of programs.
Tree ==
  /\ \A p \in Programs : programs[p].parent < p
  /\ \A p \in Programs : \A i \in DOMAIN ChildrenOf(p) :
       ChildrenOf(p)[i] \in Programs /\ programs[ChildrenOf(p)[i]].parent = p
  /\ \A p \in Programs : \A i, j \in DOMAIN ChildrenOf(p) :
       ChildrenOf(p)[i] = ChildrenOf(p)[j] => i = j
  /\ \A p, c \in Programs : programs[c].parent = p =>
       \E i \in DOMAIN ChildrenOf(p) : ChildrenOf(p)[i] = c

OnStack(p) == \E i \in DOMAIN stack : stack[i].prog = p

ParsedHasContext == \A p \in Programs : programs[p].parsed # "no" => programs[p].context

Preprocessing ==
  /\ stack[1].prog = 1
  /\ \A i, j \in DOMAIN stack : i <= j => stack[i].prog \in Ancestors(stack[j].prog)
  /\ \A p \in Programs : programs[p].parsed = "no" /\ programs[p].kids = <<>>
  /\ \A p \in Programs : OnStack(p) \/ programs[p].context \/ failed

\* The number of children the i-th activation has finished.
Finished(i) == IF i = Len(stack) THEN stack[i].at - 1 ELSE stack[i].at - 2

\* The loop of the i-th activation over the children of its program.
Underway(i) ==
  LET p == stack[i].prog IN
  /\ stack[i].at <= Len(ChildrenOf(p)) + 1
  /\ i < Len(stack) => stack[i].at >= 2 /\ stack[i + 1].prog = ChildrenOf(p)[stack[i].at - 1]
  /\ programs[p].parsed = "no"
  /\ programs[p].kids = SubSeq(ChildrenOf(p), 1, Finished(i))
  /\ \A k \in 1 .. Finished(i) : programs[ChildrenOf(p)[k]].parsed = "ok"
  /\ \A k \in DOMAIN ChildrenOf(p) : k >= stack[i].at => programs[ChildrenOf(p)[k]].parsed = "no"

Untouched(p) ==
  /\ programs[p].kids = <<>>
  /\ \A k \in DOMAIN ChildrenOf(p) : programs[ChildrenOf(p)[k]].parsed = "no"

Parsing ==
  /\ stack[1].prog = 1
  /\ \A p \in Programs : programs[p].context
  /\ \A i, j \in DOMAIN stack : i < j => stack[i].prog < stack[j].prog
  /\ \A i \in DOMAIN stack : Underway(i)
  /\ \A p \in Programs : programs[p].parsed = "no" /\ ~OnStack(p) => Untouched(p)

LinkInv ==
  /\ Typed
  /\ Tree
  /\ ParsedHasContext
  /\ BottomUp
  /\ phase = "preprocess" => Preprocessing
  /\ phase = "parse" => Parsing

----------------------------------------------------------------------------
\* The stack.

LEMMA Top ==
  ASSUME Typed, stack # <<>>
  PROVE  /\ Len(stack) \in Nat \ {0} /\ DOMAIN stack = 1 .. Len(stack)
         /\ Len(stack) \in DOMAIN stack
         /\ Current = stack[Len(stack)].prog /\ Standing = stack[Len(stack)].at
         /\ Current \in Programs /\ Standing \in Nat \ {0}
<1>1. stack \in Seq(Activations)
  BY DEF Typed
<1>2. Len(stack) \in Nat \ {0} /\ DOMAIN stack = 1 .. Len(stack)
  BY <1>1, EmptySeq, LenProperties
<1>3. stack[Len(stack)] \in Activations
  BY <1>1, <1>2, ElementOfSeq
<1>4. QED
  BY <1>2, <1>3 DEF Current, Standing, Last, Activations, Typed

LEMMA AdvancedStack ==
  ASSUME Typed, stack # <<>>, NEW n \in Nat \ {0}
  PROVE  /\ Advanced(n) \in Seq(Activations)
         /\ Len(Advanced(n)) = Len(stack) /\ DOMAIN Advanced(n) = DOMAIN stack
         /\ \A i \in DOMAIN stack :
              /\ Advanced(n)[i].prog = stack[i].prog
              /\ Advanced(n)[i].at = IF i = Len(stack) THEN n ELSE stack[i].at
<1> DEFINE e == [stack[Len(stack)] EXCEPT !.at = n]
<1>1. stack \in Seq(Activations) /\ Len(stack) \in 1 .. Len(stack) /\ DOMAIN stack = 1 .. Len(stack)
  BY Top DEF Typed
<1>2. stack[Len(stack)] \in Activations
  BY <1>1, ElementOfSeq
<1>3. e \in Activations /\ e.prog = stack[Len(stack)].prog /\ e.at = n
  BY <1>2 DEF Activations
<1>4. Advanced(n) = [stack EXCEPT ![Len(stack)] = e]
  BY DEF Advanced
<1> HIDE DEF e
<1>5. /\ [stack EXCEPT ![Len(stack)] = e] \in Seq(Activations)
      /\ Len([stack EXCEPT ![Len(stack)] = e]) = Len(stack)
      /\ \A j \in 1 .. Len(stack) :
           [stack EXCEPT ![Len(stack)] = e][j] = IF j = Len(stack) THEN e ELSE stack[j]
  BY <1>1, <1>3, ExceptSeq
<1>6. DOMAIN Advanced(n) = 1 .. Len(stack)
  BY <1>4, <1>5, LenProperties
<1>7. QED
  BY <1>1, <1>3, <1>4, <1>5, <1>6

LEMMA PoppedStack ==
  ASSUME Typed, stack # <<>>
  PROVE  /\ Front(stack) \in Seq(Activations)
         /\ Len(Front(stack)) = Len(stack) - 1
         /\ DOMAIN Front(stack) = 1 .. Len(stack) - 1
         /\ \A i \in 1 .. Len(stack) - 1 : Front(stack)[i] = stack[i]
<1>1. stack \in Seq(Activations) /\ Len(stack) \in Nat \ {0}
  BY Top DEF Typed
<1> DEFINE n == Len(stack) - 1
           t == SubSeq(stack, 1, n)
<1>2. n \in Nat /\ \A i \in 1 .. n : stack[i] \in Activations
  BY <1>1, ElementOfSeq
<1>3. Front(stack) = t
  BY DEF Front
<1> HIDE DEF n
<1>4. /\ t \in Seq(Activations)
      /\ Len(t) = IF 1 <= n THEN n - 1 + 1 ELSE 0
      /\ \A i \in 1 .. n - 1 + 1 : t[i] = stack[1 + i - 1]
  BY <1>2, SubSeqProperties
<1> HIDE DEF t
<1>5. Len(t) = n /\ DOMAIN t = 1 .. n /\ \A i \in 1 .. n : t[i] = stack[i]
  <2>1. Len(t) = n
    BY <1>2, <1>4
  <2>2. DOMAIN t = 1 .. n
    BY <1>4, <2>1, LenProperties
  <2>3. ASSUME NEW i \in 1 .. n PROVE t[i] = stack[i]
    <3>1. i \in 1 .. n - 1 + 1 /\ 1 + i - 1 = i
      BY <1>2
    <3>2. QED BY <1>4, <3>1
  <2>4. QED BY <2>1, <2>2, <2>3
<1>6. QED
  BY <1>3, <1>4, <1>5 DEF n

----------------------------------------------------------------------------
\* The programs.

LEMMA ProgramTypes ==
  ASSUME Typed
  PROVE  /\ Len(programs) \in Nat /\ Programs = 1 .. Len(programs)
         /\ \A p \in Programs : p \in Nat \ {0} /\ programs[p] \in ProgramRecords
         /\ \A p \in Programs : /\ ChildrenOf(p) \in Seq(Nat)
                                /\ Len(ChildrenOf(p)) \in Nat
                                /\ DOMAIN ChildrenOf(p) = 1 .. Len(ChildrenOf(p))
                                /\ programs[p].parent \in Nat
<1>1. programs \in Seq(ProgramRecords)
  BY DEF Typed
<1>2. Len(programs) \in Nat /\ Programs = 1 .. Len(programs)
  BY <1>1, LenProperties DEF Programs
<1>3. \A p \in Programs : p \in Nat \ {0} /\ programs[p] \in ProgramRecords
  BY <1>1, <1>2, ElementOfSeq
<1>4. ASSUME NEW p \in Programs
      PROVE  /\ ChildrenOf(p) \in Seq(Nat)
             /\ Len(ChildrenOf(p)) \in Nat
             /\ DOMAIN ChildrenOf(p) = 1 .. Len(ChildrenOf(p))
             /\ programs[p].parent \in Nat
  <2>1. ChildrenOf(p) \in Seq(Nat) /\ programs[p].parent \in Nat
    BY <1>3 DEF ChildrenOf, ProgramRecords
  <2>2. QED
    BY <2>1, LenProperties
<1>5. QED
  BY <1>2, <1>3, <1>4

LEMMA ChangedProgram ==
  ASSUME Typed, NEW p \in Programs, NEW r \in ProgramRecords
  PROVE  /\ [programs EXCEPT ![p] = r] \in Seq(ProgramRecords)
         /\ Len([programs EXCEPT ![p] = r]) = Len(programs)
         /\ DOMAIN [programs EXCEPT ![p] = r] = Programs
         /\ \A q \in Programs : [programs EXCEPT ![p] = r][q] = IF q = p THEN r ELSE programs[q]
<1>1. programs \in Seq(ProgramRecords) /\ Programs = 1 .. Len(programs)
  BY ProgramTypes DEF Typed
<1>2. QED
  BY <1>1, ExceptSeq, LenProperties

\* What a statement of the preprocessor does not change.
ShapeKept ==
  /\ programs' \in Seq(ProgramRecords)
  /\ Programs' = Programs
  /\ \A p \in Programs :
       /\ programs'[p].parent = programs[p].parent
       /\ programs'[p].children = programs[p].children
       /\ programs'[p].parsed = programs[p].parsed
       /\ programs'[p].kids = programs[p].kids

LEMMA SameAncestors ==
  ASSUME ShapeKept, NEW p
  PROVE  Ancestors(p)' = Ancestors(p)
<1>1. \A S \in SUBSET Programs :
        (\A x \in S : programs'[x].parent \in S \cup {0})
          <=> (\A x \in S : programs[x].parent \in S \cup {0})
  BY DEF ShapeKept
<1>2. QED
  BY <1>1 DEF Ancestors, ShapeKept

LEMMA TreeKept ==
  ASSUME Tree, BottomUp, ShapeKept
  PROVE  Tree' /\ BottomUp'
<1>1. \A p \in Programs : ChildrenOf(p)' = ChildrenOf(p)
  BY DEF ShapeKept, ChildrenOf
<1>2. Tree'
  BY <1>1 DEF Tree, ShapeKept
<1>3. ASSUME NEW p \in Programs'
      PROVE  /\ IsPrefix(programs[p].kids, ChildrenOf(p))'
             /\ programs'[p].parsed # "no" =>
                  /\ programs'[p].kids = ChildrenOf(p)'
                  /\ \A c \in ToSet(programs'[p].kids) : programs'[c].parsed = "ok"
  <2>1. p \in Programs /\ programs'[p].kids = programs[p].kids
        /\ programs'[p].parsed = programs[p].parsed /\ ChildrenOf(p)' = ChildrenOf(p)
    BY <1>1, <1>3 DEF ShapeKept
  <2>2. IsPrefix(programs[p].kids, ChildrenOf(p))'
    BY <2>1 DEF BottomUp, IsPrefix
  <2>3. ASSUME programs'[p].parsed # "no"
        PROVE  /\ programs'[p].kids = ChildrenOf(p)'
               /\ \A c \in ToSet(programs'[p].kids) : programs'[c].parsed = "ok"
    <3>1. /\ programs[p].kids = ChildrenOf(p)
          /\ \A c \in ToSet(programs[p].kids) : programs[c].parsed = "ok"
      BY <2>1, <2>3 DEF BottomUp
    <3>2. \A c \in ToSet(programs[p].kids) : c \in Programs
      BY <2>1, <3>1 DEF Tree, ToSet
    <3>3. QED
      BY <2>1, <3>1, <3>2 DEF ShapeKept
  <2>4. QED BY <2>2, <2>3
<1>4. BottomUp'
  BY <1>3 DEF BottomUp
<1>5. QED BY <1>2, <1>4

LEMMA StatementPreserves ==
  ASSUME LinkInv, phase = "preprocess", ShapeKept,
         NEW n \in Nat \ {0}, stack' = Advanced(n),
         \A p \in Programs : programs'[p].context = programs[p].context,
         failed' \in BOOLEAN, failed => failed',
         UNCHANGED <<inputs, phase, result>>
  PROVE  LinkInv'
<1>1. Typed /\ stack # <<>>
  BY DEF LinkInv, Typed
<1>2. /\ stack' \in Seq(Activations)
      /\ Len(stack') = Len(stack) /\ DOMAIN stack' = DOMAIN stack
      /\ \A i \in DOMAIN stack : stack'[i].prog = stack[i].prog
  BY <1>1, AdvancedStack
<1>3. stack' # <<>> /\ 1 \in DOMAIN stack
  <2>1. Len(stack) # 0 /\ 1 \in DOMAIN stack
    BY <1>1, Top
  <2>2. QED BY <1>2, <2>1, EmptySeq
<1>4. Typed'
  BY <1>1, <1>2, <1>3 DEF Typed, ShapeKept, inputs
<1>5. Tree' /\ BottomUp'
  BY TreeKept DEF LinkInv
<1>6. ParsedHasContext'
  BY DEF LinkInv, ParsedHasContext, ShapeKept
<1>7. Preprocessing'
  <2>1. stack'[1].prog = 1
    BY <1>2, <1>3 DEF LinkInv, Preprocessing
  <2>2. ASSUME NEW i \in DOMAIN stack', NEW j \in DOMAIN stack', i <= j
        PROVE  stack'[i].prog \in Ancestors(stack[j].prog)'
    <3>1. PICK q : q = stack[j].prog
      OBVIOUS
    <3>2. stack[i].prog \in Ancestors(q)
      BY <1>2, <2>2, <3>1 DEF LinkInv, Preprocessing
    <3>3. stack'[i].prog \in Ancestors(q)' /\ q = stack'[j].prog
      BY <1>2, <3>1, <3>2, SameAncestors
    <3>4. QED BY <3>3
  <2>3. \A p \in Programs' : programs'[p].parsed = "no" /\ programs'[p].kids = <<>>
    BY DEF LinkInv, Preprocessing, ShapeKept
  <2>4. ASSUME NEW p \in Programs'
        PROVE  OnStack(p)' \/ programs'[p].context \/ failed'
    BY <1>2 DEF LinkInv, Preprocessing, ShapeKept, OnStack
  <2>5. QED BY <2>1, <2>2, <2>3, <2>4 DEF Preprocessing
<1>8. phase' = "preprocess"
  OBVIOUS
<1>9. QED BY <1>4, <1>5, <1>6, <1>7, <1>8 DEF LinkInv

\* A step that replaces a record of a program, but for its place in the trees.
LEMMA RecordReplaced ==
  ASSUME Typed, NEW p \in Programs, NEW r \in ProgramRecords,
         r.parent = programs[p].parent, r.children = programs[p].children,
         r.parsed = programs[p].parsed, r.kids = programs[p].kids,
         r.context = programs[p].context,
         programs' = [programs EXCEPT ![p] = r]
  PROVE  /\ ShapeKept
         /\ \A q \in Programs : programs'[q].context = programs[q].context
<1>1. /\ programs' \in Seq(ProgramRecords)
      /\ DOMAIN programs' = Programs
      /\ \A q \in Programs : programs'[q] = IF q = p THEN r ELSE programs[q]
  BY ChangedProgram
<1>2. ShapeKept
  BY <1>1 DEF ShapeKept, Programs
<1>3. QED BY <1>1, <1>2

LEMMA SkipKeeps ==
  ASSUME LinkInv, SkipInclude
  PROVE  LinkInv'
<1>1. Typed /\ stack # <<>> /\ phase = "preprocess"
  BY DEF LinkInv, Typed, SkipInclude, Reads
<1>2. Standing + 1 \in Nat \ {0}
  BY <1>1, Top
<1>3. ShapeKept
  BY <1>1 DEF SkipInclude, ShapeKept, Programs, Typed
<1>4. stack' = Advanced(Standing + 1) /\ UNCHANGED <<inputs, programs, phase, failed, result>>
  BY DEF SkipInclude
<1>5. failed' \in BOOLEAN /\ (failed => failed')
  BY <1>1, <1>4 DEF Typed
<1>6. \A p \in Programs : programs'[p].context = programs[p].context
  BY <1>4
<1>7. QED BY <1>1, <1>2, <1>3, <1>4, <1>5, <1>6, StatementPreserves

LEMMA MissingKeeps ==
  ASSUME LinkInv, IncludeMissing
  PROVE  LinkInv'
<1>1. Typed /\ stack # <<>> /\ phase = "preprocess"
  BY DEF LinkInv, Typed, IncludeMissing, Reads
<1>2. Standing + 1 \in Nat \ {0} /\ Current \in Programs
  BY <1>1, Top
<1>3. PICK s \in Statements :
        /\ s.op = "include"
        /\ programs' = [programs EXCEPT ![Current].includes = @ \cup {s.file}]
        /\ stack' = Advanced(Standing + 1)
        /\ failed' = TRUE
        /\ UNCHANGED <<inputs, phase, result>>
  BY DEF IncludeMissing
<1>4. s.file \in Files
  BY <1>3 DEF Statements
<1> DEFINE r == [programs[Current] EXCEPT !.includes = @ \cup {s.file}]
<1>5. programs[Current] \in ProgramRecords
  BY <1>1, <1>2, ProgramTypes
<1>6. /\ r \in ProgramRecords
      /\ r.parent = programs[Current].parent /\ r.children = programs[Current].children
      /\ r.parsed = programs[Current].parsed /\ r.kids = programs[Current].kids
      /\ r.context = programs[Current].context
  BY <1>4, <1>5 DEF ProgramRecords
<1>7. programs' = [programs EXCEPT ![Current] = r]
  BY <1>3
<1> HIDE DEF r
<1>8. ShapeKept /\ \A p \in Programs : programs'[p].context = programs[p].context
  BY <1>1, <1>2, <1>6, <1>7, RecordReplaced
<1>9. QED BY <1>1, <1>2, <1>3, <1>8, StatementPreserves

LEMMA DeclarePackageKeeps ==
  ASSUME LinkInv, DeclarePackage
  PROVE  LinkInv'
<1>1. Typed /\ stack # <<>> /\ phase = "preprocess"
  BY DEF LinkInv, Typed, DeclarePackage, Reads
<1>2. Standing + 1 \in Nat \ {0} /\ Current \in Programs
  BY <1>1, Top
<1>3. /\ programs' = [programs EXCEPT ![Current].package = TRUE,
                                      ![Current].wrong = @ \/ programs[Current].package]
      /\ stack' = Advanced(Standing + 1)
      /\ UNCHANGED <<inputs, phase, failed, result>>
  BY DEF DeclarePackage
<1> DEFINE r == [programs[Current] EXCEPT !.package = TRUE,
                                          !.wrong = @ \/ programs[Current].package]
<1>5. programs[Current] \in ProgramRecords
  BY <1>1, <1>2, ProgramTypes
<1>6. /\ r \in ProgramRecords
      /\ r.parent = programs[Current].parent /\ r.children = programs[Current].children
      /\ r.parsed = programs[Current].parsed /\ r.kids = programs[Current].kids
      /\ r.context = programs[Current].context
  BY <1>5 DEF ProgramRecords
<1>7. programs' = [programs EXCEPT ![Current] = r]
  BY <1>2, <1>3, <1>5 DEF ProgramRecords, Programs
<1> HIDE DEF r
<1>8. ShapeKept /\ \A p \in Programs : programs'[p].context = programs[p].context
  BY <1>1, <1>2, <1>6, <1>7, RecordReplaced
<1>9. failed' \in BOOLEAN /\ (failed => failed')
  BY <1>1, <1>3 DEF Typed
<1>10. QED BY <1>1, <1>2, <1>3, <1>8, <1>9, StatementPreserves

LEMMA BreakOffKeeps ==
  ASSUME LinkInv, BreakOff
  PROVE  LinkInv'
<1>1. Typed /\ stack # <<>> /\ phase = "preprocess"
  BY DEF LinkInv, Typed, BreakOff, Reads
<1>2. Current \in Programs
  BY <1>1, Top
<1>3. /\ programs' = [programs EXCEPT ![Current].wrong = TRUE]
      /\ stack' = Advanced(Len(TextOf(Current)) + 1)
      /\ UNCHANGED <<inputs, phase, failed, result>>
  BY DEF BreakOff
<1> DEFINE r == [programs[Current] EXCEPT !.wrong = TRUE]
<1>4. programs[Current] \in ProgramRecords
  BY <1>1, <1>2, ProgramTypes
<1>5. /\ r \in ProgramRecords
      /\ r.parent = programs[Current].parent /\ r.children = programs[Current].children
      /\ r.parsed = programs[Current].parsed /\ r.kids = programs[Current].kids
      /\ r.context = programs[Current].context
  BY <1>4 DEF ProgramRecords
<1>6. programs' = [programs EXCEPT ![Current] = r]
  BY <1>3
<1> HIDE DEF r
<1>7. ShapeKept /\ \A p \in Programs : programs'[p].context = programs[p].context
  BY <1>1, <1>2, <1>5, <1>6, RecordReplaced
<1>8. Len(TextOf(Current)) + 1 \in Nat \ {0}
  <2>1. programs[Current].file \in Files
    BY <1>4 DEF ProgramRecords
  <2>2. TextOf(Current) \in Seq(Statements)
    BY <1>1, <2>1, TextsAreStatements DEF Typed, TextOf
  <2>3. QED BY <2>2, LenProperties
<1>9. failed' \in BOOLEAN /\ (failed => failed')
  BY <1>1, <1>3 DEF Typed
<1>10. QED BY <1>1, <1>3, <1>7, <1>8, <1>9, StatementPreserves

\* What the statements about macros make of an entry.  None of them lets an included
\* file have what its includers lack.
Effects ==
  {to \in [Entries -> Entries] :
     \A outer, inner \in Entries : Covers(outer, inner) => Covers(to[outer], to[inner])}

LEMMA MacroStatement ==
  ASSUME Define \/ DefineParams \/ Undefine
  PROVE  \E k \in Keys, to \in Effects : SetInAll(k, to)
<1>1. \A v \in Entries : [e \in Entries |-> v] \in Effects
  BY DEF Effects, Covers
<1>2. [e \in Entries |-> IF e = Undefined THEN Empty ELSE e] \in Effects
  BY EmptyIsAValue, UndefinedIsNoValue DEF Effects, Covers, Entries
<1>3. CASE Define
  <2>1. PICK k \in Keys, v \in Entries : SetInAll(k, [e \in Entries |-> v])
    BY <1>3 DEF Define, Statements, Entries
  <2>2. QED BY <1>1, <2>1
<1>4. CASE DefineParams
  <2>1. PICK k \in Keys : SetInAll(k, [e \in Entries |-> IF e = Undefined THEN Empty ELSE e])
    BY <1>4 DEF DefineParams, Statements
  <2>2. QED BY <1>2, <2>1
<1>5. CASE Undefine
  <2>1. PICK k \in Keys : SetInAll(k, [e \in Entries |-> Undefined])
    BY <1>5 DEF Undefine, Statements
  <2>2. QED BY <1>1, <2>1 DEF Entries
<1>6. QED BY <1>3, <1>4, <1>5

LEMMA SetInAllKeepsShape ==
  ASSUME Typed, NEW k \in Keys, NEW to \in Effects, SetInAll(k, to)
  PROVE  ShapeKept /\ \A p \in Programs : programs'[p].context = programs[p].context
<1>1. Len(programs) \in Nat /\ Programs = 1 .. Len(programs)
      /\ \A p \in Programs : programs[p] \in ProgramRecords
  BY ProgramTypes
<1>2. DOMAIN programs' = Programs /\ \A p \in Programs :
        programs'[p] = IF p \in Ancestors(Current)
                         THEN [programs[p] EXCEPT !.defined[k] = to[@]] ELSE programs[p]
  BY DEF SetInAll
<1>3. ASSUME NEW p \in Programs
      PROVE  LET r == [programs[p] EXCEPT !.defined[k] = to[@]] IN
             /\ r \in ProgramRecords
             /\ r.parent = programs[p].parent /\ r.children = programs[p].children
             /\ r.parsed = programs[p].parsed /\ r.kids = programs[p].kids
             /\ r.context = programs[p].context
  BY <1>1, <1>3 DEF ProgramRecords, Effects
<1>4. \A p \in Programs : programs'[p] \in ProgramRecords
  BY <1>1, <1>2, <1>3
<1>5. programs' \in Seq(ProgramRecords)
  <2>1. programs' = [p \in 1 .. Len(programs) |-> programs'[p]]
    BY <1>1 DEF SetInAll
  <2>2. programs' \in [1 .. Len(programs) -> ProgramRecords]
    BY <1>1, <1>4, <2>1
  <2>3. QED BY <1>1, <2>2, SeqDef
<1>6. \A p \in Programs : /\ programs'[p].parent = programs[p].parent
                          /\ programs'[p].children = programs[p].children
                          /\ programs'[p].parsed = programs[p].parsed
                          /\ programs'[p].kids = programs[p].kids
                          /\ programs'[p].context = programs[p].context
  BY <1>2, <1>3
<1>7. QED BY <1>2, <1>5, <1>6 DEF ShapeKept, Programs

LEMMA DefineKeeps ==
  ASSUME LinkInv, Define \/ DefineParams \/ Undefine
  PROVE  LinkInv'
<1>1. Typed /\ stack # <<>> /\ phase = "preprocess"
  BY DEF LinkInv, Typed, Define, DefineParams, Undefine, Reads
<1>2. Standing + 1 \in Nat \ {0}
  BY <1>1, Top
<1>3. PICK k \in Keys, to \in Effects : SetInAll(k, to)
  BY MacroStatement
<1>4. ShapeKept /\ \A p \in Programs : programs'[p].context = programs[p].context
  BY <1>1, <1>3, SetInAllKeepsShape
<1>5. stack' = Advanced(Standing + 1) /\ UNCHANGED <<inputs, phase, failed, result>>
  BY DEF Define, DefineParams, Undefine
<1>6. failed' \in BOOLEAN /\ (failed => failed')
  BY <1>1, <1>5 DEF Typed
<1>7. QED BY <1>1, <1>2, <1>4, <1>5, <1>6, StatementPreserves

----------------------------------------------------------------------------
\* Including a file.

LEMMA EmptyPrefix ==
  ASSUME NEW t \in Seq(Nat)
  PROVE  IsPrefix(<<>>, t)
<1>1. Len(t) \in Nat /\ Len(<<>>) = 0
  BY LenProperties
<1>2. SubSeq(<<>>, 1, 0) = <<>> /\ SubSeq(t, 1, 0) = <<>>
  BY SubSeqEmpty
<1>3. QED
  BY <1>1, <1>2 DEF IsPrefix

\* f is included by c as the program x.
Included(f, c, x) ==
  /\ x = Len(programs) + 1
  /\ programs' \in Seq(ProgramRecords)
  /\ Programs' = Programs \cup {x}
  /\ x \notin Programs
  /\ \A p \in Programs :
       /\ programs'[p].parent = programs[p].parent
       /\ programs'[p].context = programs[p].context
       /\ programs'[p].parsed = programs[p].parsed
       /\ programs'[p].kids = programs[p].kids
       /\ programs'[p].children = IF p = c THEN Append(programs[p].children, x)
                                           ELSE programs[p].children
  /\ programs'[x].parent = c /\ programs'[x].children = <<>>
  /\ programs'[x].parsed = "no" /\ programs'[x].kids = <<>>

LEMMA NewProgramTyped ==
  ASSUME NEW f \in Files, NEW c \in Nat
  PROVE  NewProgram(f, c) \in ProgramRecords
<1>1. <<>> \in Seq(Nat)
  BY EmptySeq
<1>2. QED
  BY <1>1 DEF NewProgram, ProgramRecords, Entries

LEMMA IncludedPrograms ==
  ASSUME Typed, NEW f \in Files, NEW c \in Programs, NEW x, x = Len(programs) + 1
  PROVE  programs' = Append([programs EXCEPT ![c].includes = @ \cup {f},
                                             ![c].children = Append(@, x)],
                            NewProgram(f, c))
           => Included(f, c, x)
<1>1. Len(programs) \in Nat /\ Programs = 1 .. Len(programs)
      /\ \A p \in Programs : p \in Nat \ {0} /\ programs[p] \in ProgramRecords
  BY ProgramTypes
<1>2. x \in Nat /\ x \notin Programs
  BY <1>1
<1> DEFINE r == [programs[c] EXCEPT !.includes = @ \cup {f}, !.children = Append(@, x)]
           e == [programs EXCEPT ![c] = r]
           n == NewProgram(f, c)
           t == Append(e, n)
<1>3. Append(programs[c].children, x) \in Seq(Nat)
  BY <1>1, <1>2, AppendProperties DEF ProgramRecords
<1>4. /\ r \in ProgramRecords
      /\ r.parent = programs[c].parent /\ r.context = programs[c].context
      /\ r.parsed = programs[c].parsed /\ r.kids = programs[c].kids
      /\ r.children = Append(programs[c].children, x)
  BY <1>1, <1>3 DEF ProgramRecords
<1>5. [programs EXCEPT ![c].includes = @ \cup {f}, ![c].children = Append(@, x)] = e
  BY <1>1 DEF Programs, ProgramRecords
<1> HIDE DEF r
<1>6. /\ e \in Seq(ProgramRecords) /\ Len(e) = Len(programs)
      /\ \A p \in Programs : e[p] = IF p = c THEN r ELSE programs[p]
  BY <1>4, ChangedProgram
<1> HIDE DEF e
<1>7. /\ n \in ProgramRecords
      /\ n.parent = c /\ n.children = <<>> /\ n.parsed = "no" /\ n.kids = <<>>
  BY <1>1, NewProgramTyped DEF NewProgram
<1> HIDE DEF n
<1>8. /\ t \in Seq(ProgramRecords)
      /\ Len(t) = Len(programs) + 1
      /\ \A p \in 1 .. Len(programs) : t[p] = e[p]
      /\ t[x] = n
  BY <1>6, <1>7, AppendProperties
<1> HIDE DEF t
<1>9. DOMAIN t = Programs \cup {x}
  <2>1. DOMAIN t = 1 .. Len(programs) + 1
    BY <1>8, LenProperties
  <2>2. QED BY <1>1, <2>1
<1>10. \A p \in Programs : t[p] = IF p = c THEN r ELSE programs[p]
  BY <1>1, <1>6, <1>8
<1>11. \A p \in Programs :
         /\ t[p].parent = programs[p].parent
         /\ t[p].context = programs[p].context
         /\ t[p].parsed = programs[p].parsed
         /\ t[p].kids = programs[p].kids
         /\ t[p].children = IF p = c THEN Append(programs[p].children, x)
                                     ELSE programs[p].children
  BY <1>4, <1>10
<1>12. SUFFICES ASSUME programs' = t PROVE Included(f, c, x)
  BY <1>5 DEF t, n
<1>13. QED
  BY <1>2, <1>7, <1>8, <1>9, <1>11, <1>12 DEF Included, Programs

LEMMA IncludedTree ==
  ASSUME Typed, Tree, NEW f, NEW c \in Programs, NEW x, Included(f, c, x)
  PROVE  Tree'
<1> USE DEF ChildrenOf
<1>1. /\ Len(programs) \in Nat /\ Programs = 1 .. Len(programs)
      /\ \A p \in Programs : /\ p \in Nat \ {0}
                             /\ programs[p].children \in Seq(Nat)
                             /\ Len(programs[p].children) \in Nat
                             /\ DOMAIN programs[p].children = 1 .. Len(programs[p].children)
                             /\ programs[p].parent \in Nat
  BY ProgramTypes
<1>2. x \in Nat /\ \A p \in Programs : p < x
  BY <1>1 DEF Included
<1> DEFINE s == programs[c].children
<1>3. /\ programs'[c].children = Append(s, x)
      /\ DOMAIN programs'[c].children = 1 .. Len(s) + 1
      /\ \A i \in DOMAIN s : programs'[c].children[i] = s[i]
      /\ programs'[c].children[Len(s) + 1] = x
      /\ Len(s) \in Nat /\ DOMAIN s = 1 .. Len(s)
  <2>1. programs'[c].children = Append(s, x)
    BY DEF Included
  <2>2. /\ Append(s, x) \in Seq(Nat)
        /\ Len(Append(s, x)) = Len(s) + 1
        /\ \A i \in 1 .. Len(s) : Append(s, x)[i] = s[i]
        /\ Append(s, x)[Len(s) + 1] = x
    BY <1>1, <1>2, AppendProperties
  <2>3. QED
    BY <1>1, <2>1, <2>2, LenProperties
<1>4. \A p \in Programs : p # c => programs'[p].children = programs[p].children
  BY DEF Included
<1>5. programs'[x].children = <<>> /\ DOMAIN programs'[x].children = {}
  <2>1. DOMAIN <<>> = {}
    OBVIOUS
  <2>2. QED BY <2>1 DEF Included
<1>6. Programs' = Programs \cup {x} /\ x \notin Programs
  BY DEF Included
<1>7. \A p \in Programs' : programs'[p].parent < p
  BY <1>2, <1>6 DEF Included, Tree
<1>8. \A p \in Programs' : \A i \in DOMAIN programs'[p].children :
        /\ programs'[p].children[i] \in Programs'
        /\ programs'[programs'[p].children[i]].parent = p
  <2>1. SUFFICES ASSUME NEW p \in Programs', NEW i \in DOMAIN programs'[p].children
                 PROVE  /\ programs'[p].children[i] \in Programs'
                        /\ programs'[programs'[p].children[i]].parent = p
    OBVIOUS
  <2>2. CASE p = c /\ i = Len(s) + 1
    BY <1>3, <1>6, <2>2 DEF Included
  <2>3. CASE p \in Programs /\ i \in DOMAIN programs[p].children
             /\ programs'[p].children[i] = programs[p].children[i]
    <3>1. programs[p].children[i] \in Programs /\ programs[programs[p].children[i]].parent = p
      BY <2>3 DEF Tree
    <3>2. \A q \in Programs : programs'[q].parent = programs[q].parent
      BY DEF Included
    <3>3. QED BY <1>6, <2>3, <3>1, <3>2
  <2>4. p = c => i = Len(s) + 1 \/ i \in DOMAIN s
    BY <1>3
  <2>5. QED BY <1>3, <1>4, <1>5, <1>6, <2>2, <2>3, <2>4
<1>9. \A p \in Programs' : \A i, j \in DOMAIN programs'[p].children :
        programs'[p].children[i] = programs'[p].children[j] => i = j
  <2>1. SUFFICES ASSUME NEW p \in Programs', NEW i \in DOMAIN programs'[p].children,
                        NEW j \in DOMAIN programs'[p].children,
                        programs'[p].children[i] = programs'[p].children[j]
                 PROVE  i = j
    OBVIOUS
  <2>2. CASE p = c
    <3>1. \A k \in DOMAIN s : s[k] \in Programs
      BY DEF Tree
    <3>2. (i = Len(s) + 1 \/ i \in DOMAIN s) /\ (j = Len(s) + 1 \/ j \in DOMAIN s)
      <4>1. i \in 1 .. Len(s) + 1 /\ j \in 1 .. Len(s) + 1
        BY <1>3, <2>1, <2>2
      <4>2. QED BY <1>3, <4>1
    <3>3. CASE i \in DOMAIN s /\ j \in DOMAIN s
      <4>1. s[i] = s[j]
        BY <1>3, <2>1, <2>2, <3>3
      <4>2. QED BY <3>3, <4>1 DEF Tree
    <3>4. QED
      BY <1>3, <1>6, <2>1, <2>2, <3>1, <3>2, <3>3
  <2>3. CASE p # c /\ p \in Programs
    BY <1>4, <2>1, <2>3 DEF Tree
  <2>4. QED BY <1>5, <1>6, <2>2, <2>3
<1>10. \A p, q \in Programs' : programs'[q].parent = p =>
         \E i \in DOMAIN programs'[p].children : programs'[p].children[i] = q
  <2>1. SUFFICES ASSUME NEW p \in Programs', NEW q \in Programs', programs'[q].parent = p
                 PROVE  \E i \in DOMAIN programs'[p].children : programs'[p].children[i] = q
    OBVIOUS
  <2>2. CASE q = x
    <3>1. p = c /\ Len(s) + 1 \in DOMAIN programs'[c].children
      BY <1>3, <2>1, <2>2 DEF Included
    <3>2. QED BY <1>3, <2>2, <3>1
  <2>3. CASE q \in Programs
    <3>1. programs[q].parent = p /\ p < q
      BY <2>1, <2>3 DEF Included, Tree
    <3>2. p \in Programs
      <4>1. p # x
        BY <1>1, <1>2, <2>3, <3>1
      <4>2. QED BY <1>6, <2>1, <4>1
    <3>3. PICK i \in DOMAIN programs[p].children : programs[p].children[i] = q
      BY <2>3, <3>1, <3>2 DEF Tree
    <3>4. i \in DOMAIN programs'[p].children /\ programs'[p].children[i] = q
      BY <1>3, <1>4, <3>2, <3>3
    <3>5. QED BY <3>4
  <2>4. QED BY <1>6, <2>2, <2>3
<1>11. QED
  BY <1>7, <1>8, <1>9, <1>10 DEF Tree

LEMMA AncestorsGrow ==
  ASSUME Typed, Tree, NEW f, NEW c \in Programs, NEW x, Included(f, c, x),
         NEW p \in Programs, NEW a \in Ancestors(p)
  PROVE  a \in Ancestors(p)'
<1>1. /\ Programs = 1 .. Len(programs) /\ Len(programs) \in Nat
      /\ \A y \in Programs : programs[y].parent \in Nat /\ programs[y].parent < y
  BY ProgramTypes DEF Tree
<1>2. a \in Programs /\ a \in Programs'
  BY DEF Ancestors, Included
<1>3. ASSUME NEW S \in SUBSET Programs', p \in S,
             \A y \in S : programs'[y].parent \in S \cup {0}
      PROVE  a \in S
  <2> DEFINE T == S \cap Programs
  <2>1. T \in SUBSET Programs /\ p \in T
    BY <1>3
  <2>2. ASSUME NEW y \in T PROVE programs[y].parent \in T \cup {0}
    <3>1. programs[y].parent \in S \cup {0}
      BY <1>3 DEF Included
    <3>2. programs[y].parent \in Programs \cup {0}
      BY <1>1
    <3>3. QED BY <3>1, <3>2
  <2>3. a \in T
    BY <2>1, <2>2 DEF Ancestors
  <2>4. QED BY <2>3
<1>4. QED BY <1>2, <1>3 DEF Ancestors

LEMMA IncludedAncestors ==
  ASSUME Typed, Tree, NEW f, NEW c \in Programs, NEW x, Included(f, c, x),
         NEW a \in Ancestors(c)
  PROVE  a \in Ancestors(x)'
<1>1. a \in Programs' /\ a \in Ancestors(c)'
  BY AncestorsGrow DEF Ancestors, Included
<1>2. c \in Nat \ {0}
  BY ProgramTypes
<1>3. ASSUME NEW S \in SUBSET Programs', x \in S,
             \A y \in S : programs'[y].parent \in S \cup {0}
      PROVE  a \in S
  <2>1. c \in S
    BY <1>2, <1>3 DEF Included
  <2>2. QED BY <1>1, <1>3, <2>1 DEF Ancestors
<1>4. QED BY <1>1, <1>3 DEF Ancestors

LEMMA PushedStack ==
  ASSUME Typed, stack # <<>>, NEW n \in Nat \ {0}, NEW x \in Nat \ {0},
         stack' = Append(Advanced(n), [prog |-> x, at |-> 1])
  PROVE  /\ stack' \in Seq(Activations) /\ stack' # <<>>
         /\ Len(stack') = Len(stack) + 1
         /\ DOMAIN stack' = 1 .. Len(stack) + 1
         /\ \A i \in DOMAIN stack :
              /\ stack'[i].prog = stack[i].prog
              /\ stack'[i].at = IF i = Len(stack) THEN n ELSE stack[i].at
         /\ stack'[Len(stack) + 1] = [prog |-> x, at |-> 1]
<1> DEFINE t == Advanced(n)
           u == [prog |-> x, at |-> 1]
<1>1. /\ t \in Seq(Activations) /\ Len(t) = Len(stack) /\ DOMAIN t = DOMAIN stack
      /\ \A i \in DOMAIN stack :
           /\ t[i].prog = stack[i].prog
           /\ t[i].at = IF i = Len(stack) THEN n ELSE stack[i].at
  BY AdvancedStack
<1>2. u \in Activations
  BY DEF Activations
<1>3. Len(stack) \in Nat /\ DOMAIN stack = 1 .. Len(stack)
  BY Top
<1> HIDE DEF t, u
<1>4. /\ Append(t, u) \in Seq(Activations)
      /\ Len(Append(t, u)) = Len(t) + 1
      /\ \A i \in 1 .. Len(t) : Append(t, u)[i] = t[i]
      /\ Append(t, u)[Len(t) + 1] = u
  BY <1>1, <1>2, AppendProperties
<1>5. stack' = Append(t, u)
  BY DEF t, u
<1>6. DOMAIN stack' = 1 .. Len(stack) + 1
  BY <1>1, <1>4, <1>5, LenProperties
<1>7. stack' # <<>>
  BY <1>1, <1>3, <1>4, <1>5, EmptySeq
<1>8. stack'[Len(stack) + 1] = [prog |-> x, at |-> 1]
  BY <1>1, <1>4, <1>5 DEF u
<1>9. QED
  BY <1>1, <1>3, <1>4, <1>5, <1>6, <1>7, <1>8

LEMMA IncludeKeeps ==
  ASSUME LinkInv, IncludeFile
  PROVE  LinkInv'
<1>1. Typed /\ Tree /\ stack # <<>> /\ phase = "preprocess" /\ Preprocessing
  BY DEF LinkInv, Typed, IncludeFile, Reads
<1>2. /\ Standing + 1 \in Nat \ {0} /\ Current \in Programs
      /\ Len(stack) \in Nat \ {0} /\ DOMAIN stack = 1 .. Len(stack)
      /\ Current = stack[Len(stack)].prog
  BY <1>1, Top
<1>3. PICK c \in Programs : c = Current
  BY <1>2
<1>4. PICK x : x = Len(programs) + 1
  OBVIOUS
<1>5. Len(programs) \in Nat /\ Programs = 1 .. Len(programs) /\ x \in Nat \ {0}
  BY <1>1, <1>4, ProgramTypes
<1>6. PICK f \in Files : Included(f, c, x)
  <2>1. PICK s \in Statements :
          /\ s.op = "include"
          /\ programs' = Append([programs EXCEPT ![c].includes = @ \cup {s.file},
                                                 ![c].children = Append(@, x)],
                                NewProgram(s.file, c))
    BY <1>3, <1>4 DEF IncludeFile
  <2>2. s.file \in Files
    BY <2>1 DEF Statements
  <2>3. QED BY <1>1, <1>4, <2>1, <2>2, IncludedPrograms
<1>7. UNCHANGED <<inputs, phase, failed, result>>
  BY DEF IncludeFile
<1>8. /\ stack' \in Seq(Activations) /\ stack' # <<>>
      /\ DOMAIN stack' = 1 .. Len(stack) + 1
      /\ \A i \in DOMAIN stack : stack'[i].prog = stack[i].prog
      /\ stack'[Len(stack) + 1].prog = x
  <2>1. stack' = Append(Advanced(Standing + 1), [prog |-> x, at |-> 1])
    BY <1>4 DEF IncludeFile
  <2>2. /\ stack' \in Seq(Activations) /\ stack' # <<>>
        /\ DOMAIN stack' = 1 .. Len(stack) + 1
        /\ \A i \in DOMAIN stack : stack'[i].prog = stack[i].prog
        /\ stack'[Len(stack) + 1] = [prog |-> x, at |-> 1]
    BY <1>1, <1>2, <1>5, <2>1, PushedStack
  <2>3. QED BY <2>2
<1>9. \A i \in DOMAIN stack' : i \in DOMAIN stack \/ i = Len(stack) + 1
  BY <1>2, <1>8
<1>10. Programs' = Programs \cup {x}
  BY <1>6 DEF Included
<1>11. Typed'
  <2>1. \A i \in DOMAIN stack' : stack'[i].prog \in Programs'
    BY <1>1, <1>8, <1>9, <1>10 DEF Typed
  <2>2. QED BY <1>1, <1>6, <1>7, <1>8, <2>1 DEF Typed, inputs, Included
<1>12. Tree'
  BY <1>1, <1>6, IncludedTree
<1>13. \A p \in Programs' : programs'[p].parsed = "no" /\ programs'[p].kids = <<>>
  BY <1>1, <1>6, <1>10 DEF Preprocessing, Included
<1>14. BottomUp'
  <2>1. \A p \in Programs' : programs'[p].children \in Seq(Nat)
    <3>1. programs' \in Seq(ProgramRecords)
      BY <1>6 DEF Included
    <3>2. \A p \in Programs' : programs'[p] \in ProgramRecords
      BY <3>1, LenProperties, ElementOfSeq DEF Programs
    <3>3. QED BY <3>2 DEF ProgramRecords
  <2>2. ASSUME NEW p \in Programs' PROVE IsPrefix(programs'[p].kids, programs'[p].children)
    BY <1>13, <2>1, <2>2, EmptyPrefix
  <2>3. QED BY <1>13, <2>2 DEF BottomUp, ChildrenOf
<1>15. ParsedHasContext'
  BY <1>13 DEF ParsedHasContext
<1>16. Preprocessing'
  <2>1. stack'[1].prog = 1
    BY <1>1, <1>2, <1>8 DEF Preprocessing
  <2>2. ASSUME NEW i \in DOMAIN stack', NEW j \in DOMAIN stack', i <= j
        PROVE  stack'[i].prog \in Ancestors(stack[j].prog)'
    <3>1. PICK q : q = stack'[j].prog
      OBVIOUS
    <3>2. stack'[i].prog \in Ancestors(q)'
      <4>1. CASE j \in DOMAIN stack
        <5>1. i \in DOMAIN stack
          BY <1>2, <1>8, <2>2, <4>1
        <5>2. stack[i].prog \in Ancestors(q) /\ q \in Programs
          BY <1>1, <1>8, <2>2, <3>1, <4>1, <5>1 DEF Preprocessing, Typed
        <5>3. QED BY <1>1, <1>6, <1>8, <5>1, <5>2, AncestorsGrow
      <4>2. CASE j = Len(stack) + 1 /\ i = Len(stack) + 1
        <5>1. q = x /\ stack'[i].prog = x /\ x \in Programs'
          BY <1>8, <1>10, <3>1, <4>2
        <5>2. x \in Ancestors(x)'
          BY <5>1 DEF Ancestors
        <5>3. QED BY <5>1, <5>2
      <4>3. CASE j = Len(stack) + 1 /\ i \in DOMAIN stack
        <5>1. q = x
          BY <1>8, <3>1, <4>3
        <5>2. stack[i].prog \in Ancestors(stack[Len(stack)].prog)
          BY <1>1, <1>2, <4>3 DEF Preprocessing
        <5>3. stack[i].prog \in Ancestors(c)
          BY <1>2, <1>3, <5>2
        <5>4. stack[i].prog \in Ancestors(x)'
          BY <1>1, <1>6, <5>3, IncludedAncestors
        <5>5. QED BY <1>8, <4>3, <5>1, <5>4
      <4>4. QED BY <1>9, <4>1, <4>2, <4>3
    <3>3. QED BY <3>1, <3>2
  <2>3. ASSUME NEW p \in Programs'
        PROVE  OnStack(p)' \/ programs'[p].context \/ failed'
    <3>1. CASE p = x
      BY <1>2, <1>8, <3>1 DEF OnStack
    <3>2. CASE p \in Programs
      <4>1. OnStack(p) => OnStack(p)'
        BY <1>2, <1>8 DEF OnStack
      <4>2. QED BY <1>1, <1>6, <1>7, <3>2, <4>1 DEF Preprocessing, Included
    <3>3. QED BY <1>10, <3>1, <3>2
  <2>4. QED BY <1>13, <2>1, <2>2, <2>3 DEF Preprocessing
<1>17. QED
  BY <1>1, <1>7, <1>11, <1>12, <1>14, <1>15, <1>16 DEF LinkInv

----------------------------------------------------------------------------
\* A file is through.

LEMMA ContextSet ==
  ASSUME Typed, NEW p \in Programs
  PROVE  programs' = [programs EXCEPT ![p].context = ~programs[p].wrong] =>
           /\ ShapeKept
           /\ programs'[p].context = ~programs[p].wrong
           /\ \A q \in Programs : q # p => programs'[q].context = programs[q].context
<1> DEFINE r == [programs[p] EXCEPT !.context = ~programs[p].wrong]
           t == [programs EXCEPT ![p] = r]
<1>1. programs[p] \in ProgramRecords
  BY ProgramTypes
<1>2. /\ r \in ProgramRecords
      /\ r.parent = programs[p].parent /\ r.children = programs[p].children
      /\ r.parsed = programs[p].parsed /\ r.kids = programs[p].kids
      /\ r.context = ~programs[p].wrong
  BY <1>1 DEF ProgramRecords
<1>3. [programs EXCEPT ![p].context = ~programs[p].wrong] = t
  OBVIOUS
<1> HIDE DEF r
<1>4. /\ t \in Seq(ProgramRecords) /\ DOMAIN t = Programs
      /\ \A q \in Programs : t[q] = IF q = p THEN r ELSE programs[q]
  BY <1>2, ChangedProgram
<1> HIDE DEF t
<1>5. /\ t[p].context = ~programs[p].wrong
      /\ \A q \in Programs : q # p => t[q].context = programs[q].context
  BY <1>2, <1>4
<1>6. \A q \in Programs : /\ t[q].parent = programs[q].parent
                          /\ t[q].children = programs[q].children
                          /\ t[q].parsed = programs[q].parsed
                          /\ t[q].kids = programs[q].kids
  BY <1>2, <1>4
<1>7. SUFFICES ASSUME programs' = t
               PROVE  /\ ShapeKept
                      /\ programs'[p].context = ~programs[p].wrong
                      /\ \A q \in Programs : q # p => programs'[q].context = programs[q].context
  BY <1>3
<1>8. QED
  BY <1>4, <1>5, <1>6, <1>7 DEF ShapeKept, Programs

LEMMA FinishIncludeKeeps ==
  ASSUME LinkInv, FinishInclude
  PROVE  LinkInv'
<1>1. Typed /\ Tree /\ stack # <<>> /\ phase = "preprocess" /\ Preprocessing /\ Len(stack) > 1
  BY DEF LinkInv, Typed, FinishInclude
<1>2. /\ Len(stack) \in Nat \ {0} /\ DOMAIN stack = 1 .. Len(stack)
      /\ Current = stack[Len(stack)].prog /\ Current \in Programs
  BY <1>1, Top
<1>3. PICK c \in Programs : c = Current
  BY <1>2
<1>4. /\ ShapeKept
      /\ programs'[c].context = ~programs[c].wrong
      /\ \A q \in Programs : q # c => programs'[q].context = programs[q].context
  <2>1. programs' = [programs EXCEPT ![c].context = ~programs[c].wrong]
    BY <1>3 DEF FinishInclude
  <2>2. QED BY <1>1, <2>1, ContextSet
<1>5. failed' = (failed \/ programs[c].wrong) /\ UNCHANGED <<inputs, phase, result>>
  BY <1>3 DEF FinishInclude
<1>6. programs[c].wrong \in BOOLEAN
  BY <1>1, ProgramTypes DEF ProgramRecords
<1>7. /\ stack' \in Seq(Activations) /\ stack' # <<>>
      /\ DOMAIN stack' = 1 .. Len(stack) - 1
      /\ \A i \in DOMAIN stack' : i \in DOMAIN stack /\ stack'[i] = stack[i]
  <2>1. stack' = Front(stack)
    BY DEF FinishInclude
  <2>2. /\ Front(stack) \in Seq(Activations) /\ Len(Front(stack)) = Len(stack) - 1
        /\ DOMAIN Front(stack) = 1 .. Len(stack) - 1
        /\ \A i \in 1 .. Len(stack) - 1 : Front(stack)[i] = stack[i]
    BY <1>1, PoppedStack
  <2>3. Front(stack) # <<>>
    BY <1>1, <1>2, <2>2, EmptySeq
  <2>4. QED BY <1>2, <2>1, <2>2, <2>3
<1>8. Typed'
  BY <1>1, <1>4, <1>5, <1>6, <1>7 DEF Typed, ShapeKept, inputs
<1>9. Tree' /\ BottomUp'
  BY <1>4, TreeKept DEF LinkInv
<1>10. \A p \in Programs' : programs'[p].parsed = "no" /\ programs'[p].kids = <<>>
  BY <1>1, <1>4 DEF Preprocessing, ShapeKept
<1>11. ParsedHasContext'
  BY <1>10 DEF ParsedHasContext
<1>12. Preprocessing'
  <2>1. stack'[1].prog = 1
    BY <1>1, <1>2, <1>7 DEF Preprocessing
  <2>2. ASSUME NEW i \in DOMAIN stack', NEW j \in DOMAIN stack', i <= j
        PROVE  stack'[i].prog \in Ancestors(stack[j].prog)'
    <3>1. PICK q : q = stack[j].prog
      OBVIOUS
    <3>2. stack[i].prog \in Ancestors(q)
      BY <1>1, <1>7, <2>2, <3>1 DEF Preprocessing
    <3>3. stack'[i].prog \in Ancestors(q)' /\ q = stack'[j].prog
      BY <1>4, <1>7, <3>1, <3>2, SameAncestors
    <3>4. QED BY <3>3
  <2>3. ASSUME NEW p \in Programs'
        PROVE  OnStack(p)' \/ programs'[p].context \/ failed'
    <3>1. p \in Programs
      BY <1>4 DEF ShapeKept
    <3>2. CASE p = c
      BY <1>4, <1>5, <3>2
    <3>3. CASE p # c
      <4>1. OnStack(p) => OnStack(p)'
        <5>1. ASSUME NEW i \in DOMAIN stack, stack[i].prog = p
              PROVE  i \in DOMAIN stack' /\ stack'[i].prog = p
          BY <1>2, <1>3, <1>7, <3>3, <5>1
        <5>2. QED BY <5>1 DEF OnStack
      <4>2. QED BY <1>1, <1>4, <1>5, <3>1, <3>3, <4>1 DEF Preprocessing
    <3>4. QED BY <3>2, <3>3
  <2>4. QED BY <1>10, <2>1, <2>2, <2>3 DEF Preprocessing
<1>13. QED
  BY <1>1, <1>5, <1>8, <1>9, <1>11, <1>12 DEF LinkInv

\* Load gives up: what the trees are now they stay.
LEMMA Stops ==
  ASSUME Typed, Tree', BottomUp', ParsedHasContext', programs' \in Seq(ProgramRecords),
         phase' = "done", stack' = <<>>, failed' \in BOOLEAN, result' \in BOOLEAN,
         UNCHANGED inputs
  PROVE  LinkInv'
<1>1. <<>> \in Seq(Activations) /\ DOMAIN <<>> = {}
  BY EmptySeq
<1>2. Typed'
  BY <1>1 DEF Typed, inputs
<1>3. QED
  BY <1>2 DEF LinkInv

LEMMA FinishRootKeeps ==
  ASSUME LinkInv, FinishRoot
  PROVE  LinkInv'
<1>1. Typed /\ Tree /\ stack # <<>> /\ phase = "preprocess" /\ Preprocessing /\ Len(stack) = 1
  BY DEF LinkInv, Typed, FinishRoot
<1>2. 1 \in Programs /\ DOMAIN stack = {1} /\ stack[1].prog = 1
  <2>1. DOMAIN stack = 1 .. 1 /\ Current \in Programs /\ Current = stack[1].prog
    BY <1>1, Top
  <2>2. QED BY <1>1, <2>1 DEF Preprocessing
<1>3. /\ ShapeKept
      /\ programs'[1].context = ~programs[1].wrong
      /\ \A q \in Programs : q # 1 => programs'[q].context = programs[q].context
  BY <1>1, <1>2, ContextSet DEF FinishRoot
<1>4. failed' = (failed \/ programs[1].wrong) /\ UNCHANGED <<inputs, result>>
  BY DEF FinishRoot
<1>5. programs[1].wrong \in BOOLEAN
  BY <1>1, <1>2, ProgramTypes DEF ProgramRecords
<1>6. Tree' /\ BottomUp'
  BY <1>3, TreeKept DEF LinkInv
<1>7. \A p \in Programs' : programs'[p].parsed = "no" /\ programs'[p].kids = <<>>
  BY <1>1, <1>3 DEF Preprocessing, ShapeKept
<1>8. ParsedHasContext'
  BY <1>7 DEF ParsedHasContext
<1>9. CASE failed'
  <2>1. phase' = "done" /\ stack' = <<>>
    BY <1>9 DEF FinishRoot
  <2>2. failed' \in BOOLEAN /\ result' \in BOOLEAN
    BY <1>1, <1>4, <1>5 DEF Typed
  <2>3. QED
    BY <1>1, <1>3, <1>4, <1>6, <1>8, <2>1, <2>2, Stops DEF ShapeKept
<1>10. CASE ~failed'
  <2> DEFINE u == [prog |-> 1, at |-> 1]
  <2>1. phase' = "parse" /\ stack' = <<u>>
    BY <1>10 DEF FinishRoot
  <2>2. /\ <<u>> \in Seq(Activations) /\ Len(<<u>>) = 1 /\ DOMAIN <<u>> = {1}
        /\ <<u>>[1] = u /\ <<u>> # <<>>
    <3>1. u \in Activations
      BY DEF Activations
    <3>2. QED BY <3>1
  <2>3. u.prog = 1 /\ u.at = 1
    OBVIOUS
  <2> HIDE DEF u
  <2>4. /\ stack' \in Seq(Activations) /\ Len(stack') = 1 /\ DOMAIN stack' = {1}
        /\ stack'[1].prog = 1 /\ stack'[1].at = 1 /\ stack' # <<>>
    BY <2>1, <2>2, <2>3
  <2>5. Typed'
    BY <1>1, <1>2, <1>3, <1>4, <1>5, <2>1, <2>4 DEF Typed, ShapeKept, inputs
  <2>6. \A p \in Programs' : programs'[p].context
    <3>1. ~failed /\ ~programs[1].wrong
      BY <1>4, <1>10
    <3>2. \A p \in Programs : p # 1 => programs[p].context
      BY <1>1, <1>2, <3>1 DEF Preprocessing, OnStack
    <3>3. QED BY <1>3, <3>1, <3>2 DEF ShapeKept
  <2>7. \A p \in Programs' : \A k \in DOMAIN ChildrenOf(p)' :
          programs'[ChildrenOf(p)'[k]].parsed = "no"
    BY <1>6, <1>7 DEF Tree
  <2>8. Len(ChildrenOf(1)') \in Nat /\ SubSeq(ChildrenOf(1)', 1, 0) = <<>>
    <3>1. ChildrenOf(1)' = ChildrenOf(1)
      BY <1>2, <1>3 DEF ShapeKept, ChildrenOf
    <3>2. ChildrenOf(1) \in Seq(Nat) /\ Len(ChildrenOf(1)) \in Nat
      BY <1>1, <1>2, ProgramTypes
    <3>3. QED BY <3>1, <3>2, SubSeqEmpty
  <2>9. Finished(1)' = 0
    BY <2>4 DEF Finished
  <2>10. Parsing'
    <3>1. 1 \in Programs'
      BY <1>2, <1>3 DEF ShapeKept
    <3>2. 1 .. Finished(1)' = {} /\ SubSeq(ChildrenOf(1)', 1, Finished(1)') = <<>>
      BY <2>8, <2>9
    <3>3. /\ stack'[1].at <= Len(ChildrenOf(1)') + 1
          /\ programs'[1].parsed = "no"
          /\ programs'[1].kids = SubSeq(ChildrenOf(1)', 1, Finished(1)')
          /\ \A k \in DOMAIN ChildrenOf(1)' : programs'[ChildrenOf(1)'[k]].parsed = "no"
      <4>1. stack'[1].at <= Len(ChildrenOf(1)') + 1
        BY <2>4, <2>8
      <4>2. programs'[1].parsed = "no" /\ programs'[1].kids = SubSeq(ChildrenOf(1)', 1, Finished(1)')
        BY <1>7, <3>1, <3>2
      <4>3. \A k \in DOMAIN ChildrenOf(1)' : programs'[ChildrenOf(1)'[k]].parsed = "no"
        BY <2>7, <3>1
      <4>4. QED BY <4>1, <4>2, <4>3
    <3>4. \A i, j \in DOMAIN stack' : ~(i < j)
      BY <2>4
    <3>5. ASSUME NEW i \in DOMAIN stack' PROVE Underway(i)'
      <4>1. i = 1 /\ stack'[i].prog = 1 /\ ~(i < Len(stack'))
        BY <2>4
      <4>2. QED BY <3>2, <3>3, <4>1 DEF ChildrenOf, Underway
    <3>6. \A p \in Programs' : Untouched(p)'
      BY <1>7, <2>7 DEF Untouched
    <3>7. QED
      BY <2>4, <2>6, <3>4, <3>5, <3>6 DEF Parsing
  <2>11. QED
    BY <1>6, <1>8, <2>1, <2>5, <2>10 DEF LinkInv
<1>11. QED BY <1>9, <1>10

----------------------------------------------------------------------------
\* Parsing.

LEMMA RefuseKeeps ==
  ASSUME LinkInv, RefuseChild
  PROVE  LinkInv'
<1>1. Typed
  BY DEF LinkInv
<1>2. /\ UNCHANGED <<inputs, programs, result>>
      /\ phase' = "done" /\ stack' = <<>> /\ failed' = TRUE
  BY DEF RefuseChild, GiveUp
<1>3. ShapeKept
  BY <1>1, <1>2 DEF ShapeKept, Programs, Typed
<1>4. Tree' /\ BottomUp'
  BY <1>3, TreeKept DEF LinkInv
<1>5. ParsedHasContext'
  BY <1>2 DEF LinkInv, ParsedHasContext, Programs
<1>6. QED
  BY <1>1, <1>2, <1>3, <1>4, <1>5, Stops DEF ShapeKept, Typed

LEMMA EnterKeeps ==
  ASSUME LinkInv, EnterChild
  PROVE  LinkInv'
<1>1. Typed /\ Tree /\ stack # <<>> /\ phase = "parse" /\ Parsing
  BY DEF LinkInv, Typed, EnterChild
<1>2. /\ Len(stack) \in Nat \ {0} /\ DOMAIN stack = 1 .. Len(stack)
      /\ Current = stack[Len(stack)].prog /\ Standing = stack[Len(stack)].at
      /\ Current \in Programs /\ Standing \in Nat \ {0}
  BY <1>1, Top
<1>3. PICK n \in Nat \ {0}, c \in Programs, at \in Nat \ {0} :
        n = Len(stack) /\ c = stack[n].prog /\ at = stack[n].at
        /\ c = Current /\ at = Standing
  BY <1>2
<1>4. at \in DOMAIN ChildrenOf(c)
  <2>1. at <= Len(ChildrenOf(c))
    BY <1>3 DEF EnterChild
  <2>2. Len(ChildrenOf(c)) \in Nat /\ DOMAIN ChildrenOf(c) = 1 .. Len(ChildrenOf(c))
    BY <1>1, ProgramTypes
  <2>3. QED BY <2>1, <2>2
<1>5. PICK x \in Programs : x = ChildrenOf(c)[at] /\ programs[x].parent = c
  BY <1>1, <1>4 DEF Tree
<1>6. x \in Nat \ {0} /\ c \in Nat \ {0} /\ c < x
  BY <1>1, <1>5, ProgramTypes DEF Tree
<1>7. UNCHANGED <<inputs, programs, phase, failed, result>>
  BY DEF EnterChild
<1>8. /\ stack' \in Seq(Activations) /\ stack' # <<>>
      /\ Len(stack') = n + 1
      /\ DOMAIN stack' = 1 .. n + 1
      /\ \A i \in DOMAIN stack :
           /\ stack'[i].prog = stack[i].prog
           /\ stack'[i].at = IF i = n THEN at + 1 ELSE stack[i].at
      /\ stack'[n + 1].prog = x /\ stack'[n + 1].at = 1
  <2>1. stack' = Append(Advanced(at + 1), [prog |-> x, at |-> 1])
    BY <1>3, <1>5 DEF EnterChild
  <2>2. at + 1 \in Nat \ {0}
    OBVIOUS
  <2>3. /\ stack' \in Seq(Activations) /\ stack' # <<>>
        /\ Len(stack') = Len(stack) + 1
        /\ DOMAIN stack' = 1 .. Len(stack) + 1
        /\ \A i \in DOMAIN stack :
             /\ stack'[i].prog = stack[i].prog
             /\ stack'[i].at = IF i = Len(stack) THEN at + 1 ELSE stack[i].at
        /\ stack'[Len(stack) + 1] = [prog |-> x, at |-> 1]
    BY <1>1, <1>6, <2>1, <2>2, PushedStack
  <2>4. QED BY <1>3, <2>3
<1>9. DOMAIN stack = 1 .. n /\ \A i \in DOMAIN stack' : i \in DOMAIN stack \/ i = n + 1
  BY <1>2, <1>3, <1>8
<1>10. Typed'
  <2>1. \A i \in DOMAIN stack' : stack'[i].prog \in Programs
    BY <1>1, <1>8, <1>9 DEF Typed
  <2>2. QED BY <1>1, <1>7, <1>8, <2>1 DEF Typed, inputs, Programs
<1>11. ShapeKept
  BY <1>1, <1>7 DEF ShapeKept, Programs, Typed
<1>12. Tree' /\ BottomUp'
  BY <1>11, TreeKept DEF LinkInv
<1>13. ParsedHasContext'
  BY <1>7 DEF LinkInv, ParsedHasContext, Programs
<1>14. \A p : ChildrenOf(p)' = ChildrenOf(p)
  BY <1>7 DEF ChildrenOf
<1>15. \A i \in DOMAIN stack : stack[i].prog <= c
  <2>1. ASSUME NEW i \in DOMAIN stack, i # n PROVE stack[i].prog < c
    <3>1. i < n /\ n \in DOMAIN stack
      BY <1>9, <2>1
    <3>2. QED BY <1>1, <1>3, <3>1 DEF Parsing
  <2>2. \A i \in DOMAIN stack : stack[i].prog \in Nat
    BY <1>1, ProgramTypes DEF Typed
  <2>3. ASSUME NEW i \in DOMAIN stack PROVE stack[i].prog <= c
    <3>1. CASE i = n
      <4>1. stack[i].prog = c /\ c \in Nat
        BY <1>3, <1>6, <3>1
      <4>2. c <= c
        BY <4>1
      <4>3. QED BY <4>1, <4>2, Zenon
    <3>2. CASE i # n
      <4>1. stack[i].prog < c /\ stack[i].prog \in Nat /\ c \in Nat
        BY <1>6, <2>1, <2>2, <3>2
      <4>2. QED BY <4>1
    <3>3. QED BY <3>1, <3>2
  <2>4. QED BY <2>3
<1>16. ~OnStack(x)
  BY <1>1, <1>6, <1>15, ProgramTypes DEF OnStack, Typed
<1>17. programs[x].parsed = "no" /\ Untouched(x)
  <2>1. Underway(n)
    BY <1>1, <1>9 DEF Parsing
  <2>2. programs[x].parsed = "no"
    BY <1>3, <1>4, <1>5, <2>1 DEF Underway
  <2>3. QED BY <1>1, <1>16, <2>2 DEF Parsing
<1>18. ASSUME NEW i \in DOMAIN stack' PROVE Underway(i)'
  <2>1. CASE i \in DOMAIN stack /\ i # n
    <3>1. Underway(i) /\ i < n /\ i + 1 \in DOMAIN stack
      BY <1>1, <1>9, <2>1 DEF Parsing
    <3>2. /\ stack'[i].prog = stack[i].prog /\ stack'[i].at = stack[i].at
          /\ stack'[i + 1].prog = stack[i + 1].prog
          /\ i < Len(stack) /\ i < Len(stack') /\ i # Len(stack) /\ i # Len(stack')
      BY <1>3, <1>8, <1>9, <2>1, <3>1
    <3>3. Finished(i)' = Finished(i)
      BY <3>2 DEF Finished
    <3>4. programs' = programs
      BY <1>7
    <3>5. QED
      BY <3>1, <3>2, <3>3, <3>4, <1>14 DEF Underway
  <2>2. CASE i = n
    <3>1. Underway(n) /\ n \in DOMAIN stack
      BY <1>1, <1>9 DEF Parsing
    <3>2. Finished(n)' = Finished(n) /\ stack'[n].prog = c /\ stack'[n].at = at + 1
      <4>1. stack'[n].prog = c /\ stack'[n].at = at + 1
        BY <1>3, <1>8, <3>1
      <4>2. Finished(n) = at - 1
        BY <1>3 DEF Finished
      <4>3. Finished(n)' = at + 1 - 2
        <5>1. n # Len(stack')
          BY <1>8
        <5>2. QED BY <4>1, <5>1 DEF Finished
      <4>4. at + 1 - 2 = at - 1
        OBVIOUS
      <4>5. QED BY <4>1, <4>2, <4>3, <4>4
    <3>3. at <= Len(ChildrenOf(c)) /\ Len(ChildrenOf(c)) \in Nat
      BY <1>1, <1>4, ProgramTypes
    <3>4. /\ stack'[n].at <= Len(ChildrenOf(c)) + 1 /\ stack'[n].at >= 2
          /\ stack'[n + 1].prog = ChildrenOf(c)[stack'[n].at - 1]
      BY <1>5, <1>8, <3>2, <3>3
    <3>5. \A k \in DOMAIN ChildrenOf(c) : k >= stack'[n].at => k >= at
      BY <1>1, <3>2, ProgramTypes
    <3>6. /\ programs[c].parsed = "no"
          /\ programs[c].kids = SubSeq(ChildrenOf(c), 1, Finished(n))
          /\ \A k \in 1 .. Finished(n) : programs[ChildrenOf(c)[k]].parsed = "ok"
          /\ \A k \in DOMAIN ChildrenOf(c) : k >= at => programs[ChildrenOf(c)[k]].parsed = "no"
      BY <1>3, <3>1 DEF Underway
    <3>7. QED
      BY <1>7, <1>14, <2>2, <3>2, <3>4, <3>5, <3>6 DEF Underway
  <2>3. CASE i = n + 1
    <3>1. Finished(i)' = 0 /\ ~(i < Len(stack'))
      BY <1>8, <2>3 DEF Finished
    <3>2. Len(ChildrenOf(x)) \in Nat /\ SubSeq(ChildrenOf(x), 1, 0) = <<>>
      BY <1>1, ProgramTypes, SubSeqEmpty
    <3>3. 1 .. 0 = {}
      OBVIOUS
    <3>4. /\ stack'[i].prog = x /\ stack'[i].at = 1 /\ ChildrenOf(x)' = ChildrenOf(x)
          /\ 1 <= Len(ChildrenOf(x)) + 1
      BY <1>8, <1>14, <2>3, <3>2
    <3>5. /\ programs'[x].parsed = "no"
          /\ programs'[x].kids = SubSeq(ChildrenOf(x), 1, 0)
          /\ \A k \in DOMAIN ChildrenOf(x) : programs'[ChildrenOf(x)[k]].parsed = "no"
      BY <1>7, <1>17, <3>2 DEF Untouched
    <3>6. QED
      BY <3>1, <3>3, <3>4, <3>5 DEF Underway
  <2>4. QED BY <1>9, <2>1, <2>2, <2>3
<1>19. Parsing'
  <2>1. \A p \in Programs' : programs'[p].context
    BY <1>1, <1>7 DEF Parsing, Programs
  <2>2. ASSUME NEW i \in DOMAIN stack', NEW j \in DOMAIN stack', i < j
        PROVE  stack'[i].prog < stack'[j].prog
    <3>1. i \in DOMAIN stack
      BY <1>8, <1>9, <2>2
    <3>2. CASE j \in DOMAIN stack
      BY <1>1, <1>8, <2>2, <3>1, <3>2 DEF Parsing
    <3>3. CASE j = n + 1
      <4>1. stack[i].prog \in Nat /\ stack[i].prog <= c
        BY <1>1, <1>15, <3>1, ProgramTypes DEF Typed
      <4>2. QED BY <1>6, <1>8, <3>1, <3>3, <4>1
    <3>4. QED BY <1>9, <3>2, <3>3
  <2>3. ASSUME NEW p \in Programs', programs'[p].parsed = "no", ~OnStack(p)'
        PROVE  Untouched(p)'
    <3>1. ~OnStack(p)
      BY <1>8, <1>9, <2>3 DEF OnStack
    <3>2. Untouched(p)
      BY <1>1, <1>7, <2>3, <3>1 DEF Parsing, Programs
    <3>3. QED BY <1>7, <1>14, <3>2 DEF Untouched
  <2>4. stack'[1].prog = 1
    BY <1>1, <1>2, <1>8 DEF Parsing
  <2>5. QED BY <1>18, <2>1, <2>2, <2>3, <2>4 DEF Parsing
<1>20. QED
  BY <1>1, <1>7, <1>10, <1>12, <1>13, <1>19 DEF LinkInv

\* What the end of p's parse does to the two trees.
ParseEnds(p, verdict) ==
  /\ programs' \in Seq(ProgramRecords)
  /\ Programs' = Programs
  /\ \A q \in Programs :
       /\ programs'[q].parent = programs[q].parent
       /\ programs'[q].children = programs[q].children
       /\ programs'[q].context = programs[q].context
       /\ programs'[q].parsed = IF q = p THEN verdict ELSE programs[q].parsed
       /\ programs'[q].kids = IF q = programs[p].parent THEN Append(programs[q].kids, p)
                                                        ELSE programs[q].kids

LEMMA LinkedPrograms ==
  ASSUME Typed, Tree, NEW p \in Programs, NEW v \in {"ok", "bad"}
  PROVE  programs' = Linked(p, v) => ParseEnds(p, v)
<1> DEFINE t == Linked(p, v)
<1>1. /\ Len(programs) \in Nat /\ Programs = 1 .. Len(programs)
      /\ \A q \in Programs : q \in Nat \ {0} /\ programs[q] \in ProgramRecords
  BY ProgramTypes
<1>2. /\ p \in Nat /\ programs[p].parent # p
  BY <1>1 DEF Tree
<1>3. DOMAIN t = Programs /\ \A q \in Programs :
        t[q] = IF q = p THEN [programs[q] EXCEPT !.parsed = v]
               ELSE IF q = programs[p].parent THEN [programs[q] EXCEPT !.kids = Append(@, p)]
               ELSE programs[q]
  BY DEF Linked
<1>4. ASSUME NEW q \in Programs
      PROVE  LET r == [programs[q] EXCEPT !.parsed = v] IN
             /\ r \in ProgramRecords
             /\ r.parent = programs[q].parent /\ r.children = programs[q].children
             /\ r.context = programs[q].context
             /\ r.parsed = v /\ r.kids = programs[q].kids
  BY <1>1 DEF ProgramRecords
<1>5. ASSUME NEW q \in Programs
      PROVE  LET r == [programs[q] EXCEPT !.kids = Append(@, p)] IN
             /\ r \in ProgramRecords
             /\ r.parent = programs[q].parent /\ r.children = programs[q].children
             /\ r.context = programs[q].context
             /\ r.parsed = programs[q].parsed /\ r.kids = Append(programs[q].kids, p)
  <2>1. programs[q].kids \in Seq(Nat)
    BY <1>1 DEF ProgramRecords
  <2>2. Append(programs[q].kids, p) \in Seq(Nat)
    BY <1>2, <2>1, AppendProperties
  <2>3. QED BY <1>1, <2>2 DEF ProgramRecords
<1>6. ASSUME NEW q \in Programs
      PROVE  /\ t[q] \in ProgramRecords
             /\ t[q].parent = programs[q].parent
             /\ t[q].children = programs[q].children
             /\ t[q].context = programs[q].context
             /\ t[q].parsed = IF q = p THEN v ELSE programs[q].parsed
             /\ t[q].kids = IF q = programs[p].parent THEN Append(programs[q].kids, p)
                                                      ELSE programs[q].kids
  <2> HIDE DEF t
  <2>1. CASE q = p
    <3>1. t[q] = [programs[q] EXCEPT !.parsed = v]
      BY <1>3, <2>1
    <3>2. QED BY <1>2, <1>4, <2>1, <3>1
  <2>2. CASE q # p /\ q = programs[p].parent
    <3>1. t[q] = [programs[q] EXCEPT !.kids = Append(@, p)]
      BY <1>3, <2>2
    <3>2. QED BY <1>5, <2>2, <3>1
  <2>3. CASE q # p /\ q # programs[p].parent
    <3>1. t[q] = programs[q]
      BY <1>3, <2>3
    <3>2. QED BY <1>1, <2>3, <3>1
  <2>4. QED BY <2>1, <2>2, <2>3
<1>7. t \in Seq(ProgramRecords)
  <2>1. t \in [1 .. Len(programs) -> ProgramRecords]
    <3>1. t = [q \in 1 .. Len(programs) |-> t[q]]
      BY <1>1 DEF Linked
    <3> HIDE DEF t
    <3>2. QED BY <1>1, <1>6, <3>1
  <2> HIDE DEF t
  <2>2. QED BY <1>1, <2>1, SeqDef
<1> HIDE DEF t
<1>8. SUFFICES ASSUME programs' = t PROVE ParseEnds(p, v)
  BY DEF t
<1>9. QED
  BY <1>3, <1>6, <1>7, <1>8 DEF ParseEnds, Programs

LEMMA LongerPrefix ==
  ASSUME NEW s \in Seq(Nat), NEW j \in 1 .. Len(s)
  PROVE  Append(SubSeq(s, 1, j - 1), s[j]) = SubSeq(s, 1, j)
<1>1. Len(s) \in Nat /\ j \in Int /\ j - 1 \in Int /\ 1 \in 1 .. Len(s) /\ j \in 1 .. Len(s)
  BY LenProperties
<1>2. SubSeq(s, 1, j) = SubSeq(s, 1, j - 1) \o <<s[j]>>
  BY <1>1, SubSeqRecursiveSecond
<1>3. s[j] \in Nat
  BY <1>1, ElementOfSeq
<1>4. SubSeq(s, 1, j - 1) \in Seq(Nat)
  <2>1. \A i \in 1 .. j - 1 : s[i] \in Nat
    BY <1>1, ElementOfSeq
  <2>2. QED BY <1>1, <2>1, SubSeqProperties
<1>5. QED
  BY <1>2, <1>3, <1>4, AppendIsConcat

LEMMA PrefixOfSeq ==
  ASSUME NEW s \in Seq(Nat), NEW j \in 0 .. Len(s)
  PROVE  IsPrefix(SubSeq(s, 1, j), s)
<1> DEFINE t == SubSeq(s, 1, j)
<1>1. Len(s) \in Nat /\ j \in Int
  BY LenProperties
<1>2. t \in Seq(Nat) /\ Len(t) = j
  <2>1. \A i \in 1 .. j : s[i] \in Nat
    BY <1>1, ElementOfSeq
  <2>2. t \in Seq(Nat) /\ Len(t) = IF 1 <= j THEN j - 1 + 1 ELSE 0
    BY <1>1, <2>1, SubSeqProperties
  <2> HIDE DEF t
  <2>3. QED BY <1>1, <2>2
<1>3. SubSeq(t, 1, Len(t)) = SubSeq(s, 1, Len(t))
  <2>1. SubSeq(s, 1, Len(t)) = t
    <3> HIDE DEF t
    <3>1. QED BY <1>2 DEF t
  <2> HIDE DEF t
  <2>2. SubSeq(t, 1, Len(t)) = t
    BY <1>2, SubSeqFull
  <2>3. QED BY <2>1, <2>2
<1>4. Len(t) <= Len(s)
  <2> HIDE DEF t
  <2>1. QED BY <1>1, <1>2
<1>5. QED
  BY <1>3, <1>4 DEF IsPrefix

\* The loop of p, the innermost, is over.
LEMMA ChildrenParsed ==
  ASSUME Typed, Tree, Parsing, stack # <<>>, NEW p \in Programs, p = Current,
         ChildrenAreDone(p, Standing)
  PROVE  /\ programs[p].parsed = "no"
         /\ programs[p].kids = ChildrenOf(p)
         /\ \A k \in DOMAIN ChildrenOf(p) : programs[ChildrenOf(p)[k]].parsed = "ok"
<1>1. /\ Len(stack) \in DOMAIN stack /\ Len(stack) \in Nat
      /\ p = stack[Len(stack)].prog /\ Standing = stack[Len(stack)].at /\ Standing \in Nat
  BY Top
<1>2. Underway(Len(stack))
  BY <1>1 DEF Parsing
<1>3. PICK at \in Nat : at = Standing
  BY <1>1
<1>4. PICK n \in Nat : n = Len(stack)
  BY <1>1
<1>5. /\ ChildrenOf(p) \in Seq(Nat) /\ Len(ChildrenOf(p)) \in Nat
      /\ DOMAIN ChildrenOf(p) = 1 .. Len(ChildrenOf(p))
  BY ProgramTypes
<1>6. at = Len(ChildrenOf(p)) + 1
  <2>1. at <= Len(ChildrenOf(p)) + 1
    BY <1>1, <1>2, <1>3 DEF Underway
  <2>2. at > Len(ChildrenOf(p))
    BY <1>3 DEF ChildrenAreDone
  <2>3. QED BY <1>5, <2>1, <2>2
<1>7. Finished(n) = Len(ChildrenOf(p))
  <2>1. Finished(n) = at - 1
    BY <1>1, <1>3, <1>4 DEF Finished
  <2>2. QED BY <1>5, <1>6, <2>1
<1>8. /\ programs[p].parsed = "no"
      /\ programs[p].kids = SubSeq(ChildrenOf(p), 1, Finished(n))
      /\ \A k \in 1 .. Finished(n) : programs[ChildrenOf(p)[k]].parsed = "ok"
  BY <1>1, <1>2, <1>4 DEF Underway
<1>9. QED
  BY <1>5, <1>7, <1>8, SubSeqFull

\* p, the innermost, was entered from its parent m, by the child numbered a.
LEMMA EnteredFromParent ==
  ASSUME Typed, Tree, Parsing, stack # <<>>, NEW p \in Programs, p = Current, Len(stack) > 1
  PROVE  \E n \in Nat \ {0}, m \in Programs :
           /\ Len(stack) = n + 1 /\ DOMAIN stack = 1 .. n + 1
           /\ stack[n].prog = m /\ programs[p].parent = m /\ m # p
           /\ \E a \in DOMAIN ChildrenOf(m) :
                /\ stack[n].at = a + 1
                /\ ChildrenOf(m)[a] = p
                /\ programs[m].parsed = "no"
                /\ programs[m].kids = SubSeq(ChildrenOf(m), 1, a - 1)
                /\ \A k \in 1 .. a - 1 : programs[ChildrenOf(m)[k]].parsed = "ok"
                /\ \A k \in DOMAIN ChildrenOf(m) : k > a => programs[ChildrenOf(m)[k]].parsed = "no"
<1>1. /\ Len(stack) \in DOMAIN stack /\ Len(stack) \in Nat /\ DOMAIN stack = 1 .. Len(stack)
      /\ p = stack[Len(stack)].prog
  BY Top
<1>2. PICK n \in Nat \ {0} : Len(stack) = n + 1
  <2>1. Len(stack) - 1 \in Nat \ {0} /\ Len(stack) = Len(stack) - 1 + 1
    BY <1>1
  <2>2. QED BY <2>1
<1>3. n \in DOMAIN stack /\ DOMAIN stack = 1 .. n + 1
  BY <1>1, <1>2
<1>4. PICK m \in Programs : m = stack[n].prog
  BY <1>3 DEF Typed
<1>5. Underway(n)
  BY <1>3 DEF Parsing
<1>6. stack[n].at \in Nat \ {0}
  <2>1. stack \in Seq(Activations) /\ n \in 1 .. Len(stack)
    BY <1>1, <1>2 DEF Typed
  <2>2. stack[n] \in Activations
    BY <2>1, ElementOfSeq
  <2>3. QED BY <2>2 DEF Activations
<1>7. /\ Len(ChildrenOf(m)) \in Nat /\ DOMAIN ChildrenOf(m) = 1 .. Len(ChildrenOf(m))
  BY ProgramTypes
<1>8. n < Len(stack) /\ n # Len(stack)
  BY <1>2
<1>9. /\ stack[n].at <= Len(ChildrenOf(m)) + 1
      /\ stack[n].at >= 2 /\ stack[n + 1].prog = ChildrenOf(m)[stack[n].at - 1]
      /\ programs[m].parsed = "no"
      /\ programs[m].kids = SubSeq(ChildrenOf(m), 1, Finished(n))
      /\ \A k \in 1 .. Finished(n) : programs[ChildrenOf(m)[k]].parsed = "ok"
      /\ \A k \in DOMAIN ChildrenOf(m) : k >= stack[n].at => programs[ChildrenOf(m)[k]].parsed = "no"
  BY <1>4, <1>5, <1>8 DEF Underway
<1>10. PICK a \in DOMAIN ChildrenOf(m) : stack[n].at = a + 1
  <2>1. stack[n].at - 1 \in 1 .. Len(ChildrenOf(m)) /\ stack[n].at = stack[n].at - 1 + 1
    BY <1>6, <1>7, <1>9
  <2>2. QED BY <1>7, <2>1
<1>11. a \in Nat /\ a + 1 - 1 = a /\ Finished(n) = a - 1
  <2>1. a \in Nat /\ a + 1 - 1 = a /\ a + 1 - 2 = a - 1
    BY <1>7
  <2>2. Finished(n) = a + 1 - 2
    BY <1>8, <1>10 DEF Finished
  <2>3. QED BY <2>1, <2>2
<1>12. ChildrenOf(m)[a] = p
  BY <1>1, <1>2, <1>9, <1>10, <1>11
<1>13. programs[p].parent = m /\ m # p
  <2>1. programs[p].parent = m
    BY <1>10, <1>12 DEF Tree
  <2>2. QED BY <2>1, ProgramTypes DEF Tree
<1>14. \A k \in DOMAIN ChildrenOf(m) : k > a => k >= a + 1
  BY <1>7
<1>15. \A k \in DOMAIN ChildrenOf(m) : k > a => programs[ChildrenOf(m)[k]].parsed = "no"
  BY <1>9, <1>10, <1>14
<1>16. QED
  BY <1>2, <1>3, <1>4, <1>9, <1>10, <1>11, <1>12, <1>13, <1>15

LEMMA OutermostIsRoot ==
  ASSUME Typed, Tree, Parsing, stack # <<>>, NEW p \in Programs, p = Current,
         programs[p].parent \in Programs
  PROVE  Len(stack) > 1
<1>1. Len(stack) \in Nat \ {0} /\ p = stack[Len(stack)].prog
  BY Top
<1> DEFINE n == Len(stack)
<1>2. ASSUME n = 1 PROVE FALSE
  <2>1. p = 1
    BY <1>1, <1>2 DEF Parsing
  <2>2. programs[p].parent < p /\ programs[p].parent \in Nat \ {0}
    BY ProgramTypes DEF Tree
  <2>3. QED BY <2>1, <2>2
<1>3. n \in Nat \ {0} /\ n # 1
  BY <1>1, <1>2
<1> HIDE DEF n
<1>4. n > 1
  BY <1>3
<1>5. QED BY <1>4 DEF n

LEMMA ParseEndsTrees ==
  ASSUME Typed, Tree, Parsing, ParsedHasContext, BottomUp, stack # <<>>,
         NEW p \in Programs, p = Current, ChildrenAreDone(p, Standing),
         NEW v \in {"ok", "bad"}, ParseEnds(p, v)
  PROVE  Tree' /\ ParsedHasContext' /\ BottomUp'
<1>1. \A q \in Programs : ChildrenOf(q)' = ChildrenOf(q)
  BY DEF ParseEnds, ChildrenOf
<1>2. Tree'
  BY <1>1 DEF Tree, ParseEnds
<1>3. ParsedHasContext'
  BY DEF ParsedHasContext, ParseEnds, Parsing
<1>4. /\ programs[p].parsed = "no"
      /\ programs[p].kids = ChildrenOf(p)
      /\ \A k \in DOMAIN ChildrenOf(p) : programs[ChildrenOf(p)[k]].parsed = "ok"
  BY ChildrenParsed
<1>5. programs[p].parent # p
  BY ProgramTypes DEF Tree
<1>6. \A q \in Programs : programs[q].parsed = "ok" => programs'[q].parsed = "ok"
  BY <1>4 DEF ParseEnds
<1>7. ASSUME NEW q \in Programs
      PROVE  /\ IsPrefix(programs'[q].kids, ChildrenOf(q))
             /\ programs'[q].parsed # "no" =>
                  /\ programs'[q].kids = ChildrenOf(q)
                  /\ \A c \in ToSet(programs'[q].kids) : programs'[c].parsed = "ok"
  <2>1. CASE q = p
    <3>1. programs'[q].kids = ChildrenOf(p)
      BY <1>4, <1>5, <2>1 DEF ParseEnds
    <3>2. IsPrefix(programs'[q].kids, ChildrenOf(q))
      BY <1>4, <2>1, <3>1 DEF BottomUp
    <3>3. ASSUME NEW c \in ToSet(ChildrenOf(p)) PROVE programs'[c].parsed = "ok"
      <4>1. PICK k \in DOMAIN ChildrenOf(p) : c = ChildrenOf(p)[k]
        BY <3>3 DEF ToSet
      <4>2. c \in Programs
        BY <4>1 DEF Tree
      <4>3. QED BY <1>4, <1>6, <4>1, <4>2
    <3>4. QED BY <2>1, <3>1, <3>2, <3>3
  <2>2. CASE q # p /\ q = programs[p].parent
    <3>1. Len(stack) > 1
      BY <2>2, OutermostIsRoot
    <3>2. PICK a \in DOMAIN ChildrenOf(q) :
            /\ ChildrenOf(q)[a] = p
            /\ programs[q].parsed = "no"
            /\ programs[q].kids = SubSeq(ChildrenOf(q), 1, a - 1)
      <4>1. PICK m \in Programs :
              /\ programs[p].parent = m
              /\ \E a \in DOMAIN ChildrenOf(m) :
                   /\ ChildrenOf(m)[a] = p
                   /\ programs[m].parsed = "no"
                   /\ programs[m].kids = SubSeq(ChildrenOf(m), 1, a - 1)
        BY <3>1, EnteredFromParent
      <4>2. QED BY <2>2, <4>1
    <3>3. /\ ChildrenOf(q) \in Seq(Nat) /\ a \in 1 .. Len(ChildrenOf(q))
          /\ Len(ChildrenOf(q)) \in Nat
      BY <3>2, ProgramTypes
    <3>4. programs'[q].kids = SubSeq(ChildrenOf(q), 1, a)
      <4>1. Append(SubSeq(ChildrenOf(q), 1, a - 1), ChildrenOf(q)[a]) = SubSeq(ChildrenOf(q), 1, a)
        BY <3>3, LongerPrefix
      <4>2. programs'[q].kids = Append(programs[q].kids, p)
        BY <2>2 DEF ParseEnds
      <4>3. QED BY <3>2, <4>1, <4>2
    <3>5. IsPrefix(programs'[q].kids, ChildrenOf(q))
      BY <3>3, <3>4, PrefixOfSeq
    <3>6. programs'[q].parsed = "no"
      BY <2>2, <3>2 DEF ParseEnds
    <3>7. QED BY <3>5, <3>6
  <2>3. CASE q # p /\ q # programs[p].parent
    <3>1. programs'[q].kids = programs[q].kids /\ programs'[q].parsed = programs[q].parsed
      BY <2>3 DEF ParseEnds
    <3>2. IsPrefix(programs'[q].kids, ChildrenOf(q))
      BY <3>1 DEF BottomUp
    <3>3. ASSUME programs'[q].parsed # "no"
          PROVE  /\ programs'[q].kids = ChildrenOf(q)
                 /\ \A c \in ToSet(programs'[q].kids) : programs'[c].parsed = "ok"
      <4>1. /\ programs[q].kids = ChildrenOf(q)
            /\ \A c \in ToSet(programs[q].kids) : programs[c].parsed = "ok"
        BY <3>1, <3>3 DEF BottomUp
      <4>2. \A c \in ToSet(programs[q].kids) : c \in Programs
        BY <4>1 DEF Tree, ToSet
      <4>3. QED BY <1>6, <3>1, <4>1, <4>2
    <3>4. QED BY <3>2, <3>3
  <2>4. QED BY <2>1, <2>2, <2>3
<1>8. BottomUp'
  <2>1. \A q \in Programs : IsPrefix(programs[q].kids, ChildrenOf(q))'
    BY <1>1, <1>7 DEF IsPrefix
  <2>2. QED BY <1>1, <1>7, <2>1 DEF BottomUp, ParseEnds
<1>9. QED BY <1>2, <1>3, <1>8

LEMMA RejectKeeps ==
  ASSUME LinkInv, RejectProgram
  PROVE  LinkInv'
<1>1. /\ Typed /\ Tree /\ Parsing /\ ParsedHasContext /\ BottomUp
      /\ stack # <<>> /\ Current \in Programs
  BY Top DEF LinkInv, Typed, RejectProgram
<1>2. PICK p \in Programs : p = Current
  BY <1>1
<1>3. /\ ChildrenAreDone(p, Standing) /\ programs' = Linked(p, "bad")
      /\ phase' = "done" /\ stack' = <<>> /\ failed' = TRUE /\ UNCHANGED <<inputs, result>>
  BY <1>2 DEF RejectProgram, GiveUp
<1>4. ParseEnds(p, "bad")
  BY <1>1, <1>3, LinkedPrograms
<1>5. Tree' /\ ParsedHasContext' /\ BottomUp'
  BY <1>1, <1>2, <1>3, <1>4, ParseEndsTrees
<1>6. QED
  BY <1>1, <1>3, <1>4, <1>5, Stops DEF ParseEnds, Typed

\* An inner activation returns to its includer's loop.
LEMMA ReturnKeepsParsing ==
  ASSUME Typed, Tree, Parsing, stack # <<>>, NEW p \in Programs, p = Current,
         ChildrenAreDone(p, Standing), Len(stack) > 1, ParseEnds(p, "ok"),
         stack' = Front(stack)
  PROVE  Parsing' /\ stack' \in Seq(Activations) /\ stack' # <<>>
         /\ \A i \in DOMAIN stack' : stack'[i].prog \in Programs
<1>1. PICK n \in Nat \ {0}, m \in Programs :
        /\ Len(stack) = n + 1 /\ DOMAIN stack = 1 .. n + 1
        /\ stack[n].prog = m /\ programs[p].parent = m /\ m # p
        /\ \E a \in DOMAIN ChildrenOf(m) :
             /\ stack[n].at = a + 1
             /\ ChildrenOf(m)[a] = p
             /\ programs[m].parsed = "no"
             /\ programs[m].kids = SubSeq(ChildrenOf(m), 1, a - 1)
             /\ \A k \in 1 .. a - 1 : programs[ChildrenOf(m)[k]].parsed = "ok"
             /\ \A k \in DOMAIN ChildrenOf(m) : k > a => programs[ChildrenOf(m)[k]].parsed = "no"
  BY EnteredFromParent
<1>2. PICK a \in DOMAIN ChildrenOf(m) :
        /\ stack[n].at = a + 1
        /\ ChildrenOf(m)[a] = p
        /\ programs[m].parsed = "no"
        /\ programs[m].kids = SubSeq(ChildrenOf(m), 1, a - 1)
        /\ \A k \in 1 .. a - 1 : programs[ChildrenOf(m)[k]].parsed = "ok"
        /\ \A k \in DOMAIN ChildrenOf(m) : k > a => programs[ChildrenOf(m)[k]].parsed = "no"
  BY <1>1
<1>3. /\ ChildrenOf(m) \in Seq(Nat) /\ Len(ChildrenOf(m)) \in Nat
      /\ DOMAIN ChildrenOf(m) = 1 .. Len(ChildrenOf(m)) /\ a \in Nat \ {0}
  <2>1. /\ ChildrenOf(m) \in Seq(Nat) /\ Len(ChildrenOf(m)) \in Nat
        /\ DOMAIN ChildrenOf(m) = 1 .. Len(ChildrenOf(m))
    BY ProgramTypes
  <2>2. a \in Nat \ {0}
    BY <2>1
  <2>3. QED BY <2>1, <2>2
<1>4. /\ stack' \in Seq(Activations) /\ Len(stack') = n /\ DOMAIN stack' = 1 .. n
      /\ \A i \in 1 .. n : i \in DOMAIN stack /\ stack'[i] = stack[i]
  <2>1. /\ stack' \in Seq(Activations) /\ Len(stack') = Len(stack) - 1
        /\ DOMAIN stack' = 1 .. Len(stack) - 1
        /\ \A i \in 1 .. Len(stack) - 1 : stack'[i] = stack[i]
    BY PoppedStack
  <2>2. Len(stack) - 1 = n /\ 1 .. n \subseteq 1 .. n + 1
    BY <1>1
  <2>3. QED BY <1>1, <2>1, <2>2
<1>5. stack' # <<>> /\ 1 \in DOMAIN stack'
  BY <1>4, EmptySeq
<1>6. \A i \in DOMAIN stack' : stack'[i].prog \in Programs
  BY <1>4 DEF Typed
<1>7. \A q \in Programs : ChildrenOf(q)' = ChildrenOf(q)
  BY DEF ParseEnds, ChildrenOf
<1>8. programs[p].parsed = "no" /\ programs'[p].parsed = "ok"
  BY ChildrenParsed DEF ParseEnds
<1>9. \A q \in Programs : q # p => programs'[q].parsed = programs[q].parsed
  BY DEF ParseEnds
<1>10. \A q \in Programs : q # m => programs'[q].kids = programs[q].kids
  BY <1>1 DEF ParseEnds
\* p is a child of m only, and there only the one numbered a.
<1>11. ASSUME NEW q \in Programs, NEW k \in DOMAIN ChildrenOf(q), ChildrenOf(q)[k] = p
       PROVE  q = m /\ k = a
  BY <1>1, <1>2, <1>11 DEF Tree
<1>12. ASSUME NEW q \in Programs, NEW k \in DOMAIN ChildrenOf(q), q # m \/ k # a
       PROVE  programs'[ChildrenOf(q)[k]].parsed = programs[ChildrenOf(q)[k]].parsed
  <2>1. ChildrenOf(q)[k] \in Programs /\ ChildrenOf(q)[k] # p
    BY <1>11, <1>12 DEF Tree
  <2>2. QED BY <1>9, <2>1
<1>13. ASSUME NEW i \in DOMAIN stack' PROVE Underway(i)'
  <2>1. CASE i = n
    <3>1. Finished(n)' = a
      <4>1. n = Len(stack') /\ stack'[n].at = a + 1
        BY <1>2, <1>4, <2>1
      <4>2. Finished(n)' = stack'[n].at - 1
        BY <4>1 DEF Finished
      <4>3. QED BY <1>3, <4>1, <4>2
    <3>2. stack'[n].prog = m /\ stack'[n].at = a + 1 /\ ~(n < Len(stack'))
          /\ a + 1 <= Len(ChildrenOf(m)) + 1
      BY <1>1, <1>2, <1>3, <1>4, <2>1
    <3>3. programs'[m].parsed = "no"
      BY <1>1, <1>2, <1>9
    <3>4. programs'[m].kids = SubSeq(ChildrenOf(m), 1, a)
      <4>1. Append(SubSeq(ChildrenOf(m), 1, a - 1), ChildrenOf(m)[a]) = SubSeq(ChildrenOf(m), 1, a)
        BY <1>3, LongerPrefix
      <4>2. programs'[m].kids = Append(programs[m].kids, p)
        BY <1>1 DEF ParseEnds
      <4>3. QED BY <1>2, <4>1, <4>2
    <3>5. ASSUME NEW k \in 1 .. a PROVE programs'[ChildrenOf(m)[k]].parsed = "ok"
      <4>1. CASE k = a
        BY <1>2, <1>8, <4>1
      <4>2. CASE k # a
        <5>1. k \in 1 .. a - 1 /\ k \in DOMAIN ChildrenOf(m)
          BY <1>3, <3>5, <4>2
        <5>2. QED BY <1>2, <1>12, <4>2, <5>1
      <4>3. QED BY <4>1, <4>2
    <3>6. ASSUME NEW k \in DOMAIN ChildrenOf(m), k >= a + 1
          PROVE  programs'[ChildrenOf(m)[k]].parsed = "no"
      <4>1. k > a /\ k # a
        BY <1>3, <3>6
      <4>2. QED BY <1>2, <1>12, <4>1
    <3>7. ChildrenOf(m)' = ChildrenOf(m)
      BY <1>7
    <3>8. QED
      BY <2>1, <3>1, <3>2, <3>3, <3>4, <3>5, <3>6, <3>7 DEF Underway
  <2>2. CASE i # n
    <3>1. PICK q \in Programs : q = stack[i].prog /\ q = stack'[i].prog
      BY <1>4, <1>6
    <3>2. i \in Nat \ {0} /\ i < n /\ i # n + 1 /\ i + 1 \in 1 .. n
      BY <1>4, <2>2
    <3>3. i \in DOMAIN stack /\ n \in DOMAIN stack /\ Underway(i)
      BY <1>1, <1>4 DEF Parsing
    <3>4. q # m /\ q # p
      <4>1. q < m
        BY <1>1, <3>1, <3>2, <3>3 DEF Parsing
      <4>2. m < p
        BY <1>1 DEF Tree
      <4>3. QED BY <4>1, <4>2, ProgramTypes
    <3>5. /\ Len(ChildrenOf(q)) \in Nat /\ DOMAIN ChildrenOf(q) = 1 .. Len(ChildrenOf(q))
          /\ stack[i].at \in Nat \ {0}
      <4>1. stack \in Seq(Activations) /\ i \in 1 .. Len(stack)
        BY <1>1, <3>3 DEF Typed
      <4>2. stack[i] \in Activations
        BY <4>1, ElementOfSeq
      <4>3. QED BY <4>2, ProgramTypes DEF Activations
    <3>6. stack'[i] = stack[i] /\ stack'[i + 1] = stack[i + 1] /\ i < Len(stack) /\ i < Len(stack')
      BY <1>1, <1>4, <3>2
    <3>7. Finished(i)' = stack[i].at - 2 /\ Finished(i) = stack[i].at - 2
      BY <1>1, <1>4, <3>2, <3>6 DEF Finished
    <3>8. /\ stack[i].at <= Len(ChildrenOf(q)) + 1
          /\ stack[i].at >= 2 /\ stack[i + 1].prog = ChildrenOf(q)[stack[i].at - 1]
          /\ programs[q].parsed = "no"
          /\ programs[q].kids = SubSeq(ChildrenOf(q), 1, stack[i].at - 2)
          /\ \A k \in 1 .. stack[i].at - 2 : programs[ChildrenOf(q)[k]].parsed = "ok"
          /\ \A k \in DOMAIN ChildrenOf(q) : k >= stack[i].at =>
               programs[ChildrenOf(q)[k]].parsed = "no"
      BY <3>1, <3>3, <3>6, <3>7 DEF Underway
    <3>9. 1 .. stack[i].at - 2 \subseteq DOMAIN ChildrenOf(q)
      BY <3>5, <3>8
    <3>10. \A k \in 1 .. stack[i].at - 2 : programs'[ChildrenOf(q)[k]].parsed = "ok"
      BY <1>12, <3>4, <3>8, <3>9
    <3>11. \A k \in DOMAIN ChildrenOf(q) : k >= stack[i].at =>
             programs'[ChildrenOf(q)[k]].parsed = "no"
      BY <1>12, <3>4, <3>8
    <3>12. programs'[q].parsed = "no" /\ programs'[q].kids = programs[q].kids
           /\ ChildrenOf(q)' = ChildrenOf(q)
      BY <1>7, <1>9, <1>10, <3>4, <3>8
    <3>13. QED
      BY <3>1, <3>6, <3>7, <3>8, <3>10, <3>11, <3>12 DEF Underway
  <2>3. QED BY <2>1, <2>2
<1>14. ASSUME NEW q \in Programs, programs'[q].parsed = "no", ~OnStack(q)'
       PROVE  Untouched(q)'
  <2>1. q # p
    BY <1>8, <1>14
  <2>2. q # m
    <3>1. n \in DOMAIN stack' /\ stack'[n].prog = m
      BY <1>1, <1>4
    <3>2. QED BY <1>14, <3>1 DEF OnStack
  <2>3. ~OnStack(q)
    <3>1. ASSUME NEW i \in DOMAIN stack, stack[i].prog = q PROVE FALSE
      <4>1. CASE i \in DOMAIN stack'
        BY <1>4, <1>14, <3>1, <4>1 DEF OnStack
      <4>2. CASE i = n + 1
        <5>1. stack[n + 1].prog = p
          BY <1>1, Top
        <5>2. QED BY <2>1, <3>1, <4>2, <5>1
      <4>3. QED BY <1>1, <1>4, <4>1, <4>2
    <3>2. QED BY <3>1 DEF OnStack
  <2>4. Untouched(q)
    BY <1>9, <1>14, <2>1, <2>3 DEF Parsing
  <2>5. \A k \in DOMAIN ChildrenOf(q) : programs'[ChildrenOf(q)[k]].parsed = "no"
    BY <1>12, <2>2, <2>4 DEF Untouched
  <2>6. programs'[q].kids = <<>> /\ ChildrenOf(q)' = ChildrenOf(q)
    BY <1>7, <1>10, <2>2, <2>4 DEF Untouched
  <2>7. QED BY <2>5, <2>6 DEF Untouched
<1>15. Parsing'
  <2>1. stack'[1].prog = 1
    BY <1>4, <1>5 DEF Parsing
  <2>2. \A q \in Programs' : programs'[q].context
    BY DEF Parsing, ParseEnds
  <2>3. \A i, j \in DOMAIN stack' : i < j => stack'[i].prog < stack'[j].prog
    BY <1>4 DEF Parsing
  <2>4. Programs' = Programs
    BY DEF ParseEnds
  <2>5. QED BY <1>13, <1>14, <2>1, <2>2, <2>3, <2>4 DEF Parsing
<1>16. QED BY <1>4, <1>5, <1>6, <1>15

LEMMA ParseKeeps ==
  ASSUME LinkInv, ParseProgram
  PROVE  LinkInv'
<1>1. /\ Typed /\ Tree /\ Parsing /\ ParsedHasContext /\ BottomUp
      /\ stack # <<>> /\ Current \in Programs /\ Len(stack) \in Nat \ {0} /\ phase = "parse"
  BY Top DEF LinkInv, Typed, ParseProgram
<1>2. PICK p \in Programs : p = Current
  BY <1>1
<1>3. /\ ChildrenAreDone(p, Standing) /\ programs' = Linked(p, "ok")
      /\ UNCHANGED <<inputs, failed>>
  BY <1>2 DEF ParseProgram
<1>4. ParseEnds(p, "ok")
  BY <1>1, <1>3, LinkedPrograms
<1>5. Tree' /\ ParsedHasContext' /\ BottomUp'
  BY <1>1, <1>2, <1>3, <1>4, ParseEndsTrees
<1>6. CASE Len(stack) = 1
  <2>1. phase' = "done" /\ stack' = <<>> /\ result' = TRUE
    BY <1>6 DEF ParseProgram
  <2>2. QED
    BY <1>1, <1>3, <1>4, <1>5, <2>1, Stops DEF ParseEnds, Typed
<1>7. CASE Len(stack) # 1
  <2>1. stack' = Front(stack) /\ UNCHANGED <<phase, result>>
    BY <1>7 DEF ParseProgram
  <2>2. Len(stack) > 1
    <3>1. PICK n \in Nat \ {0} : n = Len(stack)
      BY <1>1
    <3>2. n > 1
      BY <1>7, <3>1
    <3>3. QED BY <3>1, <3>2
  <2>3. /\ Parsing' /\ stack' \in Seq(Activations) /\ stack' # <<>>
        /\ \A i \in DOMAIN stack' : stack'[i].prog \in Programs
    BY <1>1, <1>2, <1>3, <1>4, <2>1, <2>2, ReturnKeepsParsing
  <2>4. Typed'
    BY <1>1, <1>3, <1>4, <2>1, <2>3 DEF Typed, ParseEnds, inputs
  <2>5. QED
    BY <1>1, <1>5, <2>1, <2>3, <2>4 DEF LinkInv
<1>8. QED BY <1>6, <1>7

----------------------------------------------------------------------------
\* The invariant.

LEMMA StutterKeeps ==
  ASSUME LinkInv, UNCHANGED vars
  PROVE  LinkInv'
<1>1. UNCHANGED <<disk, text, sound, programs, stack, phase, failed, result>>
  BY DEF vars, inputs
<1>3. Typed' = Typed /\ Tree' = Tree /\ ParsedHasContext' = ParsedHasContext /\ BottomUp' = BottomUp
  BY <1>1 DEF Typed, Tree, ParsedHasContext, BottomUp, Programs, ChildrenOf
<1>4. Preprocessing' = Preprocessing
  BY <1>1 DEF Preprocessing, Programs, Ancestors, OnStack
<1>5. Parsing' = Parsing
  BY <1>1 DEF Parsing, Programs, Underway, Untouched, OnStack, Finished, ChildrenOf
<1>6. QED BY <1>1, <1>3, <1>4, <1>5 DEF LinkInv

LEMMA InitHolds == Init => LinkInv
<1>1. SUFFICES ASSUME Init PROVE LinkInv
  OBVIOUS
<1> DEFINE r == NewProgram(Root, 0)
           u == [prog |-> 1, at |-> 1]
<1>2. r \in ProgramRecords
  BY NewProgramTyped, RootIsAFile
<1>3. /\ r.parent = 0 /\ r.children = <<>> /\ r.kids = <<>>
      /\ r.parsed = "no" /\ r.context = FALSE
  BY DEF NewProgram
<1>4. u \in Activations /\ u.prog = 1 /\ u.at = 1
  BY DEF Activations
<1>5. programs = <<r>> /\ stack = <<u>> /\ phase = "preprocess" /\ failed = FALSE /\ result = FALSE
      /\ disk \subseteq Files /\ sound \subseteq Files /\ \A f \in Files : text[f] \in Texts[f]
  BY <1>1 DEF Init
<1> HIDE DEF r, u
<1>6. /\ programs \in Seq(ProgramRecords) /\ Programs = {1} /\ programs[1] = r
  BY <1>2, <1>5 DEF Programs
<1>7. /\ stack \in Seq(Activations) /\ DOMAIN stack = {1} /\ stack[1] = u /\ stack # <<>>
  BY <1>4, <1>5
<1>8. Typed
  BY <1>4, <1>5, <1>6, <1>7 DEF Typed
<1>9. DOMAIN ChildrenOf(1) = {} /\ ChildrenOf(1) = <<>>
  <2>1. DOMAIN <<>> = {}
    OBVIOUS
  <2>2. ChildrenOf(1) = <<>>
    BY <1>3, <1>6 DEF ChildrenOf
  <2>3. QED BY <2>1, <2>2
<1>10. Tree
  BY <1>3, <1>6, <1>9 DEF Tree
<1>11. ParsedHasContext
  BY <1>3, <1>6 DEF ParsedHasContext
<1>12. BottomUp
  <2>1. <<>> \in Seq(Nat)
    BY EmptySeq
  <2>2. IsPrefix(programs[1].kids, ChildrenOf(1))
    BY <1>3, <1>6, <1>9, <2>1, EmptyPrefix
  <2>3. QED BY <1>3, <1>6, <2>2 DEF BottomUp
<1>13. Preprocessing
  <2>1. 1 \in Ancestors(1)
    BY <1>6 DEF Ancestors
  <2>2. QED BY <1>3, <1>4, <1>6, <1>7, <2>1 DEF Preprocessing, OnStack
<1>14. QED
  BY <1>5, <1>8, <1>10, <1>11, <1>12, <1>13 DEF LinkInv

\* Whatever the files say, Load keeps the tree of programs, the tree of contexts
\* and its C++ stack in step.
LEMMA Inductive == Spec => []LinkInv
<1>1. LinkInv /\ [Next]_vars => LinkInv'
  <2>1. SUFFICES ASSUME LinkInv, [Next]_vars PROVE LinkInv'
    OBVIOUS
  <2>2. CASE SkipInclude        BY <2>1, <2>2, SkipKeeps
  <2>3. CASE IncludeMissing     BY <2>1, <2>3, MissingKeeps
  <2>4. CASE IncludeFile        BY <2>1, <2>4, IncludeKeeps
  <2>5. CASE DeclarePackage     BY <2>1, <2>5, DeclarePackageKeeps
  <2>6. CASE Define \/ DefineParams \/ Undefine
    BY <2>1, <2>6, DefineKeeps
  <2>7. CASE BreakOff           BY <2>1, <2>7, BreakOffKeeps
  <2>8. CASE FinishInclude      BY <2>1, <2>8, FinishIncludeKeeps
  <2>9. CASE FinishRoot         BY <2>1, <2>9, FinishRootKeeps
  <2>10. CASE RefuseChild       BY <2>1, <2>10, RefuseKeeps
  <2>11. CASE EnterChild        BY <2>1, <2>11, EnterKeeps
  <2>12. CASE ParseProgram      BY <2>1, <2>12, ParseKeeps
  <2>13. CASE RejectProgram     BY <2>1, <2>13, RejectKeeps
  <2>14. CASE UNCHANGED vars    BY <2>1, <2>14, StutterKeeps
  <2>15. QED
    BY <2>1, <2>2, <2>3, <2>4, <2>5, <2>6, <2>7, <2>8, <2>9, <2>10, <2>11, <2>12, <2>13, <2>14
       DEF Next
<1>2. QED BY InitHolds, <1>1, PTL DEF Spec

\* The programs, the stack, the phase and the flags of Load are of their types;
\* the children of a program are the programs it is the parent of; and no
\* program is parsed that has no context (Program::ParseASTree).
THEOREM TypeCorrect == Spec => []TypeOK
<1>1. LinkInv => TypeOK
  <2>1. SUFFICES ASSUME LinkInv PROVE TypeOK
    OBVIOUS
  <2>2. Typed /\ Tree /\ ParsedHasContext
    BY <2>1 DEF LinkInv
  <2>3. ASSUME NEW p \in Programs
        PROVE  /\ programs[p].file \in Files
               /\ programs[p].parent \in 0 .. p - 1
               /\ ToSet(programs[p].children) = {c \in Programs : programs[c].parent = p}
               /\ programs[p].defined \in [Keys -> Entries]
               /\ programs[p].includes \subseteq Files
               /\ programs[p].parsed \in {"no", "ok", "bad"}
               /\ programs[p].parsed # "no" => programs[p].context
    <3>1. programs[p] \in ProgramRecords /\ p \in Nat \ {0}
      BY <2>2, ProgramTypes
    <3>2. programs[p].parent \in 0 .. p - 1
      BY <2>2, <3>1 DEF Tree, ProgramRecords
    <3>3. ToSet(programs[p].children) = {c \in Programs : programs[c].parent = p}
      BY <2>2 DEF Tree, ToSet, ChildrenOf
    <3>4. QED BY <2>2, <3>1, <3>2, <3>3 DEF ProgramRecords, ParsedHasContext
  <2>4. ASSUME NEW i \in DOMAIN stack
        PROVE  stack[i].prog \in Programs /\ stack[i].at \in Nat \ {0}
    <3>1. stack \in Seq(Activations) /\ stack[i].prog \in Programs
      BY <2>2 DEF Typed
    <3>2. stack[i] \in Activations
      BY <3>1, LenProperties, ElementOfSeq
    <3>3. QED BY <3>1, <3>2 DEF Activations
  <2>5. QED BY <2>2, <2>3, <2>4 DEF TypeOK, Typed
<1>2. QED BY Inductive, <1>1, PTL

\* A program is parsed only after everything it includes, and its context has
\* got their contexts as children, in the order of the #includes
\* (ParseASTreeRecursive).
THEOREM ParsedBottomUp == Spec => []BottomUp
<1>1. LinkInv => BottomUp
  BY DEF LinkInv
<1>2. QED BY Inductive, <1>1, PTL

----------------------------------------------------------------------------
\* Macros.

\* No macro is touched, and no activation is new.
LEMMA MacrosKept ==
  ASSUME Typed, DefinesFlowUp, phase = "preprocess",
         \A p \in Programs : programs'[p].defined = programs[p].defined,
         \A i \in DOMAIN stack' : i \in DOMAIN stack /\ stack'[i].prog = stack[i].prog
  PROVE  DefinesFlowUp'
<1>1. \A i \in DOMAIN stack : stack[i].prog \in Programs
  BY DEF Typed
<1>2. QED
  BY <1>1 DEF DefinesFlowUp

LEMMA AdvancedKeeps ==
  ASSUME Typed, stack # <<>>, NEW n \in Nat \ {0}, stack' = Advanced(n)
  PROVE  \A i \in DOMAIN stack' : i \in DOMAIN stack /\ stack'[i].prog = stack[i].prog
BY AdvancedStack

LEMMA OneFieldElse ==
  ASSUME Typed, NEW c \in Programs
  PROVE  /\ \A f : \A p \in Programs :
              [programs EXCEPT ![c].includes = @ \cup {f}][p].defined = programs[p].defined
         /\ \A p \in Programs :
              [programs EXCEPT ![c].wrong = TRUE][p].defined = programs[p].defined
         /\ \A b : \A p \in Programs :
              [programs EXCEPT ![c].context = b][p].defined = programs[p].defined
<1>1. \A p \in Programs : programs[p] \in ProgramRecords
  BY ProgramTypes
<1>2. QED
  BY <1>1 DEF ProgramRecords, Programs

LEMMA DefineFlowsUp ==
  ASSUME LinkInv, DefinesFlowUp, phase = "preprocess",
         NEW k \in Keys, NEW to \in Effects, SetInAll(k, to),
         \A i \in DOMAIN stack' : i \in DOMAIN stack /\ stack'[i].prog = stack[i].prog
  PROVE  DefinesFlowUp'
<1>1. /\ Typed /\ Preprocessing /\ stack # <<>>
  BY DEF LinkInv, Typed
<1>2. /\ Len(stack) \in DOMAIN stack /\ DOMAIN stack = 1 .. Len(stack) /\ Len(stack) \in Nat
      /\ Current = stack[Len(stack)].prog
  BY <1>1, Top
<1>3. \A i \in DOMAIN stack : stack[i].prog \in Programs /\ stack[i].prog \in Ancestors(Current)
  BY <1>1, <1>2 DEF Preprocessing, Typed
<1>4. \A p \in Programs : programs[p].defined \in [Keys -> Entries]
  BY <1>1, ProgramTypes DEF ProgramRecords
<1>5. ASSUME NEW p \in Programs, p \in Ancestors(Current)
      PROVE  programs'[p].defined = [programs[p].defined EXCEPT ![k] = to[@]]
  <2>1. programs'[p] = [programs[p] EXCEPT !.defined[k] = to[@]]
    BY <1>5 DEF SetInAll
  <2>2. programs[p] \in ProgramRecords
    BY <1>1, ProgramTypes
  <2>3. QED BY <2>1, <2>2 DEF ProgramRecords
<1>6. SUFFICES ASSUME NEW i \in DOMAIN stack', NEW j \in DOMAIN stack', i < j, NEW q \in Keys
               PROVE  Covers(programs'[stack'[i].prog].defined[q],
                             programs'[stack'[j].prog].defined[q])
  BY DEF DefinesFlowUp
<1>7. PICK a \in Programs, b \in Programs :
        /\ a = stack[i].prog /\ b = stack[j].prog /\ a = stack'[i].prog /\ b = stack'[j].prog
        /\ programs'[a].defined = [programs[a].defined EXCEPT ![k] = to[@]]
        /\ programs'[b].defined = [programs[b].defined EXCEPT ![k] = to[@]]
        /\ i \in DOMAIN stack /\ j \in DOMAIN stack
  BY <1>3, <1>5, <1>6
<1>8. Covers(programs[a].defined[q], programs[b].defined[q])
  BY <1>6, <1>7 DEF DefinesFlowUp
<1>9. programs[a].defined[q] \in Entries /\ programs[b].defined[q] \in Entries
  BY <1>4, <1>7
<1>10. CASE q = k
  <2>1. /\ programs'[a].defined[q] = to[programs[a].defined[q]]
        /\ programs'[b].defined[q] = to[programs[b].defined[q]]
    BY <1>4, <1>7, <1>10
  <2>2. QED BY <1>7, <1>8, <1>9, <2>1 DEF Effects
<1>11. CASE q # k
  <2>1. /\ programs'[a].defined[q] = programs[a].defined[q]
        /\ programs'[b].defined[q] = programs[b].defined[q]
    BY <1>4, <1>7, <1>11
  <2>2. QED BY <1>7, <1>8, <2>1
<1>12. QED BY <1>10, <1>11

\* The new program has no macros yet.
LEMMA IncludeFlowsUp ==
  ASSUME LinkInv, DefinesFlowUp, IncludeFile
  PROVE  DefinesFlowUp'
<1>1. Typed /\ stack # <<>> /\ phase = "preprocess"
  BY DEF LinkInv, Typed, IncludeFile, Reads
<1>2. /\ Standing + 1 \in Nat \ {0} /\ Current \in Programs
      /\ Len(stack) \in Nat \ {0} /\ DOMAIN stack = 1 .. Len(stack)
  BY <1>1, Top
<1>3. PICK c \in Programs, x \in Nat : c = Current /\ x = Len(programs) + 1
  BY <1>1, <1>2, ProgramTypes
<1>4. /\ Len(programs) \in Nat /\ Programs = 1 .. Len(programs) /\ x \in Nat \ {0}
      /\ \A p \in Programs : programs[p] \in ProgramRecords
  BY <1>1, <1>3, ProgramTypes
<1>5. PICK f \in Files :
        programs' = Append([programs EXCEPT ![c].includes = @ \cup {f},
                                            ![c].children = Append(@, x)],
                           NewProgram(f, c))
  BY <1>3 DEF IncludeFile, Statements
<1>6. stack' = Append(Advanced(Standing + 1), [prog |-> x, at |-> 1])
  BY <1>3 DEF IncludeFile
<1>7. /\ DOMAIN stack' = 1 .. Len(stack) + 1
      /\ \A i \in DOMAIN stack : stack'[i].prog = stack[i].prog
      /\ stack'[Len(stack) + 1].prog = x
  <2>1. /\ DOMAIN stack' = 1 .. Len(stack) + 1
        /\ \A i \in DOMAIN stack : stack'[i].prog = stack[i].prog
        /\ stack'[Len(stack) + 1] = [prog |-> x, at |-> 1]
    BY <1>1, <1>2, <1>4, <1>6, PushedStack
  <2>2. QED BY <2>1
<1>8. /\ \A p \in Programs : programs'[p].defined = programs[p].defined
      /\ programs'[x].defined = [k \in Keys |-> Undefined]
  <2> DEFINE e == [programs EXCEPT ![c].includes = @ \cup {f}, ![c].children = Append(@, x)]
             n == NewProgram(f, c)
  <2>1. \A p \in Programs : e[p].defined = programs[p].defined
    BY <1>4 DEF ProgramRecords, Programs
  <2>2. n.defined = [k \in Keys |-> Undefined]
    BY DEF NewProgram
  <2>3. Len(e) = Len(programs) /\ DOMAIN e = Programs
    BY <1>4 DEF Programs
  <2>4. QED BY <1>3, <1>4, <1>5, <2>1, <2>2, <2>3
<1>9. \A i \in DOMAIN stack : stack[i].prog \in Programs
  BY <1>1 DEF Typed
<1>10. SUFFICES ASSUME NEW i \in DOMAIN stack', NEW j \in DOMAIN stack', i < j, NEW q \in Keys,
                       programs'[stack'[j].prog].defined[q] # Undefined
                PROVE  Covers(programs'[stack'[i].prog].defined[q],
                              programs'[stack'[j].prog].defined[q])
  BY DEF DefinesFlowUp, Covers
<1>11. j # Len(stack) + 1
  BY <1>7, <1>8, <1>10
<1>12. i \in DOMAIN stack /\ j \in DOMAIN stack
  BY <1>2, <1>7, <1>10, <1>11
<1>13. /\ stack'[i].prog = stack[i].prog /\ stack'[j].prog = stack[j].prog
       /\ stack[i].prog \in Programs /\ stack[j].prog \in Programs
  BY <1>7, <1>9, <1>12
<1>14. /\ programs'[stack'[i].prog].defined = programs[stack[i].prog].defined
       /\ programs'[stack'[j].prog].defined = programs[stack[j].prog].defined
  BY <1>8, <1>13
<1>15. Covers(programs[stack[i].prog].defined[q], programs[stack[j].prog].defined[q])
  BY <1>1, <1>10, <1>12 DEF DefinesFlowUp
<1>16. QED BY <1>14, <1>15

LEMMA MacrosStep ==
  ASSUME LinkInv, DefinesFlowUp, [Next]_vars
  PROVE  DefinesFlowUp'
<1>1. Typed
  BY DEF LinkInv
<1>2. CASE phase # "preprocess"
  <2>1. phase' # "preprocess"
    BY <1>1, <1>2 DEF Next, vars, SkipInclude, IncludeMissing, IncludeFile, DeclarePackage, Define,
       DefineParams, Undefine, BreakOff, FinishInclude, FinishRoot, RefuseChild, EnterChild, ParseProgram,
       RejectProgram, GiveUp, Reads
  <2>2. QED BY <2>1 DEF DefinesFlowUp
<1>3. CASE phase = "preprocess"
  <2>1. stack # <<>>
    BY <1>1, <1>3 DEF Typed
  <2>2. /\ Current \in Programs /\ Standing + 1 \in Nat \ {0} /\ Len(stack) \in Nat
        /\ DOMAIN stack = 1 .. Len(stack)
    BY <1>1, <2>1, Top
  <2>3. CASE SkipInclude
    <3>1. stack' = Advanced(Standing + 1) /\ programs' = programs
      BY <2>3 DEF SkipInclude
    <3>2. QED BY <1>1, <1>3, <2>1, <2>2, <3>1, AdvancedKeeps, MacrosKept
  <2>4. CASE IncludeMissing
    <3>1. PICK s : /\ stack' = Advanced(Standing + 1)
                   /\ programs' = [programs EXCEPT ![Current].includes = @ \cup {s.file}]
      BY <2>4 DEF IncludeMissing
    <3>2. \A p \in Programs : programs'[p].defined = programs[p].defined
      BY <1>1, <2>2, <3>1, OneFieldElse
    <3>3. QED BY <1>1, <1>3, <2>1, <2>2, <3>1, <3>2, AdvancedKeeps, MacrosKept
  <2>5. CASE IncludeFile
    BY <2>5, IncludeFlowsUp
  <2>6. CASE DeclarePackage
    <3>1. /\ stack' = Advanced(Standing + 1)
          /\ programs' = [programs EXCEPT ![Current].package = TRUE,
                                          ![Current].wrong = @ \/ programs[Current].package]
      BY <2>6 DEF DeclarePackage
    <3>2. \A p \in Programs : programs'[p].defined = programs[p].defined
      BY <1>1, <2>2, <3>1, ProgramTypes DEF ProgramRecords, Programs
    <3>3. QED BY <1>1, <1>3, <2>1, <2>2, <3>1, <3>2, AdvancedKeeps, MacrosKept
  <2>7. CASE Define \/ DefineParams \/ Undefine
    <3>1. stack' = Advanced(Standing + 1)
      BY <2>7 DEF Define, DefineParams, Undefine
    <3>2. PICK k \in Keys, to \in Effects : SetInAll(k, to)
      BY <2>7, MacroStatement
    <3>3. QED BY <1>1, <1>3, <2>1, <2>2, <3>1, <3>2, AdvancedKeeps, DefineFlowsUp
  <2>8. CASE BreakOff
    <3>1. /\ stack' = Advanced(Len(TextOf(Current)) + 1)
          /\ programs' = [programs EXCEPT ![Current].wrong = TRUE]
      BY <2>8 DEF BreakOff
    <3>2. \A p \in Programs : programs'[p].defined = programs[p].defined
      BY <1>1, <2>2, <3>1, OneFieldElse
    <3>3. Len(TextOf(Current)) + 1 \in Nat \ {0}
      <4>1. programs[Current].file \in Files
        BY <1>1, <2>2, ProgramTypes DEF ProgramRecords
      <4>2. TextOf(Current) \in Seq(Statements)
        BY <1>1, <4>1, TextsAreStatements DEF Typed, TextOf
      <4>3. QED BY <4>2, LenProperties
    <3>4. QED BY <1>1, <1>3, <2>1, <3>1, <3>2, <3>3, AdvancedKeeps, MacrosKept
  <2>9. CASE FinishInclude
    <3>1. \A p \in Programs : programs'[p].defined = programs[p].defined
      BY <1>1, <2>2, <2>9, OneFieldElse DEF FinishInclude
    <3>2. \A i \in DOMAIN stack' : i \in DOMAIN stack /\ stack'[i].prog = stack[i].prog
      <4>1. stack' = Front(stack) /\ 1 .. Len(stack) - 1 \subseteq 1 .. Len(stack)
        BY <2>2, <2>9 DEF FinishInclude
      <4>2. QED BY <1>1, <2>1, <2>2, <4>1, PoppedStack
    <3>3. QED BY <1>1, <1>3, <3>1, <3>2, MacrosKept
  <2>10. CASE FinishRoot
    BY <2>10 DEF FinishRoot, DefinesFlowUp
  <2>11. CASE UNCHANGED vars
    BY <2>11 DEF vars, DefinesFlowUp
  <2>12. ~(RefuseChild \/ EnterChild \/ ParseProgram \/ RejectProgram)
    BY <1>3 DEF RefuseChild, EnterChild, ParseProgram, RejectProgram
  <2>13. QED
    BY <2>3, <2>4, <2>5, <2>6, <2>7, <2>8, <2>9, <2>10, <2>11, <2>12 DEF Next
<1>4. QED BY <1>2, <1>3

\* Every #define and #undef reaches all the files that are waiting for the
\* current one (PreprocessorParser::AddDefined, SetDefinedParams, SetDefinedValue,
\* RemoveDefined): while a file is being preprocessed its includers have every macro it
\* has, and with its value unless that is the empty one.
THEOREM DefinesReachIncluders == Spec => []DefinesFlowUp
<1>1. Init => DefinesFlowUp
  <2>1. Init => \A i, j \in DOMAIN stack : ~(i < j)
    BY DEF Init
  <2>2. QED BY <2>1 DEF DefinesFlowUp
<1>2. LinkInv /\ DefinesFlowUp /\ [Next]_vars => DefinesFlowUp'
  BY MacrosStep
<1>3. QED BY Inductive, <1>1, <1>2, PTL DEF Spec
=============================================================================
