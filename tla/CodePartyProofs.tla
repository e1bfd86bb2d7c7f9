-------------------------- MODULE CodePartyProofs --------------------------
(***************************************************************************)
(* For every set of texts: what rest_ may carry over, that the line count  *)
(* never runs ahead of the text, that a plain text is cut into exactly its *)
(* segments, and that every part has the line it begins in.                *)
(*                                                                         *)
(* Segments is a recursive function over suffixes; it is proved once to be *)
(* a list of pieces that lie one behind the other, each ending at the      *)
(* first position where it must (Cut).  From there on everything is said   *)
(* by positions of the text: CutInv ties the state of the machine to its   *)
(* position, and LineInv the line count to the newlines before it.         *)
(***************************************************************************)
EXTENDS CodeParty, WellFoundedInduction, SequenceTheorems, FiniteSetTheorems, TLAPS

\* While a "/" is undecided, rest_ has it unless it opened the part; the state
\* to return to is one of three.
Undecided ==
  status = "commentStartBegin" =>
    /\ prev_status \in {"init", "code", "preprocessor"}
    /\ rest = <<>> <=> prev_status = "init"

PartyInv == TypeOK /\ Undecided

\* The part of it that is about the state of the machine.
StateOK ==
  /\ status \in States
  /\ prev_status \in States \cup {"notSpecified"}
  /\ rest \in {<<>>, <<"/">>}
  /\ rest # <<>> => status = "commentStartBegin"
  /\ Undecided

LEMMA Appended == Append(<<>>, "/") = <<"/">> /\ <<"/">> # <<>>
  BY SMT

LEMMA Starts == Init => PartyInv /\ Len(text) \in Nat
<1> SUFFICES ASSUME Init PROVE PartyInv /\ Len(text) \in Nat
  OBVIOUS
<1>1. Len(text) \in Nat
  <2>1. text \in Seq(STRING)
    BY TextsAssumption DEF Init
  <2>2. QED BY <2>1
<1>2. /\ current = 1 /\ rest = <<>> /\ status = "init" /\ prev_status = "notSpecified"
      /\ lineno = 0 /\ line = 0
  BY DEF Init
<1>3. TypeOK
  BY <1>1, <1>2 DEF TypeOK, States
<1>4. Undecided
  BY <1>2 DEF Undecided
<1> QED
  BY <1>1, <1>3, <1>4 DEF PartyInv

\* One character further, at most one line more.
LEMMA Advances ==
  ASSUME TypeOK, Len(text) \in Nat, NEW s, Reads(s), lineno' \in {lineno, lineno + 1},
         line' \in {line, lineno'}
  PROVE  current' \in 1 .. Len(text') + 1 /\ lineno' \in 0 .. current' - 1 /\ line' \in 0 .. lineno'
  BY DEF TypeOK, Reads

LEMMA Counts ==
  ASSUME TypeOK, CountsLines \/ lineno' = lineno
  PROVE  lineno' \in {lineno, lineno + 1}
  BY DEF TypeOK, CountsLines

LEMMA InInitKeeps ==
  ASSUME StateOK, InInit PROVE StateOK'
<1>1. rest = <<>>
  BY DEF StateOK, InInit, Reads
<1>2. rest' = rest /\ prev_status' = "init"
  BY DEF InInit, Reads, EnterStatus, GoesOn
<1>3. status' \in {"commentStartBegin", "preprocessor", "code"}
  BY DEF InInit, EnterStatus
<1> QED
  BY <1>1, <1>2, <1>3 DEF StateOK, Undecided, States

LEMMA OpensCommentKeeps ==
  ASSUME StateOK, OpensComment PROVE StateOK'
<1>1. status = "commentStartBegin" /\ prev_status' = prev_status
  BY DEF OpensComment, Reads, EnterStatus
<1>2. status' \in {"lineComment", "comment"}
  BY DEF OpensComment, EnterStatus
<1>3. rest' = <<>>
  <2>1. CASE prev_status \notin {"notSpecified", "init"}
    BY <2>1 DEF OpensComment, Returns
  <2>2. CASE prev_status \in {"notSpecified", "init"}
    BY <1>1, <2>2 DEF OpensComment, GoesOn, StateOK, Undecided
  <2> QED BY <2>1, <2>2
<1> QED
  BY <1>1, <1>2, <1>3 DEF StateOK, Undecided, States

LEMMA OpensNoCommentKeeps ==
  ASSUME StateOK, OpensNoComment PROVE StateOK'
<1>1. prev_status \in {"init", "code", "preprocessor"}
  BY DEF OpensNoComment, Reads, StateOK, Undecided
<1>2. rest' = <<>> /\ prev_status' = prev_status /\ status' = prev_status
  BY DEF OpensNoComment, Reads, EnterStatus, GoesOn
<1> QED
  BY <1>1, <1>2 DEF StateOK, Undecided, States

\* The three states of a comment carry nothing over.
LEMMA CommentKeeps ==
  ASSUME StateOK, InLineComment \/ InComment \/ InCommentStartEnd PROVE StateOK'
<1>1. rest = <<>>
  BY DEF StateOK, InLineComment, InComment, InCommentStartEnd, Reads
<1>2. rest' = <<>>
  BY <1>1 DEF InLineComment, InComment, InCommentStartEnd, GoesOn, Returns
<1>3. status' \in {"init", "lineComment", "comment", "commentStartEnd"}
  BY DEF InLineComment, InComment, InCommentStartEnd, Reads, EnterStatus
<1>4. prev_status' \in States \cup {"notSpecified"}
  BY DEF InLineComment, InComment, InCommentStartEnd, Reads, EnterStatus, StateOK
<1> QED
  BY <1>2, <1>3, <1>4 DEF StateOK, Undecided, States

LEMMA InCodeKeeps ==
  ASSUME StateOK, InCode PROVE StateOK'
<1>1. rest = <<>> /\ status = "code"
  BY DEF StateOK, InCode, Reads
<1>2. CASE Char = "#"
  <2>1. rest' = <<>> /\ status' = "preprocessor" /\ prev_status' = "code"
    BY <1>1, <1>2 DEF InCode, EnterStatus, Returns
  <2> QED
    BY <2>1 DEF StateOK, Undecided, States
<1>3. CASE Char = "/"
  <2>1. rest' = Append(<<>>, "/") /\ status' = "commentStartBegin" /\ prev_status' = "code"
    BY <1>1, <1>3 DEF InCode, EnterStatus, GoesOn
  <2> QED
    BY <2>1, Appended DEF StateOK, Undecided, States
<1>4. CASE Char \notin {"#", "/"}
  <2>1. rest' = rest /\ status' = status /\ prev_status' = prev_status
    BY <1>4 DEF InCode, GoesOn
  <2> QED
    BY <1>1, <2>1 DEF StateOK, Undecided, States
<1> QED
  BY <1>2, <1>3, <1>4

LEMMA InPreprocessorKeeps ==
  ASSUME StateOK, InPreprocessor PROVE StateOK'
<1>1. rest = <<>> /\ status = "preprocessor"
  BY DEF StateOK, InPreprocessor, Reads
<1> DEFINE EndsHere == Char = Newline /\ prev # Backslash
<1>2. CASE EndsHere
  <2>1. rest' = <<>> /\ status' = "init" /\ prev_status' = "preprocessor"
    BY <1>1, <1>2 DEF InPreprocessor, EnterStatus, Returns, Newline
  <2> QED
    BY <2>1 DEF StateOK, Undecided, States
<1>3. CASE Char = "/" /\ ~EndsHere
  <2>1. rest' = Append(<<>>, "/") /\ status' = "commentStartBegin" /\ prev_status' = "preprocessor"
    BY <1>1, <1>3 DEF InPreprocessor, EnterStatus, GoesOn
  <2> QED
    BY <2>1, Appended DEF StateOK, Undecided, States
<1>4. CASE Char # "/" /\ ~EndsHere
  <2>1. rest' = rest /\ status' = status /\ prev_status' = prev_status
    BY <1>4 DEF InPreprocessor, GoesOn
  <2> QED
    BY <1>1, <2>1 DEF StateOK, Undecided, States
<1> QED
  BY <1>2, <1>3, <1>4

LEMMA EndOfTextKeeps ==
  ASSUME StateOK, EndOfText PROVE StateOK'
<1>1. rest' = <<>>
  BY DEF EndOfText, Returns
<1>2. status' = "end"
  BY DEF EndOfText, EnterStatus
<1>3. prev_status' \in States \cup {"notSpecified"}
  BY DEF EndOfText, EnterStatus, StateOK
<1> QED
  BY <1>1, <1>2, <1>3 DEF StateOK, Undecided, States

\* Every character that is read counts at most one line, and the line of the
\* part is the old one or the present one.
LEMMA ReadingAdvances ==
  ASSUME TypeOK, Len(text) \in Nat, NEW s, Reads(s), CountsLines \/ lineno' = lineno,
         line' \in {line, lineno'}
  PROVE  /\ text' = text
         /\ current' \in 1 .. Len(text') + 1
         /\ lineno' \in 0 .. current' - 1
         /\ line' \in 0 .. lineno'
<1>1. text' = text
  BY DEF Reads
<1> QED
  BY <1>1, Counts, Advances

LEMMA CountersStay ==
  ASSUME TypeOK, Len(text) \in Nat, [Next]_vars
  PROVE  /\ text' = text
         /\ current' \in 1 .. Len(text') + 1
         /\ lineno' \in 0 .. current' - 1
         /\ line' \in 0 .. lineno'
<1>1. CASE InInit
  BY <1>1, ReadingAdvances DEF InInit, GoesOn
<1>2. CASE OpensComment
  BY <1>2, ReadingAdvances DEF OpensComment, GoesOn, Returns
<1>3. CASE OpensNoComment
  BY <1>3, ReadingAdvances DEF OpensNoComment, GoesOn
<1>4. CASE InLineComment
  BY <1>4, ReadingAdvances DEF InLineComment, GoesOn, Returns
<1>5. CASE InComment
  BY <1>5, ReadingAdvances DEF InComment, GoesOn
<1>6. CASE InCommentStartEnd
  BY <1>6, ReadingAdvances DEF InCommentStartEnd, GoesOn, Returns
<1>7. CASE InCode
  BY <1>7, ReadingAdvances DEF InCode, GoesOn, Returns
<1>8. CASE InPreprocessor
  BY <1>8, ReadingAdvances DEF InPreprocessor, GoesOn, Returns
<1>9. CASE EndOfText
  <2>1. text' = text /\ current' = current /\ lineno' = lineno /\ line' = lineno
    BY <1>9, Zenon DEF EndOfText, Returns
  <2> QED
    BY <2>1 DEF TypeOK
<1>10. CASE UNCHANGED vars
  BY <1>10 DEF vars, TypeOK
<1> QED
  BY <1>1, <1>2, <1>3, <1>4, <1>5, <1>6, <1>7, <1>8, <1>9, <1>10 DEF Next

LEMMA Keeps ==
  ASSUME PartyInv, Len(text) \in Nat, [Next]_vars
  PROVE  PartyInv' /\ Len(text') \in Nat
<1>1. StateOK
  BY DEF PartyInv, TypeOK, StateOK
<1>2. StateOK'
  <2>1. CASE Next
    BY <1>1, <2>1, InInitKeeps, OpensCommentKeeps, OpensNoCommentKeeps, CommentKeeps,
       InCodeKeeps, InPreprocessorKeeps, EndOfTextKeeps DEF Next
  <2>2. CASE UNCHANGED vars
    BY <1>1, <2>2 DEF vars, StateOK, Undecided
  <2> QED
    BY <2>1, <2>2
<1>3. /\ text' = text
      /\ current' \in 1 .. Len(text') + 1
      /\ lineno' \in 0 .. current' - 1
      /\ line' \in 0 .. lineno'
  BY CountersStay DEF PartyInv
<1> QED
  BY <1>2, <1>3 DEF PartyInv, TypeOK, StateOK

\* rest_ holds one undecided "/" or nothing, in every state and for every text, so
\* no call can prepend more than one character to the part that it returns; and
\* the line of a part is never ahead of the text.
THEOREM TypeCorrect == Spec => []TypeOK
<1>1. Init => PartyInv /\ Len(text) \in Nat
  BY Starts
<1>2. (PartyInv /\ Len(text) \in Nat) /\ [Next]_vars => (PartyInv /\ Len(text) \in Nat)'
  BY Keeps
<1>3. PartyInv => TypeOK
  BY DEF PartyInv
<1> QED
  BY <1>1, <1>2, <1>3, PTL DEF Spec

----------------------------------------------------------------------------
\* The characters of a text.
Chars == STRING

\* A set of numbers that is not empty has a least one.
LEMMA Least ==
  ASSUME NEW T \in SUBSET Nat, T # {}
  PROVE  \E m \in T : \A n \in T : m <= n
<1>1. IsWellFoundedOn(OpToRel(<, Nat), Nat)
  BY NatLessThanWellFounded
<1>2. PICK m \in T : \A n \in T : ~(<<n, m>> \in OpToRel(<, Nat))
  BY <1>1, WFMin
<1>3. ASSUME NEW n \in T PROVE m <= n
  <2>1. m \in Nat /\ n \in Nat
    OBVIOUS
  <2>2. ~(n < m)
    BY <1>2, <2>1 DEF OpToRel
  <2>3. QED BY <2>1, <2>2
<1>4. QED BY <1>3

----------------------------------------------------------------------------
\* What the text says, by positions instead of segments.

Suffix(t, i) == SubSeq(t, i, Len(t))
SegLen(t, i) == SegmentLength(Suffix(t, i))

\* The function inside Segments.
From(t) ==
  CHOOSE from : from = [i \in 1 .. Len(t) + 1 |->
    IF i > Len(t) THEN <<>>
    ELSE LET s == SubSeq(t, i, Len(t))
         IN  <<SubSeq(s, 1, SegmentLength(s))>> \o from[i + SegmentLength(s)]]

OpensIn(t, p) == p < Len(t) /\ t[p] = "/" /\ t[p + 1] \in {"/", "*"}
LineEndsIn(t, b, p) == t[p] = Newline /\ (p = b \/ t[p - 1] # Backslash)
ClosesIn(t, b, p) == p > b + 2 /\ t[p] = "/" /\ t[p - 1] = "*"

CommentAt(t, b, c) == b < Len(t) /\ t[b] = "/" /\ t[b + 1] = c

\* The segment that begins at b must end at p.
EndsIn(t, b, p) ==
  CASE CommentAt(t, b, "/") -> t[p] = Newline
    [] CommentAt(t, b, "*") -> ClosesIn(t, b, p)
    [] t[b] = "#" -> LineEndsIn(t, b, p) \/ OpensIn(t, p + 1)
    [] OTHER -> OpensIn(t, p + 1) \/ (p < Len(t) /\ t[p + 1] = "#")

\* The segment that begins at b ends at e.
Cut(t, b, e) ==
  /\ b \in 1 .. Len(t) /\ e \in b .. Len(t)
  /\ EndsIn(t, b, e) \/ e = Len(t)
  /\ \A p \in b .. e - 1 : ~EndsIn(t, b, p)

\* st lists where the segments S of t begin, and where the text ends.
Begins(t, S, st) ==
  /\ S \in Seq(Seq(Chars))
  /\ st \in [1 .. Len(S) + 1 -> 1 .. Len(t) + 1]
  /\ st[Len(S) + 1] = Len(t) + 1
  /\ \A k \in 1 .. Len(S) :
       Cut(t, st[k], st[k + 1] - 1) /\ S[k] = SubSeq(t, st[k], st[k + 1] - 1)

LEMMA SuffixIs ==
  ASSUME NEW t \in Seq(Chars), NEW b \in 1 .. Len(t)
  PROVE  /\ Suffix(t, b) \in Seq(Chars) /\ Len(Suffix(t, b)) = Len(t) - b + 1
         /\ \A i \in 1 .. Len(t) - b + 1 : Suffix(t, b)[i] = t[b + i - 1]
<1>1. Len(t) \in Nat
  OBVIOUS
<1>2. Suffix(t, b) = SubSeq(t, b, Len(t))
  BY DEF Suffix
<1>3. SubSeq(t, b, Len(t)) \in Seq(Chars)
      /\ Len(SubSeq(t, b, Len(t))) = Len(t) - b + 1
      /\ \A i \in 1 .. Len(t) - b + 1 : SubSeq(t, b, Len(t))[i] = t[b + i - 1]
  BY <1>1, SubSeqProperties
<1>4. QED BY <1>2, <1>3

LEMMA StartsPair ==
  ASSUME NEW s \in Seq(Chars), NEW c, NEW d
  PROVE  StartsWith(s, <<c, d>>) <=> Len(s) >= 2 /\ s[1] = c /\ s[2] = d
<1>1. Len(<<c, d>>) = 2
  OBVIOUS
<1>2. ASSUME Len(s) >= 2 PROVE SubSeq(s, 1, 2) = <<s[1], s[2]>>
  <2> DEFINE a == SubSeq(s, 1, 2)
             b == <<s[1], s[2]>>
  <2>1. a \in Seq(Chars) /\ Len(a) = 2 /\ \A i \in 1 .. 2 : a[i] = s[i]
    BY <1>2
  <2>2. b \in Seq(Chars) /\ Len(b) = 2 /\ \A i \in 1 .. 2 : b[i] = s[i]
    BY <1>2
  <2> HIDE DEF a, b
  <2>3. a = b
    BY <2>1, <2>2, SeqEqual
  <2>4. QED BY <2>3 DEF a, b
<1>3. ASSUME Len(s) >= 2 PROVE <<s[1], s[2]>> = <<c, d>> <=> s[1] = c /\ s[2] = d
  OBVIOUS
<1>4. QED BY <1>1, <1>2, <1>3 DEF StartsWith

LEMMA StartsOne ==
  ASSUME NEW s \in Seq(Chars), NEW c
  PROVE  StartsWith(s, <<c>>) <=> Len(s) >= 1 /\ s[1] = c
<1>1. Len(<<c>>) = 1
  OBVIOUS
<1>2. ASSUME Len(s) >= 1 PROVE SubSeq(s, 1, 1) = <<s[1]>>
  <2> DEFINE a == SubSeq(s, 1, 1)
             b == <<s[1]>>
  <2>1. a \in Seq(Chars) /\ Len(a) = 1 /\ \A i \in 1 .. 1 : a[i] = s[i]
    BY <1>2
  <2>2. b \in Seq(Chars) /\ Len(b) = 1 /\ \A i \in 1 .. 1 : b[i] = s[i]
    BY <1>2
  <2> HIDE DEF a, b
  <2>3. a = b
    BY <2>1, <2>2, SeqEqual
  <2>4. QED BY <2>3 DEF a, b
<1>3. <<s[1]>> = <<c>> <=> s[1] = c
  OBVIOUS
<1>4. QED BY <1>1, <1>2, <1>3 DEF StartsWith

LEMMA Kinds ==
  ASSUME NEW s \in Seq(Chars), Len(s) >= 1
  PROVE  /\ IsLineComment(s) <=> Len(s) >= 2 /\ s[1] = "/" /\ s[2] = "/"
         /\ IsBlockComment(s) <=> Len(s) >= 2 /\ s[1] = "/" /\ s[2] = "*"
         /\ IsDirective(s) <=> s[1] = "#"
BY StartsPair, StartsOne DEF IsLineComment, IsBlockComment, IsDirective

\* MustEnd, by positions.
LEMMA MustEndIs ==
  ASSUME NEW t \in Seq(Chars), NEW b \in 1 .. Len(t), NEW i \in 1 .. Len(t) - b + 1
  PROVE  MustEnd(Suffix(t, b), i) <=> EndsIn(t, b, b + i - 1)
<1> DEFINE s == Suffix(t, b)
           p == b + i - 1
<1>1. /\ s \in Seq(Chars) /\ Len(s) = Len(t) - b + 1 /\ Len(s) >= 1
      /\ \A j \in 1 .. Len(t) - b + 1 : s[j] = t[b + j - 1]
  <2> HIDE DEF s
  <2>1. /\ s \in Seq(Chars) /\ Len(s) = Len(t) - b + 1
        /\ \A j \in 1 .. Len(t) - b + 1 : s[j] = t[b + j - 1]
    BY SuffixIs DEF s
  <2>2. Len(s) >= 1
    <3>1. Len(t) \in Nat
      OBVIOUS
    <3>2. QED BY <2>1, <3>1
  <2>3. QED BY <2>1, <2>2
<1>2. Len(t) \in Nat /\ p \in b .. Len(t)
  OBVIOUS
<1> HIDE DEF s
<1>3. s[1] = t[b] /\ s[i] = t[p]
  BY <1>1, <1>2
<1>4. Len(s) >= 2 => s[2] = t[b + 1]
  BY <1>1, <1>2
<1>5. i > 1 => s[i - 1] = t[p - 1]
  BY <1>1, <1>2
<1>6. i < Len(s) => s[i + 1] = t[p + 1]
  BY <1>1, <1>2
<1>7. i + 1 < Len(s) => s[i + 1 + 1] = t[p + 1 + 1]
  BY <1>1, <1>2
<1>8. Len(s) >= 2 <=> b < Len(t)
  BY <1>1, <1>2
<1>9. (IsLineComment(s) <=> CommentAt(t, b, "/")) /\ (IsBlockComment(s) <=> CommentAt(t, b, "*"))
      /\ (IsDirective(s) <=> t[b] = "#")
  BY <1>1, <1>3, <1>4, <1>8, Kinds DEF CommentAt
<1>10. OpensAt(s, i + 1) <=> OpensIn(t, p + 1)
  BY <1>1, <1>2, <1>6, <1>7 DEF OpensAt, OpensIn
<1>11. EndsLine(s, i) <=> LineEndsIn(t, b, p)
  BY <1>2, <1>3, <1>5 DEF EndsLine, LineEndsIn
<1>12. ClosesAt(s, i) <=> ClosesIn(t, b, p)
  BY <1>2, <1>3, <1>5 DEF ClosesAt, ClosesIn
<1>13. (i < Len(s) /\ s[i + 1] = "#") <=> (p < Len(t) /\ t[p + 1] = "#")
  BY <1>1, <1>2, <1>6
<1> HIDE DEF p
<1>14. MustEnd(s, i) <=> EndsIn(t, b, p)
  BY <1>3, <1>9, <1>10, <1>11, <1>12, <1>13 DEF MustEnd, EndsIn
<1>15. QED BY <1>14 DEF s, p

LEMMA SegmentLengthIs ==
  ASSUME NEW s \in Seq(Chars), Len(s) >= 1
  PROVE  /\ SegmentLength(s) \in 1 .. Len(s)
         /\ MustEnd(s, SegmentLength(s)) \/ SegmentLength(s) = Len(s)
         /\ \A j \in 1 .. SegmentLength(s) - 1 : ~MustEnd(s, j)
<1>1. DOMAIN s = 1 .. Len(s) /\ Len(s) \in Nat
  OBVIOUS
<1>2. CASE \E i \in DOMAIN s : MustEnd(s, i)
  <2> DEFINE T == {i \in DOMAIN s : MustEnd(s, i)}
             Is(i) == MustEnd(s, i) /\ \A j \in 1 .. i - 1 : ~MustEnd(s, j)
  <2>1. PICK m \in T : \A n \in T : m <= n
    <3>1. T \in SUBSET Nat /\ T # {}
      BY <1>1, <1>2
    <3> HIDE DEF T
    <3>2. QED BY <3>1, Least
  <2>2. m \in DOMAIN s /\ Is(m)
    <3>1. ASSUME NEW j \in 1 .. m - 1 PROVE ~MustEnd(s, j)
      <4>1. j \in DOMAIN s /\ ~(m <= j)
        BY <1>1
      <4>2. QED BY <2>1, <4>1
    <3>2. QED BY <3>1
  <2>3. SegmentLength(s) = CHOOSE i \in DOMAIN s : Is(i)
    BY <1>2 DEF SegmentLength
  <2>4. SegmentLength(s) \in DOMAIN s /\ Is(SegmentLength(s))
    <3> HIDE DEF Is
    <3>1. QED BY <2>2, <2>3
  <2>5. QED BY <1>1, <2>4
<1>3. CASE ~ \E i \in DOMAIN s : MustEnd(s, i)
  <2>1. SegmentLength(s) = Len(s)
    BY <1>3 DEF SegmentLength
  <2>2. QED BY <1>1, <1>3, <2>1
<1>4. QED BY <1>2, <1>3

\* The first segment of the suffix at b.
LEMMA FirstCut ==
  ASSUME NEW t \in Seq(Chars), NEW b \in 1 .. Len(t)
  PROVE  LET e == b + SegLen(t, b) - 1 IN
         /\ SegLen(t, b) \in 1 .. Len(t) - b + 1
         /\ Cut(t, b, e)
         /\ SubSeq(Suffix(t, b), 1, SegLen(t, b)) = SubSeq(t, b, e)
<1> DEFINE n == SegLen(t, b)
           e == b + n - 1
           s == Suffix(t, b)
<1>1. /\ s \in Seq(Chars) /\ Len(s) = Len(t) - b + 1 /\ Len(t) \in Nat
      /\ \A i \in 1 .. Len(t) - b + 1 : s[i] = t[b + i - 1]
  BY SuffixIs
<1>2. /\ n \in 1 .. Len(s) /\ (MustEnd(s, n) \/ n = Len(s))
      /\ \A j \in 1 .. n - 1 : ~MustEnd(s, j)
  <2>1. Len(s) >= 1
    BY <1>1
  <2>2. QED BY <1>1, <2>1, SegmentLengthIs DEF SegLen
<1> HIDE DEF n, s
<1>3. e \in b .. Len(t) /\ n \in 1 .. Len(t) - b + 1
  BY <1>1, <1>2
<1>4. EndsIn(t, b, e) \/ e = Len(t)
  <2>1. CASE MustEnd(s, n)
    BY <1>3, <2>1, MustEndIs DEF s
  <2>2. CASE n = Len(s)
    BY <1>1, <2>2
  <2>3. QED BY <1>2, <2>1, <2>2
<1>5. ASSUME NEW p \in b .. e - 1 PROVE ~EndsIn(t, b, p)
  <2> DEFINE j == p - b + 1
  <2>1. j \in 1 .. n - 1 /\ j \in 1 .. Len(t) - b + 1 /\ b + j - 1 = p
    BY <1>1, <1>2
  <2>2. ~MustEnd(s, j)
    BY <1>2, <2>1
  <2> HIDE DEF j
  <2>3. QED BY <2>1, <2>2, MustEndIs DEF s
<1>6. Cut(t, b, e)
  <2> HIDE DEF e
  <2>1. QED BY <1>3, <1>4, <1>5 DEF Cut
<1>7. SubSeq(s, 1, n) = SubSeq(t, b, e)
  <2>1. SubSeq(s, 1, n) = [i \in 1 .. n |-> s[i]]
    BY <1>1, <1>2
  <2>2. SubSeq(t, b, e) = [i \in 1 .. n |-> t[b + i - 1]]
    BY <1>1, <1>3
  <2>3. QED BY <1>1, <1>3, <2>1, <2>2
<1>8. QED BY <1>3, <1>6, <1>7 DEF n, s

\* What the function inside Segments says of i, for any function f in its own place.
FromOf(t, f, i) ==
  IF i > Len(t) THEN <<>>
  ELSE <<SubSeq(Suffix(t, i), 1, SegLen(t, i))>> \o f[i + SegLen(t, i)]

\* It satisfies its equation, since a segment is not empty.
LEMMA FromUnfold ==
  ASSUME NEW t \in Seq(Chars)
  PROVE  \A i \in 1 .. Len(t) + 1 : From(t)[i] = FromOf(t, From(t), i)
<1> DEFINE D == 1 .. Len(t) + 1
           Right(f, n) == \A i \in D : i >= n => f[i] = FromOf(t, f, i)
           Done(n) == \E f : f = [i \in D |-> f[i]] /\ Right(f, n)
           T == {k \in 0 .. Len(t) : ~Done(Len(t) + 1 - k)}
<1>1. Len(t) \in Nat
  OBVIOUS
<1>2. Done(Len(t) + 1)
  <2> DEFINE f == [i \in D |-> <<>>]
  <2>1. Right(f, Len(t) + 1)
    BY <1>1 DEF FromOf
  <2>2. QED BY <2>1
<1>3. ASSUME NEW n \in 1 .. Len(t), Done(n + 1) PROVE Done(n)
  <2>1. PICK f : f = [i \in D |-> f[i]] /\ Right(f, n + 1)
    BY <1>3
  <2> DEFINE h == [i \in D |-> IF i = n THEN FromOf(t, f, n) ELSE f[i]]
  <2>2. h = [i \in D |-> h[i]] /\ \A i \in D : h[i] = IF i = n THEN FromOf(t, f, n) ELSE f[i]
    OBVIOUS
  <2> HIDE DEF h
  <2>3. ASSUME NEW i \in D, i >= n PROVE FromOf(t, h, i) = FromOf(t, f, i)
    <3>1. CASE i > Len(t)
      BY <3>1 DEF FromOf
    <3>2. CASE i <= Len(t)
      <4>1. i \in 1 .. Len(t)
        BY <1>1, <3>2
      <4>2. SegLen(t, i) \in 1 .. Len(t) - i + 1
        BY <4>1, FirstCut
      <4>3. i + SegLen(t, i) \in D /\ i + SegLen(t, i) # n
        BY <1>1, <2>3, <4>1, <4>2
      <4>4. h[i + SegLen(t, i)] = f[i + SegLen(t, i)]
        BY <2>2, <4>3
      <4>5. QED BY <4>4 DEF FromOf
    <3>3. QED BY <1>1, <3>1, <3>2
  <2>4. ASSUME NEW i \in D, i >= n PROVE h[i] = FromOf(t, h, i)
    <3>1. CASE i = n
      BY <2>2, <2>3, <3>1
    <3>2. CASE i # n
      <4>1. i >= n + 1
        BY <1>1, <2>4, <3>2
      <4>2. f[i] = FromOf(t, f, i)
        BY <2>1, <4>1
      <4>3. QED BY <2>2, <2>3, <2>4, <3>2, <4>2
    <3>3. QED BY <3>1, <3>2
  <2>5. Right(h, n)
    BY <2>4
  <2>6. QED BY <2>2, <2>5
<1> HIDE DEF Done
<1>4. T = {}
  <2>1. SUFFICES ASSUME T # {} PROVE FALSE
    OBVIOUS
  <2>2. PICK m \in T : \A k \in T : m <= k
    <3>1. T \in SUBSET Nat
      BY <1>1
    <3> HIDE DEF T
    <3>2. QED BY <2>1, <3>1, Least
  <2>3. m \in 1 .. Len(t) /\ m - 1 \in 0 .. Len(t)
    BY <1>1, <1>2
  <2>4. m - 1 \notin T
    <3> HIDE DEF T
    <3>1. QED BY <2>2, <2>3
  <2>5. Done(Len(t) + 1 - (m - 1))
    BY <2>3, <2>4
  <2>6. Len(t) + 1 - (m - 1) = (Len(t) + 1 - m) + 1 /\ Len(t) + 1 - m \in 1 .. Len(t)
    BY <1>1, <2>3
  <2>7. Done(Len(t) + 1 - m)
    BY <1>3, <2>5, <2>6
  <2>8. QED BY <2>7
<1>5. Done(1)
  <2>1. Len(t) \in 0 .. Len(t) /\ Len(t) + 1 - Len(t) = 1
    BY <1>1
  <2>2. QED BY <1>4, <2>1
<1> DEFINE Good(f) == f = [i \in D |-> FromOf(t, f, i)]
<1>6. PICK f : f = [i \in D |-> f[i]] /\ Right(f, 1)
  BY <1>5 DEF Done
<1>7. Good(f)
  BY <1>6
<1>8. From(t) = CHOOSE g : Good(g)
  BY DEF From, FromOf, Suffix, SegLen
<1>9. Good(From(t))
  <2> HIDE DEF Good
  <2>1. QED BY <1>7, <1>8
<1>10. QED BY <1>9

LEMMA SegmentsFrom ==
  ASSUME NEW t
  PROVE  Segments(t) = From(t)[1]
BY DEF Segments, From

\* The segments from b on, and where they begin.
BeginsFrom(t, b, S, st) ==
  Begins(t, S, st) /\ st[1] = b

LEMMA FirstBegins ==
  ASSUME NEW t \in Seq(Chars), NEW b \in 1 .. Len(t), NEW S, NEW st,
         BeginsFrom(t, b + SegLen(t, b), S, st)
  PROVE  \E u : BeginsFrom(t, b, <<SubSeq(Suffix(t, b), 1, SegLen(t, b))>> \o S, u)
<1> DEFINE e == b + SegLen(t, b) - 1
           s == SubSeq(t, b, e)
           R == <<s>> \o S
           u == [k \in 1 .. Len(R) + 1 |-> IF k = 1 THEN b ELSE st[k - 1]]
<1>1. /\ Cut(t, b, e) /\ SubSeq(Suffix(t, b), 1, SegLen(t, b)) = s
      /\ SegLen(t, b) \in 1 .. Len(t) - b + 1
  BY FirstCut
<1>2. Len(t) \in Nat /\ e + 1 = b + SegLen(t, b) /\ e \in b .. Len(t)
  BY <1>1
<1>3. /\ S \in Seq(Seq(Chars)) /\ Len(S) \in Nat
      /\ st \in [1 .. Len(S) + 1 -> 1 .. Len(t) + 1]
      /\ st[Len(S) + 1] = Len(t) + 1 /\ st[1] = e + 1
      /\ \A k \in 1 .. Len(S) :
           Cut(t, st[k], st[k + 1] - 1) /\ S[k] = SubSeq(t, st[k], st[k + 1] - 1)
  <2>1. S \in Seq(Seq(Chars))
    BY DEF BeginsFrom, Begins
  <2>2. QED BY <1>2, <2>1 DEF BeginsFrom, Begins
<1>4. s \in Seq(Chars)
  <2>1. \A i \in b .. e : t[i] \in Chars
    BY <1>2
  <2>2. QED BY <1>2, <2>1, SubSeqProperties
<1> HIDE DEF s, e
<1>5. /\ R \in Seq(Seq(Chars)) /\ Len(R) = Len(S) + 1 /\ R[1] = s
      /\ \A k \in 1 .. Len(S) : R[k + 1] = S[k]
  <2>1. <<s>> \in Seq(Seq(Chars)) /\ Len(<<s>>) = 1 /\ <<s>>[1] = s
    BY <1>4
  <2>2. /\ R \in Seq(Seq(Chars)) /\ Len(R) = 1 + Len(S)
        /\ \A i \in 1 .. 1 + Len(S) : R[i] = IF i <= 1 THEN <<s>>[i] ELSE S[i - 1]
    BY <1>3, <2>1, ConcatProperties
  <2>3. QED BY <1>3, <2>1, <2>2
<1> HIDE DEF R
<1>6. \A k \in 1 .. Len(R) + 1 : u[k] = IF k = 1 THEN b ELSE st[k - 1]
  OBVIOUS
<1>7. u \in [1 .. Len(R) + 1 -> 1 .. Len(t) + 1]
  <2>1. ASSUME NEW k \in 1 .. Len(R) + 1, k # 1 PROVE st[k - 1] \in 1 .. Len(t) + 1
    <3>1. k - 1 \in 1 .. Len(S) + 1
      BY <1>3, <1>5, <2>1
    <3>2. QED BY <1>3, <3>1
  <2>2. QED BY <1>2, <2>1
<1> HIDE DEF u
<1>8. u[1] = b /\ u[2] = e + 1 /\ u[Len(R) + 1] = Len(t) + 1
  <2>1. 1 \in 1 .. Len(R) + 1 /\ 2 \in 1 .. Len(R) + 1 /\ Len(R) + 1 \in 1 .. Len(R) + 1
        /\ Len(R) + 1 # 1 /\ Len(R) + 1 - 1 = Len(S) + 1 /\ 2 - 1 = 1
    BY <1>3, <1>5
  <2>2. QED BY <1>3, <1>6, <2>1
<1>9. ASSUME NEW k \in 1 .. Len(R)
      PROVE  Cut(t, u[k], u[k + 1] - 1) /\ R[k] = SubSeq(t, u[k], u[k + 1] - 1)
  <2>1. CASE k = 1
    <3>1. u[k] = b /\ u[k + 1] - 1 = e /\ R[k] = s
      BY <1>2, <1>5, <1>8, <2>1
    <3>2. QED BY <1>1, <3>1 DEF s, e
  <2>2. CASE k # 1
    <3>1. k - 1 \in 1 .. Len(S) /\ k \in 1 .. Len(R) + 1 /\ k + 1 \in 1 .. Len(R) + 1
          /\ k - 1 + 1 = k /\ k + 1 - 1 = k /\ k + 1 # 1
      BY <1>3, <1>5, <2>2
    <3>2. u[k] = st[k - 1] /\ u[k + 1] = st[k]
      BY <1>6, <2>2, <3>1
    <3>3. R[k] = S[k - 1]
      BY <1>5, <3>1
    <3>4. Cut(t, st[k - 1], st[k] - 1) /\ S[k - 1] = SubSeq(t, st[k - 1], st[k] - 1)
      BY <1>3, <3>1
    <3>5. QED BY <3>2, <3>3, <3>4
  <2>3. QED BY <2>1, <2>2
<1>10. BeginsFrom(t, b, R, u)
  BY <1>5, <1>7, <1>8, <1>9 DEF BeginsFrom, Begins
<1>11. QED BY <1>1, <1>10 DEF R

\* The segments of a text lie one behind the other in it.
LEMMA SegmentsBegin ==
  ASSUME NEW t \in Seq(Chars)
  PROVE  \E st : BeginsFrom(t, 1, Segments(t), st)
<1> DEFINE Done(b) == \E st : BeginsFrom(t, b, From(t)[b], st)
           T == {k \in 0 .. Len(t) : ~Done(Len(t) + 1 - k)}
<1>1. Len(t) \in Nat
  OBVIOUS
<1>2. Done(Len(t) + 1)
  <2> DEFINE b == Len(t) + 1
             st == [k \in 1 .. 1 |-> b]
  <2>1. From(t)[b] = <<>>
    <3>1. b \in 1 .. Len(t) + 1 /\ b > Len(t)
      BY <1>1
    <3>2. QED BY <3>1, FromUnfold DEF FromOf
  <2>2. BeginsFrom(t, b, <<>>, st)
    <3>1. <<>> \in Seq(Seq(Chars)) /\ Len(<<>>) = 0
      OBVIOUS
    <3>2. st \in [1 .. 0 + 1 -> 1 .. Len(t) + 1] /\ st[0 + 1] = b /\ st[1] = b
      BY <1>1
    <3> HIDE DEF st
    <3>3. QED BY <1>1, <3>1, <3>2 DEF BeginsFrom, Begins
  <2>3. QED BY <2>1, <2>2
<1>3. ASSUME NEW b \in 1 .. Len(t), \A c \in b + 1 .. Len(t) + 1 : Done(c) PROVE Done(b)
  <2> DEFINE c == b + SegLen(t, b)
  <2>1. SegLen(t, b) \in 1 .. Len(t) - b + 1
    BY FirstCut
  <2>2. c \in b + 1 .. Len(t) + 1
    BY <1>1, <2>1
  <2>3. PICK st : BeginsFrom(t, c, From(t)[c], st)
    <3>1. Done(c)
      <4> HIDE DEF Done, c
      <4>1. QED BY <1>3, <2>2
    <3>2. QED BY <3>1
  <2>4. From(t)[b] = <<SubSeq(Suffix(t, b), 1, SegLen(t, b))>> \o From(t)[c]
    <3>1. b \in 1 .. Len(t) + 1 /\ ~(b > Len(t))
      BY <1>1
    <3>2. QED BY <3>1, FromUnfold DEF FromOf
  <2>5. \E u : BeginsFrom(t, b, <<SubSeq(Suffix(t, b), 1, SegLen(t, b))>> \o From(t)[c], u)
    BY <2>3, FirstBegins
  <2>6. QED BY <2>4, <2>5
<1> HIDE DEF Done
<1>4. T = {}
  <2>1. SUFFICES ASSUME T # {} PROVE FALSE
    OBVIOUS
  <2>2. PICK m \in T : \A k \in T : m <= k
    <3>1. T \in SUBSET Nat
      BY <1>1
    <3> HIDE DEF T
    <3>2. QED BY <2>1, <3>1, Least
  <2> DEFINE b == Len(t) + 1 - m
  <2>3. b \in 1 .. Len(t) /\ m \in Nat
    BY <1>1, <1>2
  <2>4. ASSUME NEW c \in b + 1 .. Len(t) + 1 PROVE Done(c)
    <3>1. Len(t) + 1 - c \in 0 .. Len(t) /\ ~(m <= Len(t) + 1 - c)
          /\ Len(t) + 1 - (Len(t) + 1 - c) = c
      BY <1>1, <2>3
    <3>2. Len(t) + 1 - c \notin T
      <4> HIDE DEF T, b
      <4>1. QED BY <2>2, <3>1
    <3>3. QED BY <3>1, <3>2
  <2>5. Done(b)
    <3> HIDE DEF T, b
    <3>1. QED BY <1>3, <2>3, <2>4
  <2>6. QED BY <2>5
<1>5. Done(1)
  <2>1. Len(t) \in 0 .. Len(t) /\ Len(t) + 1 - Len(t) = 1
    BY <1>1
  <2>2. QED BY <1>4, <2>1
<1>6. QED BY <1>5, SegmentsFrom DEF Done

\* Where they begin.
StartsOf(t) == CHOOSE st : BeginsFrom(t, 1, Segments(t), st)

LEMMA StartsBegin ==
  ASSUME NEW t \in Seq(Chars)
  PROVE  BeginsFrom(t, 1, Segments(t), StartsOf(t))
BY SegmentsBegin DEF StartsOf

\* The k-th segment.
LEMMA SegmentAt ==
  ASSUME NEW t \in Seq(Chars), NEW k \in 1 .. Len(Segments(t))
  PROVE  LET st == StartsOf(t) IN
         /\ Cut(t, st[k], st[k + 1] - 1)
         /\ Segments(t)[k] = SubSeq(t, st[k], st[k + 1] - 1)
         /\ st[k] \in 1 .. Len(t) /\ st[k + 1] \in st[k] + 1 .. Len(t) + 1
<1> DEFINE S == Segments(t)
           st == StartsOf(t)
<1>1. Begins(t, S, st)
  BY StartsBegin DEF BeginsFrom
<1> HIDE DEF S, st
<1>2. S \in Seq(Seq(Chars)) /\ Len(S) \in Nat /\ Len(t) \in Nat
  BY <1>1 DEF Begins
<1>3. Cut(t, st[k], st[k + 1] - 1) /\ S[k] = SubSeq(t, st[k], st[k + 1] - 1)
  BY <1>1 DEF Begins, S
<1>4. st[k] \in 1 .. Len(t) + 1 /\ st[k + 1] \in 1 .. Len(t) + 1
  <2>1. k \in 1 .. Len(S) + 1 /\ k + 1 \in 1 .. Len(S) + 1
    BY <1>2 DEF S
  <2>2. QED BY <1>1, <2>1 DEF Begins
<1>5. QED BY <1>2, <1>3, <1>4 DEF S, st, Cut

\* The text ends with the last segment.
LEMMA LastSegment ==
  ASSUME NEW t \in Seq(Chars)
  PROVE  /\ Len(Segments(t)) \in Nat /\ DOMAIN Segments(t) = 1 .. Len(Segments(t))
         /\ StartsOf(t)[1] = 1
         /\ \A k \in 1 .. Len(Segments(t)) + 1 :
              /\ StartsOf(t)[k] \in 1 .. Len(t) + 1
              /\ StartsOf(t)[k] <= Len(t) <=> k <= Len(Segments(t))
<1> DEFINE S == Segments(t)
           st == StartsOf(t)
<1>1. Begins(t, S, st) /\ st[1] = 1
  BY StartsBegin DEF BeginsFrom
<1>2. \A k \in 1 .. Len(S) : st[k] \in 1 .. Len(t)
  BY SegmentAt
<1> HIDE DEF S, st
<1>3. S \in Seq(Seq(Chars)) /\ Len(S) \in Nat /\ Len(t) \in Nat
  BY <1>1 DEF Begins
<1>4. st[Len(S) + 1] = Len(t) + 1
  BY <1>1 DEF Begins
<1>5. ASSUME NEW k \in 1 .. Len(S) + 1
      PROVE  st[k] \in 1 .. Len(t) + 1 /\ (st[k] <= Len(t) <=> k <= Len(S))
  <2>1. CASE k = Len(S) + 1
    BY <1>3, <1>4, <2>1
  <2>2. CASE k # Len(S) + 1
    <3>1. k \in 1 .. Len(S)
      BY <1>3, <2>2
    <3>2. st[k] \in 1 .. Len(t)
      BY <1>2, <3>1
    <3>3. QED BY <1>3, <3>1, <3>2
  <2>3. QED BY <2>1, <2>2
<1>6. DOMAIN S = 1 .. Len(S)
  BY <1>3
<1>7. QED BY <1>1, <1>3, <1>5, <1>6 DEF S, st

\* A segment has one end.
LEMMA CutOnce ==
  ASSUME NEW t, Len(t) \in Nat, NEW b, NEW e, NEW f, Cut(t, b, e), Cut(t, b, f)
  PROVE  e = f
<1>1. e \in b .. Len(t) /\ f \in b .. Len(t) /\ b \in 1 .. Len(t)
  BY DEF Cut
<1>2. ~(e < f)
  <2>1. SUFFICES ASSUME e < f PROVE FALSE
    OBVIOUS
  <2>2. e \in b .. f - 1 /\ e # Len(t)
    BY <1>1, <2>1
  <2>3. QED BY <2>2 DEF Cut
<1>3. ~(f < e)
  <2>1. SUFFICES ASSUME f < e PROVE FALSE
    OBVIOUS
  <2>2. f \in b .. e - 1 /\ f # Len(t)
    BY <1>1, <2>1
  <2>3. QED BY <2>2 DEF Cut
<1>4. QED BY <1>1, <1>2, <1>3

\* As long as nothing ends the segment, its end is not behind.
LEMMA CutAhead ==
  ASSUME NEW t, Len(t) \in Nat, NEW b, NEW e, Cut(t, b, e), NEW p \in b .. Len(t),
         \A q \in b .. p - 1 : ~EndsIn(t, b, q)
  PROVE  p <= e
<1>1. e \in b .. Len(t) /\ b \in 1 .. Len(t)
  BY DEF Cut
<1>2. SUFFICES ASSUME e < p PROVE FALSE
  BY <1>1
<1>3. e \in b .. p - 1 /\ e # Len(t)
  BY <1>1, <1>2
<1>4. QED BY <1>3 DEF Cut

\* A piece of the text.
LEMMA PieceIs ==
  ASSUME NEW t \in Seq(Chars), NEW b \in 1 .. Len(t), NEW e \in b .. Len(t)
  PROVE  /\ SubSeq(t, b, e) \in Seq(Chars) /\ Len(SubSeq(t, b, e)) = e - b + 1
         /\ SubSeq(t, b, e) # <<>>
         /\ \A i \in 1 .. e - b + 1 : SubSeq(t, b, e)[i] = t[b + i - 1]
<1>1. \A i \in b .. e : t[i] \in Chars
  OBVIOUS
<1>2. /\ SubSeq(t, b, e) \in Seq(Chars) /\ Len(SubSeq(t, b, e)) = e - b + 1
      /\ \A i \in 1 .. e - b + 1 : SubSeq(t, b, e)[i] = t[b + i - 1]
  BY <1>1, SubSeqProperties
<1>3. QED BY <1>2

LEMMA KindOfPiece ==
  ASSUME NEW t \in Seq(Chars), NEW b \in 1 .. Len(t), NEW e \in b .. Len(t)
  PROVE  LET s == SubSeq(t, b, e) IN
         /\ e > b => (IsBlockComment(s) <=> CommentAt(t, b, "*"))
         /\ IsDirective(s) <=> t[b] = "#"
         /\ (e > b /\ (CommentAt(t, b, "/") \/ CommentAt(t, b, "*"))) => KindOf(s) = "comment"
         /\ t[b] = "#" => KindOf(s) = "preprocessor"
         /\ t[b] # "#" /\ ~CommentAt(t, b, "/") /\ ~CommentAt(t, b, "*") => KindOf(s) = "code"
<1> DEFINE s == SubSeq(t, b, e)
<1>1. /\ s \in Seq(Chars) /\ Len(s) = e - b + 1 /\ Len(s) >= 1
      /\ \A i \in 1 .. e - b + 1 : s[i] = t[b + i - 1]
  BY PieceIs
<1> HIDE DEF s
<1>2. s[1] = t[b] /\ (e > b => s[2] = t[b + 1]) /\ (Len(s) >= 2 <=> e > b)
  BY <1>1
<1>3. /\ IsLineComment(s) <=> e > b /\ t[b] = "/" /\ t[b + 1] = "/"
      /\ IsBlockComment(s) <=> e > b /\ t[b] = "/" /\ t[b + 1] = "*"
      /\ IsDirective(s) <=> t[b] = "#"
  BY <1>1, <1>2, Kinds
<1>4. e > b => b < Len(t)
  OBVIOUS
<1>5. QED BY <1>3, <1>4 DEF s, KindOf, IsComment, CommentAt

\* What Plain says of the segment from b to e.
PlainAt(t, b, e) ==
  /\ t[b] = "#" => \A q \in b .. e : t[q] # "/" /\ t[q] # Return
  /\ t[b] = "#" /\ e < Len(t) => LineEndsIn(t, b, e)
  /\ t[b] = "/" => CommentAt(t, b, "/") \/ CommentAt(t, b, "*")
  /\ t[b] \notin {"/", "#"} => t[e] # "/"
  /\ CommentAt(t, b, "*") => ClosesIn(t, b, e) \/ t[e] # "*" \/ e <= b + 1

LEMMA PlainMeans ==
  ASSUME NEW t \in Seq(Chars), Plain(Segments(t)), NEW k \in 1 .. Len(Segments(t))
  PROVE  LET b == StartsOf(t)[k]
             e == StartsOf(t)[k + 1] - 1
         IN  Cut(t, b, e) /\ PlainAt(t, b, e)
<1> DEFINE S == Segments(t)
           st == StartsOf(t)
           b == st[k]
           e == st[k + 1] - 1
           s == S[k]
<1>1. /\ Cut(t, b, e) /\ s = SubSeq(t, b, e) /\ b \in 1 .. Len(t) /\ e \in b .. Len(t)
      /\ Len(t) \in Nat /\ st[k + 1] = e + 1
  <2>1. /\ Cut(t, b, e) /\ s = SubSeq(t, b, e) /\ b \in 1 .. Len(t)
        /\ st[k + 1] \in b + 1 .. Len(t) + 1
    BY SegmentAt
  <2>2. Len(t) \in Nat
    OBVIOUS
  <2> HIDE DEF S, st, b, s
  <2>3. QED BY <2>1, <2>2 DEF e
<1>2. k \in DOMAIN S /\ Len(S) \in Nat /\ (e < Len(t) => k < Len(S))
  <2>1. k + 1 \in 1 .. Len(S) + 1 /\ Len(S) \in Nat /\ k \in DOMAIN S
    BY LastSegment
  <2>2. st[k + 1] <= Len(t) <=> k + 1 <= Len(S)
    BY <2>1, LastSegment
  <2>3. QED BY <1>1, <2>1, <2>2
<1>3. /\ IsDirective(s) =>
           /\ ToSet(s) \cap {"/", Return} = {}
           /\ k < Len(S) => EndsLine(s, Len(s))
      /\ KindOf(s) = "code" => s[1] # "/" /\ Last(s) # "/"
      /\ IsBlockComment(s) => ClosesAt(s, Len(s)) \/ Last(s) # "*" \/ Len(s) = 2
  BY <1>2 DEF Plain
<1> HIDE DEF S, st, b, e, s
<1>4. /\ s \in Seq(Chars) /\ Len(s) = e - b + 1
      /\ \A i \in 1 .. e - b + 1 : s[i] = t[b + i - 1]
  BY <1>1, PieceIs
<1>5. s[1] = t[b] /\ Last(s) = t[e] /\ s[Len(s)] = t[e]
      /\ (e > b => s[Len(s) - 1] = t[e - 1])
  BY <1>1, <1>4 DEF Last
<1>6. /\ e > b => (IsBlockComment(s) <=> CommentAt(t, b, "*"))
      /\ IsDirective(s) <=> t[b] = "#"
      /\ t[b] # "#" /\ ~CommentAt(t, b, "/") /\ ~CommentAt(t, b, "*") => KindOf(s) = "code"
  BY <1>1, KindOfPiece
<1>7. t[b] = "#" => \A q \in b .. e : t[q] # "/" /\ t[q] # Return
  <2>1. SUFFICES ASSUME t[b] = "#", NEW q \in b .. e PROVE t[q] \notin {"/", Return}
    OBVIOUS
  <2>2. q - b + 1 \in DOMAIN s /\ s[q - b + 1] = t[q]
    <3>1. q - b + 1 \in 1 .. e - b + 1 /\ b + (q - b + 1) - 1 = q
      BY <1>1
    <3>2. s[q - b + 1] = t[b + (q - b + 1) - 1]
      BY <1>4, <3>1
    <3>3. DOMAIN s = 1 .. e - b + 1
      BY <1>4
    <3>4. QED BY <3>1, <3>2, <3>3
  <2>3. t[q] \in ToSet(s)
    BY <2>2 DEF ToSet
  <2>4. QED BY <1>3, <1>6, <2>1, <2>3
<1>8. t[b] = "#" /\ e < Len(t) => LineEndsIn(t, b, e)
  <2>1. SUFFICES ASSUME t[b] = "#", e < Len(t) PROVE LineEndsIn(t, b, e)
    OBVIOUS
  <2>2. EndsLine(s, Len(s))
    BY <1>2, <1>3, <1>6, <2>1
  <2>3. QED BY <1>1, <1>4, <1>5, <2>2 DEF EndsLine, LineEndsIn
<1>9. t[b] = "/" => CommentAt(t, b, "/") \/ CommentAt(t, b, "*")
  BY <1>3, <1>5, <1>6
<1>10. t[b] \notin {"/", "#"} => t[e] # "/"
  BY <1>3, <1>5, <1>6 DEF CommentAt
<1>11. CommentAt(t, b, "*") => ClosesIn(t, b, e) \/ t[e] # "*" \/ e <= b + 1
  <2>1. SUFFICES ASSUME CommentAt(t, b, "*"), e > b PROVE ClosesIn(t, b, e) \/ t[e] # "*" \/ e <= b + 1
    BY <1>1
  <2>2. ClosesAt(s, Len(s)) \/ Last(s) # "*" \/ Len(s) = 2
    BY <1>3, <1>6, <2>1
  <2>3. ClosesAt(s, Len(s)) => ClosesIn(t, b, e)
    BY <1>1, <1>4, <1>5, <2>1 DEF ClosesAt, ClosesIn
  <2>4. Len(s) = 2 => e <= b + 1
    BY <1>1, <1>4
  <2>5. QED BY <1>5, <2>2, <2>3, <2>4
<1>12. PlainAt(t, b, e)
  BY <1>7, <1>8, <1>9, <1>10, <1>11 DEF PlainAt
<1>13. QED BY <1>1, <1>12 DEF st, b, e
----------------------------------------------------------------------------
\* Where the machine is in the text.

\* The part begun at b has been read up to p, in the state named by the operator.
InsideCode(t, b, p) ==
  t[b] \notin {"/", "#"} /\ \A q \in b .. p - 1 : ~EndsIn(t, b, q)

InsideComment(t, b, p, c) ==
  CommentAt(t, b, c) /\ p > b /\ \A q \in b .. p : ~EndsIn(t, b, q)

InsideDirective(t, b, p, pv) ==
  /\ t[b] = "#" /\ (pv = Backslash <=> t[p] = Backslash)
  /\ \A q \in b .. p : ~LineEndsIn(t, b, q) /\ t[q] # "/"

BehindSlash(t, b, p, ps) ==
  /\ t[p] = "/"
  /\ ps = "init" => p = b
  /\ ps # "init" => /\ ps = "code" /\ p > b /\ t[b] \notin {"/", "#"}
                    /\ \A q \in b .. p - 2 : ~EndsIn(t, b, q)

Inside(t, b, p, s, ps, pv) ==
  /\ s \in {"code", "lineComment", "comment", "commentStartEnd", "preprocessor", "commentStartBegin"}
  /\ s = "code" => InsideCode(t, b, p)
  /\ s = "lineComment" => InsideComment(t, b, p, "/")
  /\ s = "comment" => InsideComment(t, b, p, "*") /\ (t[p] # "*" \/ p = b + 1)
  /\ s = "commentStartEnd" => InsideComment(t, b, p, "*") /\ t[p] = "*" /\ p > b + 1
  /\ s = "preprocessor" => InsideDirective(t, b, p, pv)
  /\ s = "commentStartBegin" => BehindSlash(t, b, p, ps)

\* The current part begins at b, the next character is at cur.
Between(b, cur, con, r) == con = <<>> /\ r = <<>> /\ cur = b

\* What has been read of the part: r has the slash behind p that is not decided yet.
Holding(t, b, p, con, r, s, ps) ==
  IF s = "commentStartBegin" /\ ps # "init"
  THEN con = SubSeq(t, b, p - 1) /\ r = <<"/">>
  ELSE con = SubSeq(t, b, p) /\ r = <<>>

Place(t, b, cur, con, r, s, ps, pv) ==
  /\ s = "init" => Between(b, cur, con, r)
  /\ s = "end" => Between(b, cur, con, r) /\ b = Len(t) + 1
  /\ s \notin {"init", "end"} =>
       /\ cur - 1 \in b .. Len(t)
       /\ Holding(t, b, cur - 1, con, r, s, ps)
       /\ Inside(t, b, cur - 1, s, ps, pv)

Here == StartsOf(text)[Len(parts) + 1]

At(b) == Place(text, b, current, content, rest, status, prev_status, prev)
AtNext(b) == Place(text, b, current', content', rest', status', prev_status', prev')

\* No line ends from p to q.
NoLine(t, p, q) == \A i \in p .. q : t[i] # Newline

\* A step stays in the part that begins at b, or returns the whole of it; what was
\* read behind the part is not a newline.
Moves(b) ==
  \/ parts' = parts /\ line' = line /\ AtNext(b)
  \/ \E e \in b .. Len(text) :
       /\ Cut(text, b, e)
       /\ line' = lineno' /\ e < current' /\ NoLine(text, e + 1, current' - 1)
       /\ \E kind : /\ kind = KindOf(SubSeq(text, b, e))
                    /\ parts' = Append(parts, [kind |-> kind, content |-> SubSeq(text, b, e), line |-> line])
       /\ AtNext(e + 1)

\* A segment begins at b, and is plain.
PlainFrom(t, b) == \E e : Cut(t, b, e) /\ PlainAt(t, b, e)

\* The cases of EndsIn.
LEMMA EndsCode ==
  ASSUME NEW t, NEW b, NEW p, t[b] \notin {"/", "#"}
  PROVE  EndsIn(t, b, p) <=> OpensIn(t, p + 1) \/ (p < Len(t) /\ t[p + 1] = "#")
BY DEF EndsIn, CommentAt

LEMMA EndsLineComment ==
  ASSUME NEW t, NEW b, NEW p, CommentAt(t, b, "/")
  PROVE  EndsIn(t, b, p) <=> t[p] = Newline
BY DEF EndsIn, CommentAt

LEMMA EndsComment ==
  ASSUME NEW t, NEW b, NEW p, CommentAt(t, b, "*")
  PROVE  EndsIn(t, b, p) <=> ClosesIn(t, b, p)
BY DEF EndsIn, CommentAt

LEMMA EndsDirective ==
  ASSUME NEW t, NEW b, NEW p, t[b] = "#"
  PROVE  EndsIn(t, b, p) <=> LineEndsIn(t, b, p) \/ OpensIn(t, p + 1)
BY DEF EndsIn, CommentAt

\* One character more.
LEMMA PieceGrows ==
  ASSUME NEW t \in Seq(Chars), NEW b \in 1 .. Len(t), NEW p \in b - 1 .. Len(t) - 1
  PROVE  Append(SubSeq(t, b, p), t[p + 1]) = SubSeq(t, b, p + 1)
<1>1. Len(t) \in Nat /\ p + 1 \in b .. Len(t)
  OBVIOUS
<1> DEFINE s == SubSeq(t, b, p)
           u == SubSeq(t, b, p + 1)
           a == Append(s, t[p + 1])
<1>2. /\ u \in Seq(Chars) /\ Len(u) = p + 1 - b + 1
      /\ \A i \in 1 .. p + 1 - b + 1 : u[i] = t[b + i - 1]
  BY <1>1, PieceIs
<1>3. /\ s \in Seq(Chars) /\ Len(s) = p - b + 1
      /\ \A i \in 1 .. p - b + 1 : s[i] = t[b + i - 1]
  <2>1. CASE p >= b
    <3>1. p \in b .. Len(t)
      BY <1>1, <2>1
    <3> HIDE DEF u, a
    <3>2. QED BY <3>1, PieceIs
  <2>2. CASE p < b
    <3>1. s = <<>> /\ p - b + 1 = 0
      BY <1>1, <2>2, SubSeqEmpty
    <3>2. QED BY <3>1
  <2>3. QED BY <1>1, <2>1, <2>2
<1> HIDE DEF s, u
<1>4. t[p + 1] \in Chars
  <2>1. p + 1 \in 1 .. Len(t)
    BY <1>1
  <2>2. QED BY <2>1
<1>5. /\ a \in Seq(Chars) /\ Len(a) = Len(s) + 1 /\ a[Len(s) + 1] = t[p + 1]
      /\ \A i \in 1 .. Len(s) : a[i] = s[i]
  <2>1. s \in Seq(Chars)
    BY <1>3
  <2>2. QED BY <1>4, <2>1, AppendProperties
<1> HIDE DEF a
<1>6. Len(a) = Len(u)
  BY <1>1, <1>2, <1>3, <1>5
<1>7. ASSUME NEW i \in 1 .. Len(a) PROVE a[i] = u[i]
  <2>1. CASE i = Len(s) + 1
    <3>1. b + i - 1 = p + 1 /\ i \in 1 .. p + 1 - b + 1
      BY <1>1, <1>3, <2>1
    <3>2. QED BY <1>2, <1>5, <2>1, <3>1
  <2>2. CASE i # Len(s) + 1
    <3>1. i \in 1 .. Len(s) /\ i \in 1 .. p - b + 1 /\ i \in 1 .. p + 1 - b + 1
      BY <1>1, <1>3, <1>5, <2>2
    <3>2. QED BY <1>2, <1>3, <1>5, <3>1
  <2>3. QED BY <2>1, <2>2
<1>8. a = u
  BY <1>2, <1>5, <1>6, <1>7, SeqEqual
<1>9. QED BY <1>8 DEF a, s, u

LEMMA OneChar ==
  ASSUME NEW t \in Seq(Chars), NEW b \in 1 .. Len(t)
  PROVE  Append(<<>>, t[b]) = SubSeq(t, b, b) /\ <<t[b]>> = SubSeq(t, b, b)
<1>1. SubSeq(t, b, b - 1) = <<>>
  BY SubSeqEmpty
<1>2. b - 1 \in b - 1 .. Len(t) - 1 /\ b - 1 + 1 = b
  OBVIOUS
<1>3. Append(SubSeq(t, b, b - 1), t[b - 1 + 1]) = SubSeq(t, b, b - 1 + 1)
  BY <1>2, PieceGrows
<1>4. Append(<<>>, t[b]) = <<t[b]>>
  OBVIOUS
<1>5. QED BY <1>1, <1>2, <1>3, <1>4

----------------------------------------------------------------------------
\* Every action moves on.

LEMMA InInitMoves ==
  ASSUME text \in Seq(Chars), NEW b \in 1 .. Len(text) + 1, At(b), InInit,
         b <= Len(text) => PlainFrom(text, b)
  PROVE  Moves(b)
<1>1. /\ status = "init" /\ current = b /\ content = <<>> /\ rest = <<>> /\ current <= Len(text)
      /\ current' = current + 1 /\ b \in 1 .. Len(text)
  BY DEF InInit, Reads, At, Place, Between
<1>2. /\ content' = Append(content, Char) /\ rest' = <<>> /\ prev' = Char /\ parts' = parts /\ line' = line
      /\ prev_status' = "init"
      /\ status' = CASE Char = "/" -> "commentStartBegin"
                     [] Char = "#" -> "preprocessor"
                     [] OTHER -> "code"
  BY <1>1 DEF InInit, GoesOn, EnterStatus
<1>3. Char = text[b] /\ current' - 1 = b
  BY <1>1 DEF Char
<1>4. content' = SubSeq(text, b, b)
  BY <1>1, <1>2, <1>3, OneChar
<1>5. status' \notin {"init", "end"} /\ ~(status' = "commentStartBegin" /\ prev_status' # "init")
  BY <1>2
<1>6. Holding(text, b, b, content', rest', status', prev_status')
  BY <1>2, <1>4, <1>5 DEF Holding
<1>7. Inside(text, b, b, status', prev_status', prev')
  <2>1. CASE Char = "/"
    <3>1. status' = "commentStartBegin"
      BY <1>2, <2>1
    <3>2. QED BY <1>2, <1>3, <2>1, <3>1 DEF Inside, BehindSlash
  <2>2. CASE Char = "#"
    <3>1. status' = "preprocessor"
      BY <1>2, <2>2
    <3>2. text[b] = "#" /\ prev' = "#" /\ text[b] # Backslash /\ text[b] # Newline
      BY <1>2, <1>3, <2>2 DEF Backslash, Newline
    <3>3. \A q \in b .. b : q = b
      BY <1>1
    <3>4. InsideDirective(text, b, b, prev')
      BY <3>2, <3>3 DEF InsideDirective, LineEndsIn
    <3>5. QED BY <3>1, <3>4 DEF Inside
  <2>3. CASE Char \notin {"/", "#"}
    <3>1. status' = "code"
      BY <1>2, <2>3
    <3>2. InsideCode(text, b, b)
      BY <1>1, <1>3, <2>3 DEF InsideCode
    <3>3. QED BY <3>1, <3>2 DEF Inside
  <2>4. QED BY <2>1, <2>2, <2>3
<1>8. AtNext(b)
  BY <1>1, <1>3, <1>5, <1>6, <1>7 DEF AtNext, Place
<1>9. QED BY <1>2, <1>8 DEF Moves

\* What is known behind a slash that has been read at p.
LEMMA SlashRead ==
  ASSUME text \in Seq(Chars), TypeOK, NEW b \in 1 .. Len(text) + 1, At(b), status = "commentStartBegin"
  PROVE  LET p == current - 1 IN
         /\ p \in b .. Len(text) /\ b \in 1 .. Len(text) /\ current = p + 1
         /\ text[p] = "/"
         /\ prev_status = "init" => p = b /\ content = SubSeq(text, b, p) /\ rest = <<>>
         /\ prev_status # "init" =>
              /\ prev_status = "code" /\ p > b /\ text[b] \notin {"/", "#"}
              /\ \A q \in b .. p - 2 : ~EndsIn(text, b, q)
              /\ content = SubSeq(text, b, p - 1) /\ rest = <<"/">>
<1> DEFINE p == current - 1
<1>1. /\ p \in b .. Len(text) /\ Holding(text, b, p, content, rest, status, prev_status)
      /\ Inside(text, b, p, status, prev_status, prev)
  BY DEF At, Place
<1>2. BehindSlash(text, b, p, prev_status)
  BY <1>1 DEF Inside
<1>3. b \in 1 .. Len(text) /\ Len(text) \in Nat
  BY <1>1
<1>4. current = p + 1
  <2>1. current \in Int
    BY <1>3 DEF TypeOK
  <2>2. QED BY <2>1
<1> HIDE DEF p
<1>5. QED BY <1>1, <1>2, <1>3, <1>4 DEF Holding, BehindSlash, p

\* What has been read of a part that is not at a slash.
LEMMA ReadSoFar ==
  ASSUME text \in Seq(Chars), TypeOK, NEW b \in 1 .. Len(text) + 1, At(b),
         status \notin {"init", "end", "commentStartBegin"}
  PROVE  /\ current - 1 \in b .. Len(text) /\ b \in 1 .. Len(text)
         /\ current \in b + 1 .. Len(text) + 1 /\ Len(text) \in Nat
         /\ content = SubSeq(text, b, current - 1) /\ rest = <<>>
         /\ Inside(text, b, current - 1, status, prev_status, prev)
<1>1. /\ current - 1 \in b .. Len(text)
      /\ Holding(text, b, current - 1, content, rest, status, prev_status)
      /\ Inside(text, b, current - 1, status, prev_status, prev)
  BY DEF At, Place
<1>2. b \in 1 .. Len(text) /\ Len(text) \in Nat /\ current \in Int
  BY <1>1 DEF TypeOK
<1>3. current \in b + 1 .. Len(text) + 1
  BY <1>1, <1>2
<1>4. QED BY <1>1, <1>2, <1>3 DEF Holding

\* The part goes on with the character that is read.
LEMMA Stays ==
  ASSUME text \in Seq(Chars), NEW b \in 1 .. Len(text), current \in b .. Len(text),
         current' = current + 1, parts' = parts, line' = line, content' = SubSeq(text, b, current), rest' = <<>>,
         status' \notin {"init", "end", "commentStartBegin"},
         Inside(text, b, current, status', prev_status', prev')
  PROVE  Moves(b)
<1>1. current' - 1 = current
  OBVIOUS
<1>2. Holding(text, b, current, content', rest', status', prev_status')
  BY DEF Holding
<1>3. AtNext(b)
  BY <1>1, <1>2 DEF AtNext, Place
<1>4. QED BY <1>3 DEF Moves

\* The part ends with the character that is read.
LEMMA Ends ==
  ASSUME text \in Seq(Chars), NEW b \in 1 .. Len(text), current \in b + 1 .. Len(text),
         current' = current + 1, content = SubSeq(text, b, current - 1), rest = <<>>,
         Cut(text, b, current), NEW kind, kind = KindOf(SubSeq(text, b, current)),
         Returns(kind, Append(content, Char), rest), status' = "init"
  PROVE  Moves(b)
<1>1. Append(content, Char) = SubSeq(text, b, current)
  <2>1. current - 1 \in b - 1 .. Len(text) - 1 /\ current - 1 + 1 = current
    OBVIOUS
  <2>2. QED BY <2>1, PieceGrows DEF Char
<1>2. /\ parts' = Append(parts, [kind |-> kind, content |-> SubSeq(text, b, current), line |-> line])
      /\ content' = <<>> /\ rest' = <<>> /\ line' = lineno'
  BY <1>1 DEF Returns
<1>3. AtNext(current + 1)
  BY <1>2 DEF AtNext, Place, Between
<1>4. current \in b .. Len(text) /\ current < current' /\ NoLine(text, current + 1, current' - 1)
  BY DEF NoLine
<1>5. QED BY <1>2, <1>3, <1>4 DEF Moves

LEMMA CommentBegins ==
  ASSUME NEW t \in Seq(Chars), NEW p \in 1 .. Len(t) - 1, NEW c \in {"/", "*"}, t[p] = "/", t[p + 1] = c
  PROVE  InsideComment(t, p, p + 1, c)
<1>1. CommentAt(t, p, c)
  BY DEF CommentAt
<1>2. ASSUME NEW q \in p .. p + 1 PROVE ~EndsIn(t, p, q)
  <2>1. CASE c = "/"
    <3>1. t[q] = "/"
      BY <2>1
    <3>2. QED BY <1>1, <2>1, <3>1, EndsLineComment DEF Newline
  <2>2. CASE c = "*"
    <3>1. ~(q > p + 2)
      OBVIOUS
    <3>2. QED BY <1>1, <2>2, <3>1, EndsComment DEF ClosesIn
  <2>3. QED BY <2>1, <2>2
<1>3. QED BY <1>1, <1>2 DEF InsideComment

LEMMA OpensCommentMoves ==
  ASSUME text \in Seq(Chars), TypeOK, NEW b \in 1 .. Len(text) + 1, At(b), OpensComment
  PROVE  Moves(b)
<1> DEFINE p == current - 1
<1>1. /\ status = "commentStartBegin" /\ current <= Len(text) /\ current' = current + 1
      /\ Char \in {"/", "*"} /\ Char = text[current]
  BY DEF OpensComment, Reads, Char
<1>2. /\ p \in b .. Len(text) /\ b \in 1 .. Len(text) /\ current = p + 1 /\ Len(text) \in Nat
      /\ text[p] = "/"
      /\ prev_status = "init" => p = b /\ content = SubSeq(text, b, p) /\ rest = <<>>
      /\ prev_status # "init" =>
           /\ prev_status = "code" /\ p > b /\ text[b] \notin {"/", "#"}
           /\ \A q \in b .. p - 2 : ~EndsIn(text, b, q)
           /\ content = SubSeq(text, b, p - 1) /\ rest = <<"/">>
  BY <1>1, SlashRead
<1> HIDE DEF p
<1>3. p \in 1 .. Len(text) - 1 /\ text[p + 1] = Char
  BY <1>1, <1>2
<1>4. InsideComment(text, p, p + 1, Char)
  BY <1>1, <1>2, <1>3, CommentBegins
<1>5. status' = (IF Char = "/" THEN "lineComment" ELSE "comment")
  BY DEF OpensComment, EnterStatus
<1>6. Inside(text, p, p + 1, status', prev_status', prev')
  <2>1. CASE Char = "/"
    BY <1>4, <1>5, <2>1 DEF Inside
  <2>2. CASE Char = "*"
    BY <1>4, <1>5, <2>2 DEF Inside
  <2>3. QED BY <1>1, <2>1, <2>2
<1>7. SubSeq(text, p, p + 1) = Append(SubSeq(text, p, p), Char) /\ SubSeq(text, p, p) = <<"/">>
  <2>1. p \in 1 .. Len(text) /\ p \in p - 1 .. Len(text) - 1
    BY <1>3
  <2>2. Append(SubSeq(text, p, p), text[p + 1]) = SubSeq(text, p, p + 1)
    BY <2>1, PieceGrows
  <2>3. QED BY <1>2, <1>3, <2>1, <2>2, OneChar
<1>8. CASE prev_status = "init"
  <2>1. content' = Append(content, Char) /\ rest' = <<>> /\ parts' = parts /\ line' = line
    BY <1>2, <1>8 DEF OpensComment, GoesOn
  <2>2. content' = SubSeq(text, b, current)
    BY <1>2, <1>7, <1>8, <2>1
  <2>3. Inside(text, b, current, status', prev_status', prev')
    BY <1>2, <1>6, <1>8
  <2>4. current \in b .. Len(text) /\ status' \notin {"init", "end", "commentStartBegin"}
    BY <1>1, <1>2, <1>5
  <2>5. QED BY <1>1, <1>2, <2>1, <2>2, <2>3, <2>4, Stays
<1>9. CASE prev_status # "init"
  <2>1. prev_status = "code" /\ p > b /\ content = SubSeq(text, b, p - 1) /\ rest = <<"/">>
    BY <1>2, <1>9
  <2>2. Returns(GetLexForState(prev_status), content, Append(rest, Char))
    BY <2>1 DEF OpensComment
  <2>3. /\ parts' = Append(parts, [kind |-> "code", content |-> SubSeq(text, b, p - 1), line |-> line])
        /\ content' = SubSeq(text, p, p + 1) /\ rest' = <<>> /\ line' = lineno'
    BY <1>7, <2>1, <2>2 DEF Returns, GetLexForState
  <2>4. p - 1 \in b .. Len(text) /\ p - 1 + 1 = p
    BY <1>2, <2>1
  <2>5. Cut(text, b, p - 1)
    <3>1. OpensIn(text, p)
      BY <1>1, <1>2, <1>3 DEF OpensIn
    <3>2. EndsIn(text, b, p - 1)
      BY <1>2, <1>9, <2>4, <3>1, EndsCode
    <3>3. \A q \in b .. p - 1 - 1 : ~EndsIn(text, b, q)
      BY <1>2, <1>9
    <3>4. QED BY <1>2, <2>4, <3>2, <3>3 DEF Cut
  <2>6. KindOf(SubSeq(text, b, p - 1)) = "code"
    <3>1. ~CommentAt(text, b, "/") /\ ~CommentAt(text, b, "*") /\ text[b] # "#"
      BY <1>2, <1>9 DEF CommentAt
    <3>2. QED BY <1>2, <2>4, <3>1, KindOfPiece
  <2>7. AtNext(p)
    <3>1. current' - 1 = p + 1 /\ p + 1 \in p .. Len(text)
      BY <1>1, <1>2
    <3>2. status' \notin {"init", "end", "commentStartBegin"}
      BY <1>5
    <3>3. Holding(text, p, p + 1, content', rest', status', prev_status')
      BY <2>3, <3>2 DEF Holding
    <3>4. QED BY <1>6, <3>1, <3>2, <3>3 DEF AtNext, Place
  <2>8. p - 1 < current' /\ NoLine(text, p - 1 + 1, current' - 1)
    <3>1. current' - 1 = p + 1 /\ p - 1 < current'
      BY <1>1, <1>2
    <3>2. \A q \in p .. p + 1 : q = p \/ q = p + 1
      BY <1>2
    <3>3. text[p] # Newline /\ text[p + 1] # Newline
      BY <1>1, <1>2, <1>3 DEF Newline
    <3>4. NoLine(text, p, p + 1)
      BY <3>2, <3>3 DEF NoLine
    <3>5. QED BY <2>4, <3>1, <3>4
  <2>9. AtNext(p - 1 + 1)
    BY <2>4, <2>7
  <2>10. QED BY <2>3, <2>4, <2>5, <2>6, <2>8, <2>9 DEF Moves
<1>10. QED BY <1>8, <1>9

LEMMA OpensNoCommentMoves ==
  ASSUME text \in Seq(Chars), TypeOK, NEW b \in 1 .. Len(text) + 1, At(b), OpensNoComment,
         b <= Len(text) => PlainFrom(text, b)
  PROVE  Moves(b)
<1> DEFINE p == current - 1
<1>1. /\ status = "commentStartBegin" /\ current <= Len(text) /\ current' = current + 1
      /\ Char \notin {"/", "*"} /\ Char = text[current]
      /\ status' = prev_status /\ rest' = <<>> /\ parts' = parts /\ line' = line
      /\ content' = content \o rest \o <<Char>>
  BY DEF OpensNoComment, Reads, Char, EnterStatus, GoesOn
<1>2. /\ p \in b .. Len(text) /\ b \in 1 .. Len(text) /\ current = p + 1 /\ Len(text) \in Nat
      /\ text[p] = "/"
      /\ prev_status = "init" => p = b /\ content = SubSeq(text, b, p) /\ rest = <<>>
      /\ prev_status # "init" =>
           /\ prev_status = "code" /\ p > b /\ text[b] \notin {"/", "#"}
           /\ \A q \in b .. p - 2 : ~EndsIn(text, b, q)
           /\ content = SubSeq(text, b, p - 1) /\ rest = <<"/">>
  BY <1>1, SlashRead
<1>3. PICK e : Cut(text, b, e) /\ PlainAt(text, b, e)
  BY <1>2 DEF PlainFrom
<1> HIDE DEF p
<1>4. p \in 1 .. Len(text) - 1 /\ text[p + 1] = Char
  BY <1>1, <1>2
<1>5. prev_status # "init"
  <2>1. SUFFICES ASSUME prev_status = "init" PROVE FALSE
    OBVIOUS
  <2>2. text[b] = "/" /\ text[b + 1] \notin {"/", "*"}
    BY <1>1, <1>2, <1>4, <2>1
  <2>3. QED BY <1>3, <2>2 DEF PlainAt, CommentAt
<1>6. prev_status = "code" /\ p > b /\ text[b] \notin {"/", "#"}
      /\ content = SubSeq(text, b, p - 1) /\ rest = <<"/">>
      /\ \A q \in b .. p - 2 : ~EndsIn(text, b, q)
  BY <1>2, <1>5
<1>7. ~EndsIn(text, b, p - 1)
  <2>1. p - 1 + 1 = p
    BY <1>2
  <2>2. ~OpensIn(text, p)
    BY <1>1, <1>4 DEF OpensIn
  <2>3. QED BY <1>2, <1>6, <2>1, <2>2, EndsCode
<1>8. \A q \in b .. p - 1 : ~EndsIn(text, b, q)
  BY <1>2, <1>6, <1>7
<1>9. ~EndsIn(text, b, p)
  <2>1. SUFFICES ASSUME EndsIn(text, b, p) PROVE FALSE
    OBVIOUS
  <2>2. Cut(text, b, p)
    BY <1>2, <1>8, <2>1 DEF Cut
  <2>3. e = p
    BY <1>2, <1>3, <2>2, CutOnce
  <2>4. QED BY <1>2, <1>3, <1>6, <2>3 DEF PlainAt
<1>10. InsideCode(text, b, current)
  <2>1. ASSUME NEW q \in b .. current - 1 PROVE ~EndsIn(text, b, q)
    <3>1. q \in b .. p - 1 \/ q = p
      BY <1>2
    <3>2. QED BY <1>8, <1>9, <3>1
  <2>2. QED BY <1>6, <2>1 DEF InsideCode
<1>11. content' = SubSeq(text, b, p + 1)
  <2>1. p - 1 \in b - 1 .. Len(text) - 1 /\ p \in b - 1 .. Len(text) - 1 /\ p - 1 + 1 = p /\ p - 1 \in b .. Len(text)
    BY <1>2, <1>4, <1>6
  <2>2. Append(SubSeq(text, b, p - 1), "/") = SubSeq(text, b, p)
    BY <1>2, <2>1, PieceGrows
  <2>3. Append(SubSeq(text, b, p), Char) = SubSeq(text, b, p + 1)
    BY <1>2, <1>4, <2>1, PieceGrows
  <2>4. SubSeq(text, b, p - 1) \in Seq(Chars) /\ SubSeq(text, b, p) \in Seq(Chars)
    BY <1>2, <2>1, PieceIs
  <2>5. \A s \in Seq(Chars) : \A c \in Chars : s \o <<c>> = Append(s, c)
    OBVIOUS
  <2>6. "/" \in Chars /\ Char \in Chars
    <3>1. text[p] \in Chars /\ text[p + 1] \in Chars
      BY <1>2, <1>4
    <3>2. QED BY <1>2, <1>4, <3>1
  <2>7. QED BY <1>1, <1>6, <2>2, <2>3, <2>4, <2>5, <2>6
<1>12. Inside(text, b, current, status', prev_status', prev')
  BY <1>1, <1>6, <1>10 DEF Inside
<1>13. current = p + 1 /\ current \in b .. Len(text) /\ status' = "code"
  BY <1>1, <1>2, <1>6
<1>14. QED BY <1>1, <1>2, <1>11, <1>12, <1>13, Stays

\* What has been read, and the character that is read now.
LEMMA Grown ==
  ASSUME text \in Seq(Chars), NEW b \in 1 .. Len(text), current \in b + 1 .. Len(text),
         content = SubSeq(text, b, current - 1)
  PROVE  Append(content, Char) = SubSeq(text, b, current)
<1>1. current - 1 \in b - 1 .. Len(text) - 1 /\ current - 1 + 1 = current
  OBVIOUS
<1>2. QED BY <1>1, PieceGrows DEF Char

\* The segment ends where it first may.
LEMMA CutHere ==
  ASSUME NEW t \in Seq(Chars), NEW b \in 1 .. Len(t), NEW e \in b .. Len(t),
         EndsIn(t, b, e) \/ e = Len(t), \A q \in b .. e - 1 : ~EndsIn(t, b, q)
  PROVE  Cut(t, b, e)
BY DEF Cut

LEMMA InLineCommentMoves ==
  ASSUME text \in Seq(Chars), TypeOK, NEW b \in 1 .. Len(text) + 1, At(b), InLineComment
  PROVE  Moves(b)
<1>1. /\ status = "lineComment" /\ current <= Len(text) /\ current' = current + 1
      /\ Char = text[current]
  BY DEF InLineComment, Reads, Char
<1>2. /\ b \in 1 .. Len(text) /\ Len(text) \in Nat /\ current \in b + 1 .. Len(text)
      /\ content = SubSeq(text, b, current - 1) /\ rest = <<>>
      /\ Inside(text, b, current - 1, status, prev_status, prev)
  BY <1>1, ReadSoFar
<1>3. InsideComment(text, b, current - 1, "/")
  BY <1>1, <1>2 DEF Inside
<1>4. CommentAt(text, b, "/") /\ \A q \in b .. current - 1 : ~EndsIn(text, b, q)
  BY <1>3 DEF InsideComment
<1>5. current \in b .. Len(text)
  BY <1>2
<1>6. CASE Char = Newline
  <2>1. status' = "init" /\ Returns("comment", Append(content, Char), rest)
    BY <1>6 DEF InLineComment, EnterStatus
  <2>2. EndsIn(text, b, current)
    BY <1>1, <1>4, <1>6, EndsLineComment
  <2>3. Cut(text, b, current)
    BY <1>2, <1>4, <1>5, <2>2, CutHere
  <2>4. "comment" = KindOf(SubSeq(text, b, current))
    BY <1>2, <1>4, <1>5, KindOfPiece
  <2>5. QED BY <1>1, <1>2, <2>1, <2>3, <2>4, Ends
<1>7. CASE Char # Newline
  <2>1. /\ status' = status /\ content' = Append(content, Char) /\ rest' = rest /\ parts' = parts /\ line' = line
    BY <1>7 DEF InLineComment, GoesOn
  <2>2. content' = SubSeq(text, b, current)
    BY <1>2, <2>1, Grown
  <2>3. ~EndsIn(text, b, current)
    BY <1>1, <1>4, <1>7, EndsLineComment
  <2>4. ASSUME NEW q \in b .. current PROVE ~EndsIn(text, b, q)
    <3>1. q \in b .. current - 1 \/ q = current
      BY <1>2
    <3>2. QED BY <1>4, <2>3, <3>1
  <2>5. InsideComment(text, b, current, "/")
    BY <1>2, <1>4, <2>4 DEF InsideComment
  <2>6. Inside(text, b, current, status', prev_status', prev')
    BY <1>1, <2>1, <2>5 DEF Inside
  <2>7. QED BY <1>1, <1>2, <1>5, <2>1, <2>2, <2>6, Stays
<1>8. QED BY <1>6, <1>7

\* One more character of a comment that does not close there.
LEMMA CommentGoesOn ==
  ASSUME text \in Seq(Chars), NEW b \in 1 .. Len(text), current \in b + 1 .. Len(text),
         InsideComment(text, b, current - 1, "*"), ~ClosesIn(text, b, current)
  PROVE  InsideComment(text, b, current, "*")
<1>1. CommentAt(text, b, "*") /\ \A q \in b .. current - 1 : ~EndsIn(text, b, q)
  BY DEF InsideComment
<1>2. ~EndsIn(text, b, current)
  BY <1>1, EndsComment
<1>3. ASSUME NEW q \in b .. current PROVE ~EndsIn(text, b, q)
  <2>1. q \in b .. current - 1 \/ q = current
    OBVIOUS
  <2>2. QED BY <1>1, <1>2, <2>1
<1>4. QED BY <1>1, <1>3 DEF InsideComment

LEMMA InCommentMoves ==
  ASSUME text \in Seq(Chars), TypeOK, NEW b \in 1 .. Len(text) + 1, At(b), InComment
  PROVE  Moves(b)
<1>1. /\ status = "comment" /\ current <= Len(text) /\ current' = current + 1
      /\ Char = text[current]
      /\ status' = (IF Char = "*" THEN "commentStartEnd" ELSE "comment")
      /\ content' = Append(content, Char) /\ rest' = rest /\ parts' = parts /\ line' = line
  BY DEF InComment, Reads, Char, EnterStatus, GoesOn
<1>2. /\ b \in 1 .. Len(text) /\ Len(text) \in Nat /\ current \in b + 1 .. Len(text)
      /\ content = SubSeq(text, b, current - 1) /\ rest = <<>>
      /\ Inside(text, b, current - 1, status, prev_status, prev)
  BY <1>1, ReadSoFar
<1>3. /\ InsideComment(text, b, current - 1, "*")
      /\ text[current - 1] # "*" \/ current - 1 = b + 1
  BY <1>1, <1>2 DEF Inside
<1>4. current - 1 > b /\ current \in b .. Len(text)
  BY <1>2, <1>3 DEF InsideComment
<1>5. ~ClosesIn(text, b, current)
  BY <1>2, <1>3, <1>4 DEF ClosesIn
<1>6. InsideComment(text, b, current, "*")
  BY <1>2, <1>3, <1>5, CommentGoesOn
<1>7. Inside(text, b, current, status', prev_status', prev')
  <2>1. current > b + 1
    BY <1>2, <1>4
  <2>2. CASE Char = "*"
    BY <1>1, <1>6, <2>1, <2>2 DEF Inside
  <2>3. CASE Char # "*"
    BY <1>1, <1>6, <2>1, <2>3 DEF Inside
  <2>4. QED BY <2>2, <2>3
<1>8. content' = SubSeq(text, b, current) /\ rest' = <<>>
  BY <1>1, <1>2, Grown
<1>9. status' \notin {"init", "end", "commentStartBegin"}
  BY <1>1
<1>10. QED BY <1>1, <1>2, <1>4, <1>7, <1>8, <1>9, Stays

LEMMA InCommentStartEndMoves ==
  ASSUME text \in Seq(Chars), TypeOK, NEW b \in 1 .. Len(text) + 1, At(b), InCommentStartEnd
  PROVE  Moves(b)
<1>1. /\ status = "commentStartEnd" /\ current <= Len(text) /\ current' = current + 1
      /\ Char = text[current]
  BY DEF InCommentStartEnd, Reads, Char
<1>2. /\ b \in 1 .. Len(text) /\ Len(text) \in Nat /\ current \in b + 1 .. Len(text)
      /\ content = SubSeq(text, b, current - 1) /\ rest = <<>>
      /\ Inside(text, b, current - 1, status, prev_status, prev)
  BY <1>1, ReadSoFar
<1>3. /\ InsideComment(text, b, current - 1, "*") /\ text[current - 1] = "*" /\ current - 1 > b + 1
  BY <1>1, <1>2 DEF Inside
<1>4. CommentAt(text, b, "*") /\ \A q \in b .. current - 1 : ~EndsIn(text, b, q)
  BY <1>3 DEF InsideComment
<1>5. current \in b .. Len(text) /\ current > b + 2
  BY <1>2, <1>3
<1>6. CASE Char = "/"
  <2>1. status' = "init" /\ Returns("comment", Append(content, Char), rest)
    BY <1>6 DEF InCommentStartEnd, EnterStatus
  <2>2. ClosesIn(text, b, current)
    BY <1>1, <1>3, <1>5, <1>6 DEF ClosesIn
  <2>3. EndsIn(text, b, current)
    BY <1>4, <2>2, EndsComment
  <2>4. Cut(text, b, current)
    BY <1>2, <1>4, <1>5, <2>3, CutHere
  <2>5. "comment" = KindOf(SubSeq(text, b, current))
    BY <1>2, <1>4, <1>5, KindOfPiece
  <2>6. QED BY <1>1, <1>2, <2>1, <2>4, <2>5, Ends
<1>7. CASE Char # "/"
  <2>1. /\ status' = (IF Char = "*" THEN "commentStartEnd" ELSE "comment")
        /\ content' = Append(content, Char) /\ rest' = rest /\ parts' = parts /\ line' = line
    <3>1. CASE Char = "*"
      BY <1>1, <3>1 DEF InCommentStartEnd, GoesOn
    <3>2. CASE Char # "*"
      BY <1>7, <3>2 DEF InCommentStartEnd, GoesOn
    <3>3. QED BY <3>1, <3>2
  <2>2. ~ClosesIn(text, b, current)
    BY <1>1, <1>7 DEF ClosesIn
  <2>3. InsideComment(text, b, current, "*")
    BY <1>2, <1>3, <2>2, CommentGoesOn
  <2>4. Inside(text, b, current, status', prev_status', prev')
    <3>1. CASE Char = "*"
      BY <1>1, <1>5, <2>1, <2>3, <3>1 DEF Inside
    <3>2. CASE Char # "*"
      BY <1>1, <1>5, <2>1, <2>3, <3>2 DEF Inside
    <3>3. QED BY <3>1, <3>2
  <2>5. content' = SubSeq(text, b, current) /\ rest' = <<>>
    BY <1>2, <2>1, Grown
  <2>6. status' \notin {"init", "end", "commentStartBegin"}
    BY <2>1
  <2>7. QED BY <1>1, <1>2, <1>5, <2>1, <2>4, <2>5, <2>6, Stays
<1>8. QED BY <1>6, <1>7

LEMMA InCodeMoves ==
  ASSUME text \in Seq(Chars), TypeOK, NEW b \in 1 .. Len(text) + 1, At(b), InCode
  PROVE  Moves(b)
<1>1. /\ status = "code" /\ current <= Len(text) /\ current' = current + 1
      /\ Char = text[current]
  BY DEF InCode, Reads, Char
<1>2. /\ b \in 1 .. Len(text) /\ Len(text) \in Nat /\ current \in b + 1 .. Len(text)
      /\ content = SubSeq(text, b, current - 1) /\ rest = <<>>
      /\ Inside(text, b, current - 1, status, prev_status, prev)
  BY <1>1, ReadSoFar
<1>3. InsideCode(text, b, current - 1)
  BY <1>1, <1>2 DEF Inside
<1>4. text[b] \notin {"/", "#"} /\ \A q \in b .. current - 2 : ~EndsIn(text, b, q)
  <2>1. current - 1 - 1 = current - 2
    BY <1>2
  <2>2. QED BY <1>3, <2>1 DEF InsideCode
<1>5. current - 1 \in b .. Len(text) /\ current \in b .. Len(text) /\ current - 1 + 1 = current
  BY <1>2
<1>6. CASE Char = "#"
  <2>1. /\ status' = "preprocessor" /\ content' = <<"#">> /\ rest' = <<>> /\ prev' = ""
        /\ parts' = Append(parts, [kind |-> "code", content |-> content, line |-> line])
        /\ line' = lineno'
    <3>1. EnterStatus("preprocessor") /\ Returns("code", content, Append(rest, Char))
      BY <1>6 DEF InCode
    <3>2. Append(rest, Char) = <<"#">>
      <4>1. Append(<<>>, "#") = <<"#">>
        OBVIOUS
      <4>2. QED BY <1>2, <1>6, <4>1
    <3>3. QED BY <3>1, <3>2 DEF EnterStatus, Returns
  <2>2. EndsIn(text, b, current - 1)
    <3>1. current - 1 < Len(text) /\ text[current - 1 + 1] = "#"
      <4>1. text[current] = "#"
        BY <1>1, <1>6
      <4>2. current - 1 < Len(text) /\ current - 1 + 1 = current
        BY <1>2
      <4>3. QED BY <4>1, <4>2
    <3>2. text[b] \notin {"/", "#"}
      BY <1>4
    <3>3. QED BY <3>1, <3>2 DEF EndsIn, CommentAt
  <2>3. Cut(text, b, current - 1)
    <3>1. \A q \in b .. current - 1 - 1 : ~EndsIn(text, b, q)
      BY <1>2, <1>4
    <3>2. QED BY <1>2, <1>5, <2>2, <3>1, CutHere
  <2>4. "code" = KindOf(SubSeq(text, b, current - 1))
    <3>1. ~CommentAt(text, b, "/") /\ ~CommentAt(text, b, "*") /\ text[b] # "#"
      BY <1>4 DEF CommentAt
    <3>2. QED BY <1>2, <1>5, <3>1, KindOfPiece
  <2>5. AtNext(current)
    <3>1. current' - 1 = current /\ current \in 1 .. Len(text)
      BY <1>1, <1>2
    <3>2. content' = SubSeq(text, current, current)
      BY <1>1, <1>6, <2>1, <3>1, OneChar
    <3>3. /\ text[current] = "#" /\ prev' # Backslash /\ text[current] # Backslash
          /\ text[current] # Newline /\ text[current] # "/"
      BY <1>1, <1>6, <2>1 DEF Backslash, Newline
    <3>4. \A q \in current .. current : q = current
      BY <1>2
    <3>5. InsideDirective(text, current, current, prev')
      BY <3>3, <3>4 DEF InsideDirective, LineEndsIn
    <3>6. Inside(text, current, current, status', prev_status', prev')
      BY <2>1, <3>5 DEF Inside
    <3>7. Holding(text, current, current, content', rest', status', prev_status')
      BY <2>1, <3>2 DEF Holding
    <3>8. current \in current .. Len(text)
      BY <1>2
    <3>9. QED BY <2>1, <3>1, <3>6, <3>7, <3>8 DEF AtNext, Place
  <2>6. AtNext(current - 1 + 1)
    BY <1>5, <2>5
  <2>7. current - 1 < current' /\ NoLine(text, current - 1 + 1, current' - 1)
    <3>1. current' - 1 = current /\ current - 1 < current' /\ \A q \in current .. current : q = current
      BY <1>1, <1>2
    <3>2. text[current] # Newline
      BY <1>1, <1>6 DEF Newline
    <3>3. NoLine(text, current, current)
      BY <3>1, <3>2 DEF NoLine
    <3>4. QED BY <1>5, <3>1, <3>3
  <2>8. QED BY <1>2, <1>5, <2>1, <2>3, <2>4, <2>6, <2>7 DEF Moves
<1>7. CASE Char # "#"
  <2>1. parts' = parts /\ line' = line
    BY <1>7 DEF InCode, GoesOn
  <2>2. CASE Char = "/"
    <3>1. /\ status' = "commentStartBegin" /\ prev_status' = "code" /\ content' = content
          /\ rest' = <<"/">>
      BY <1>1, <1>2, <1>7, <2>2 DEF InCode, EnterStatus, GoesOn
    <3>2. BehindSlash(text, b, current, prev_status')
      BY <1>1, <1>2, <1>4, <2>2, <3>1 DEF BehindSlash
    <3>3. Inside(text, b, current, status', prev_status', prev')
      BY <3>1, <3>2 DEF Inside
    <3>4. Holding(text, b, current, content', rest', status', prev_status')
      BY <1>2, <3>1 DEF Holding
    <3>5. current' - 1 = current
      BY <1>1, <1>2
    <3>6. AtNext(b)
      BY <1>5, <3>1, <3>3, <3>4, <3>5 DEF AtNext, Place
    <3>7. QED BY <2>1, <3>6 DEF Moves
  <2>3. CASE Char # "/"
    <3>1. /\ status' = status /\ content' = Append(content, Char) /\ rest' = rest
      BY <1>7, <2>3 DEF InCode, GoesOn
    <3>2. content' = SubSeq(text, b, current)
      BY <1>2, <3>1, Grown
    <3>3. ~EndsIn(text, b, current - 1)
      BY <1>1, <1>4, <1>5, <1>7, <2>3, EndsCode DEF OpensIn
    <3>4. ASSUME NEW q \in b .. current - 1 PROVE ~EndsIn(text, b, q)
      <4>1. q \in b .. current - 2 \/ q = current - 1
        BY <1>2
      <4>2. QED BY <1>4, <3>3, <4>1
    <3>5. InsideCode(text, b, current)
      BY <1>4, <3>4 DEF InsideCode
    <3>6. Inside(text, b, current, status', prev_status', prev')
      BY <1>1, <3>1, <3>5 DEF Inside
    <3>7. QED BY <1>1, <1>2, <1>5, <2>1, <3>1, <3>2, <3>6, Stays
  <2>4. QED BY <2>2, <2>3
<1>8. QED BY <1>6, <1>7

LEMMA InPreprocessorMoves ==
  ASSUME text \in Seq(Chars), TypeOK, NEW b \in 1 .. Len(text) + 1, At(b), InPreprocessor,
         b <= Len(text) => PlainFrom(text, b)
  PROVE  Moves(b)
<1>1. /\ status = "preprocessor" /\ current <= Len(text) /\ current' = current + 1
      /\ Char = text[current]
  BY DEF InPreprocessor, Reads, Char
<1>2. /\ b \in 1 .. Len(text) /\ Len(text) \in Nat /\ current \in b + 1 .. Len(text)
      /\ content = SubSeq(text, b, current - 1) /\ rest = <<>>
      /\ Inside(text, b, current - 1, status, prev_status, prev)
  BY <1>1, ReadSoFar
<1>3. InsideDirective(text, b, current - 1, prev)
  BY <1>1, <1>2 DEF Inside
<1>4. /\ text[b] = "#" /\ (prev = Backslash <=> text[current - 1] = Backslash)
      /\ \A q \in b .. current - 1 : ~LineEndsIn(text, b, q) /\ text[q] # "/"
  BY <1>3 DEF InsideDirective
<1>5. current \in b .. Len(text)
  BY <1>2
<1>6. PICK e : Cut(text, b, e) /\ PlainAt(text, b, e)
  BY <1>2 DEF PlainFrom
<1>7. e \in b .. Len(text) /\ ~(e < current)
  <2>1. e \in b .. Len(text)
    BY <1>6 DEF Cut
  <2>2. ASSUME e < current PROVE FALSE
    <3>1. e < Len(text) /\ e \in b .. current - 1
      BY <1>2, <2>1, <2>2
    <3>2. QED BY <1>4, <1>6, <3>1 DEF PlainAt
  <2>3. QED BY <2>1, <2>2
<1>8. Char \notin {"/", Return}
  <2>1. current \in b .. e
    BY <1>2, <1>7
  <2>2. QED BY <1>1, <1>4, <1>6, <2>1 DEF PlainAt
<1>9. CASE Char = Newline /\ prev # Backslash
  <2>1. status' = "init" /\ Returns("preprocessor", Append(content, Char), rest)
    BY <1>9 DEF InPreprocessor, EnterStatus, Newline
  <2>2. LineEndsIn(text, b, current)
    BY <1>1, <1>4, <1>9 DEF LineEndsIn
  <2>3. EndsIn(text, b, current)
    BY <1>4, <2>2, EndsDirective
  <2>4. ASSUME NEW q \in b .. current - 1 PROVE ~EndsIn(text, b, q)
    <3>1. q + 1 \in b .. current - 1 \/ q + 1 = current
      BY <1>2
    <3>2. text[q + 1] # "/"
      BY <1>1, <1>4, <1>8, <3>1
    <3>3. ~OpensIn(text, q + 1)
      BY <3>2 DEF OpensIn
    <3>4. QED BY <1>4, <3>3, EndsDirective
  <2>5. Cut(text, b, current)
    BY <1>2, <1>5, <2>3, <2>4, CutHere
  <2>6. "preprocessor" = KindOf(SubSeq(text, b, current))
    BY <1>2, <1>4, <1>5, KindOfPiece
  <2>7. QED BY <1>1, <1>2, <2>1, <2>5, <2>6, Ends
<1>10. CASE ~(Char = Newline /\ prev # Backslash)
  <2>1. /\ status' = status /\ content' = Append(content, Char) /\ rest' = rest /\ parts' = parts /\ line' = line
        /\ prev' = Char
    BY <1>8, <1>10 DEF InPreprocessor, GoesOn
  <2>2. content' = SubSeq(text, b, current)
    BY <1>2, <2>1, Grown
  <2>3. ~LineEndsIn(text, b, current)
    BY <1>1, <1>2, <1>4, <1>10 DEF LineEndsIn
  <2>4. ASSUME NEW q \in b .. current PROVE ~LineEndsIn(text, b, q) /\ text[q] # "/"
    <3>1. q \in b .. current - 1 \/ q = current
      BY <1>2
    <3>2. QED BY <1>1, <1>4, <1>8, <2>3, <3>1
  <2>5. InsideDirective(text, b, current, prev')
    BY <1>1, <1>4, <2>1, <2>4 DEF InsideDirective
  <2>6. Inside(text, b, current, status', prev_status', prev')
    BY <1>1, <2>1, <2>5 DEF Inside
  <2>7. QED BY <1>1, <1>2, <1>5, <2>1, <2>2, <2>6, Stays
<1>11. QED BY <1>9, <1>10

\* Nothing is held between two parts only.
LEMMA ContentLeft ==
  ASSUME text \in Seq(Chars), TypeOK, NEW b \in 1 .. Len(text) + 1, At(b), current > Len(text)
  PROVE  /\ content = <<>> => status \in {"init", "end"}
         /\ status \in {"init", "end"} => content = <<>> /\ rest = <<>> /\ b = Len(text) + 1
         /\ current = Len(text) + 1
<1>1. current = Len(text) + 1 /\ Len(text) \in Nat
  BY DEF TypeOK
<1>2. ASSUME status \in {"init", "end"} PROVE content = <<>> /\ rest = <<>> /\ b = Len(text) + 1
  BY <1>1, <1>2 DEF At, Place, Between
<1>3. ASSUME status \notin {"init", "end", "commentStartBegin"} PROVE content # <<>>
  <2>1. /\ current - 1 \in b .. Len(text) /\ b \in 1 .. Len(text)
        /\ content = SubSeq(text, b, current - 1)
    BY <1>3, ReadSoFar
  <2>2. QED BY <2>1, PieceIs
<1>4. ASSUME status = "commentStartBegin" PROVE content # <<>>
  <2> DEFINE p == current - 1
  <2>1. /\ p \in b .. Len(text) /\ b \in 1 .. Len(text)
        /\ prev_status = "init" => content = SubSeq(text, b, p)
        /\ prev_status # "init" => p > b /\ content = SubSeq(text, b, p - 1)
    BY <1>4, SlashRead
  <2> HIDE DEF p
  <2>2. prev_status # "init" => p - 1 \in b .. Len(text)
    BY <2>1
  <2>3. QED BY <2>1, <2>2, PieceIs
<1>5. QED BY <1>1, <1>2, <1>3, <1>4

\* The state in which a plain text ends, the last part, and its kind.
LEMMA LastPart ==
  ASSUME text \in Seq(Chars), TypeOK, NEW b \in 1 .. Len(text) + 1, At(b), current = Len(text) + 1,
         status \notin {"init", "end"}, PlainFrom(text, b)
  PROVE  /\ status \in {"code", "lineComment", "comment", "preprocessor"}
         /\ b \in 1 .. Len(text) /\ Len(text) \in Nat
         /\ content = SubSeq(text, b, Len(text)) /\ rest = <<>>
         /\ Cut(text, b, Len(text))
         /\ GetLexForState(status) = KindOf(SubSeq(text, b, Len(text)))
<1> DEFINE n == Len(text)
<1>1. PICK e : Cut(text, b, e) /\ PlainAt(text, b, e)
  BY DEF PlainFrom
<1>2. n \in Nat /\ b \in 1 .. n /\ n \in b .. n
  BY <1>1 DEF Cut
<1>3. current - 1 = n
  BY <1>2
<1>4. ASSUME Cut(text, b, n) PROVE PlainAt(text, b, n)
  <2>1. e = n
    BY <1>1, <1>2, <1>4, CutOnce
  <2>2. QED BY <1>1, <2>1
<1>5. status # "commentStartBegin"
  <2>1. SUFFICES ASSUME status = "commentStartBegin" PROVE FALSE
    OBVIOUS
  <2>2. /\ text[n] = "/"
        /\ prev_status = "init" => n = b
        /\ prev_status # "init" =>
             /\ n > b /\ text[b] \notin {"/", "#"}
             /\ \A q \in b .. n - 2 : ~EndsIn(text, b, q)
    BY <1>3, <2>1, SlashRead
  <2>3. CASE prev_status = "init"
    BY <1>1, <1>2, <2>2, <2>3 DEF PlainAt, CommentAt
  <2>4. CASE prev_status # "init"
    <3>1. text[b] \notin {"/", "#"} /\ n > b /\ \A q \in b .. n - 2 : ~EndsIn(text, b, q)
      BY <2>2, <2>4
    <3>2. ~EndsIn(text, b, n - 1)
      <4>1. n - 1 + 1 = n /\ ~(n < Len(text))
        BY <1>2
      <4>2. text[n - 1 + 1] # "#"
        BY <2>2, <4>1
      <4>3. ~OpensIn(text, n - 1 + 1)
        BY <4>1 DEF OpensIn
      <4>4. QED BY <3>1, <4>2, <4>3, EndsCode
    <3>3. ASSUME NEW q \in b .. n - 1 PROVE ~EndsIn(text, b, q)
      <4>1. q \in b .. n - 2 \/ q = n - 1
        BY <1>2
      <4>2. QED BY <3>1, <3>2, <4>1
    <3>4. Cut(text, b, n)
      BY <1>2, <3>3, CutHere
    <3>5. QED BY <1>4, <2>2, <3>1, <3>4 DEF PlainAt
  <2>5. QED BY <2>3, <2>4
<1>6. /\ content = SubSeq(text, b, n) /\ rest = <<>> /\ Inside(text, b, n, status, prev_status, prev)
  BY <1>3, <1>5, ReadSoFar
<1> HIDE DEF n
<1>7. CASE status = "code"
  <2>1. InsideCode(text, b, n)
    BY <1>6, <1>7 DEF Inside
  <2>2. text[b] \notin {"/", "#"} /\ \A q \in b .. n - 1 : ~EndsIn(text, b, q)
    BY <2>1 DEF InsideCode
  <2>3. Cut(text, b, n)
    BY <1>2, <2>2, CutHere DEF n
  <2>4. KindOf(SubSeq(text, b, n)) = "code"
    <3>1. ~CommentAt(text, b, "/") /\ ~CommentAt(text, b, "*") /\ text[b] # "#"
      BY <2>2 DEF CommentAt
    <3>2. QED BY <1>2, <3>1, KindOfPiece DEF n
  <2>5. QED BY <1>2, <1>6, <1>7, <2>3, <2>4 DEF n, GetLexForState
<1>8. ASSUME NEW c \in {"/", "*"}, InsideComment(text, b, n, c)
      PROVE  Cut(text, b, n) /\ KindOf(SubSeq(text, b, n)) = "comment" /\ CommentAt(text, b, c)
  <2>1. CommentAt(text, b, c) /\ n > b /\ \A q \in b .. n : ~EndsIn(text, b, q)
    BY <1>8 DEF InsideComment
  <2>2. \A q \in b .. n - 1 : ~EndsIn(text, b, q)
    BY <1>2, <2>1
  <2>3. Cut(text, b, n)
    BY <1>2, <2>2, CutHere DEF n
  <2>4. KindOf(SubSeq(text, b, n)) = "comment"
    BY <1>2, <2>1, KindOfPiece DEF n
  <2>5. QED BY <2>1, <2>3, <2>4
<1>9. CASE status = "lineComment"
  <2>1. InsideComment(text, b, n, "/")
    BY <1>6, <1>9 DEF Inside
  <2>2. QED BY <1>2, <1>6, <1>8, <1>9, <2>1 DEF n, GetLexForState
<1>10. CASE status = "comment"
  <2>1. InsideComment(text, b, n, "*")
    BY <1>6, <1>10 DEF Inside
  <2>2. QED BY <1>2, <1>6, <1>8, <1>10, <2>1 DEF n, GetLexForState
<1>11. status # "commentStartEnd"
  <2>1. SUFFICES ASSUME status = "commentStartEnd" PROVE FALSE
    OBVIOUS
  <2>2. InsideComment(text, b, n, "*") /\ text[n] = "*" /\ n > b + 1
    BY <1>6, <2>1 DEF Inside
  <2>3. Cut(text, b, n) /\ CommentAt(text, b, "*")
    BY <1>8, <2>2
  <2>4. ~ClosesIn(text, b, n)
    BY <2>2 DEF ClosesIn
  <2>5. ~(n <= b + 1)
    BY <1>2, <2>2
  <2>6. QED BY <1>4, <2>2, <2>3, <2>4, <2>5 DEF PlainAt
<1>12. CASE status = "preprocessor"
  <2>1. InsideDirective(text, b, n, prev)
    BY <1>6, <1>12 DEF Inside
  <2>2. text[b] = "#" /\ \A q \in b .. n : ~LineEndsIn(text, b, q) /\ text[q] # "/"
    BY <2>1 DEF InsideDirective
  <2>3. ASSUME NEW q \in b .. n - 1 PROVE ~EndsIn(text, b, q)
    <3>1. q \in b .. n /\ q + 1 \in b .. n
      BY <1>2
    <3>2. ~OpensIn(text, q + 1)
      BY <2>2, <3>1 DEF OpensIn
    <3>3. QED BY <2>2, <3>1, <3>2, EndsDirective
  <2>4. Cut(text, b, n)
    BY <1>2, <2>3, CutHere DEF n
  <2>5. KindOf(SubSeq(text, b, n)) = "preprocessor"
    BY <1>2, <2>2, KindOfPiece DEF n
  <2>6. QED BY <1>2, <1>6, <1>12, <2>4, <2>5 DEF n, GetLexForState
<1>13. status \in {"code", "lineComment", "comment", "commentStartEnd", "preprocessor"}
  BY <1>5, <1>6 DEF Inside
<1>14. QED BY <1>7, <1>9, <1>10, <1>11, <1>12, <1>13

LEMMA EndOfTextMoves ==
  ASSUME text \in Seq(Chars), TypeOK, NEW b \in 1 .. Len(text) + 1, At(b), EndOfText,
         b <= Len(text) => PlainFrom(text, b)
  PROVE  /\ content # <<>> => Moves(b) /\ done' = FALSE
         /\ content = <<>> =>
              /\ b = Len(text) + 1 /\ done' = TRUE
              /\ parts' = Append(parts, [kind |-> "end", content |-> <<>>, line |-> line])
<1>1. /\ current > Len(text) /\ current' = current
      /\ LET ends == content = <<>> \/ status = "end" IN
         /\ Returns(IF ends THEN "end" ELSE GetLexForState(prev_status'), content, rest)
         /\ done' = ends
  BY DEF EndOfText
<1>2. /\ content = <<>> => status \in {"init", "end"}
      /\ status \in {"init", "end"} => content = <<>> /\ rest = <<>> /\ b = Len(text) + 1
      /\ current = Len(text) + 1
  BY <1>1, ContentLeft
<1>3. CASE content = <<>>
  <2>1. done' = TRUE /\ Returns("end", content, rest)
    BY <1>1, <1>3
  <2>2. QED BY <1>2, <1>3, <2>1 DEF Returns
<1>4. CASE content # <<>>
  <2> DEFINE n == Len(text)
  <2>1. status \notin {"init", "end"}
    BY <1>2, <1>4
  <2>2. b <= Len(text)
    <3>1. current - 1 \in b .. Len(text)
      BY <2>1 DEF At, Place
    <3>2. QED BY <3>1
  <2>3. /\ status \in {"code", "lineComment", "comment", "preprocessor"}
        /\ b \in 1 .. n /\ n \in Nat
        /\ content = SubSeq(text, b, n) /\ rest = <<>>
        /\ Cut(text, b, n)
        /\ GetLexForState(status) = KindOf(SubSeq(text, b, n))
    BY <1>2, <2>1, <2>2, LastPart
  <2>4. status' = "end" /\ prev_status' = status
    BY <1>4, <2>1, <2>3 DEF EndOfText, EnterStatus
  <2>5. done' = FALSE /\ Returns(GetLexForState(status), content, rest)
    BY <1>1, <1>4, <2>1, <2>4
  <2>6. /\ parts' = Append(parts, [kind |-> KindOf(SubSeq(text, b, n)), content |-> SubSeq(text, b, n), line |-> line])
        /\ content' = <<>> /\ rest' = <<>> /\ line' = lineno'
    BY <2>3, <2>5 DEF Returns
  <2>7. AtNext(n + 1)
    BY <1>1, <1>2, <2>4, <2>6 DEF AtNext, Place, Between
  <2>8. n \in b .. Len(text) /\ n < current' /\ NoLine(text, n + 1, current' - 1)
    BY <1>1, <1>2, <2>3 DEF NoLine
  <2> HIDE DEF n
  <2>9. Moves(b)
    BY <2>3, <2>6, <2>7, <2>8 DEF Moves
  <2>10. QED BY <1>4, <2>5, <2>9
<1>5. QED BY <1>3, <1>4

----------------------------------------------------------------------------
Part == [kind : {"code", "comment", "preprocessor", "end"}, content : Seq(Chars), line : Nat]

\* The parts returned are the first segments, and the machine is in the next one.
CutInv ==
  Plain(Segments(text)) =>
    LET S == Segments(text) IN
    /\ parts \in Seq(Part)
    /\ \A i \in 1 .. Len(S) : i <= Len(parts) =>
         parts[i].content = S[i] /\ parts[i].kind = KindOf(S[i])
    /\ done => Len(parts) = Len(S) + 1
    /\ ~done => Len(parts) <= Len(S) /\ At(Here)

LEMMA CutStarts == Init => CutInv
<1> SUFFICES ASSUME Init PROVE CutInv
  OBVIOUS
<1>1. text \in Seq(Chars)
  BY TextsAssumption DEF Init, Chars
<1>2. parts = <<>> /\ ~done /\ current = 1 /\ content = <<>> /\ rest = <<>> /\ status = "init"
  BY DEF Init
<1>3. Len(Segments(text)) \in Nat /\ StartsOf(text)[1] = 1
  BY <1>1, LastSegment
<1>4. Len(parts) = 0 /\ parts \in Seq(Part)
  BY <1>2
<1>5. Here = 1
  BY <1>3, <1>4 DEF Here
<1>6. At(Here)
  BY <1>2, <1>5 DEF At, Place, Between
<1>7. QED BY <1>2, <1>3, <1>4, <1>6 DEF CutInv

\* A step of a machine that has not ended.
LEMMA Progress ==
  ASSUME text \in Seq(Chars), TypeOK, Next, NEW b \in 1 .. Len(text) + 1, At(b),
         b <= Len(text) => PlainFrom(text, b)
  PROVE  /\ text' = text /\ ~done
         /\ \/ Moves(b) /\ done' = FALSE
            \/ /\ b = Len(text) + 1 /\ done' = TRUE
               /\ parts' = Append(parts, [kind |-> "end", content |-> <<>>, line |-> line])
<1>1. CASE EndOfText
  BY <1>1, EndOfTextMoves DEF EndOfText
<1>2. CASE ~EndOfText
  <2>1. text' = text /\ ~done /\ done' = FALSE
    <3>1. \E s : Reads(s)
      BY <1>2 DEF Next, InInit, OpensComment, OpensNoComment, InLineComment, InComment,
         InCommentStartEnd, InCode, InPreprocessor
    <3>2. ~done /\ done' = done /\ text' = text
      BY <3>1 DEF Reads
    <3>3. QED BY <3>2
  <2>2. Moves(b)
    <3>1. CASE InInit
      BY <3>1, InInitMoves
    <3>2. CASE OpensComment
      BY <3>2, OpensCommentMoves
    <3>3. CASE OpensNoComment
      BY <3>3, OpensNoCommentMoves
    <3>4. CASE InLineComment
      BY <3>4, InLineCommentMoves
    <3>5. CASE InComment
      BY <3>5, InCommentMoves
    <3>6. CASE InCommentStartEnd
      BY <3>6, InCommentStartEndMoves
    <3>7. CASE InCode
      BY <3>7, InCodeMoves
    <3>8. CASE InPreprocessor
      BY <3>8, InPreprocessorMoves
    <3>9. QED BY <1>2, <3>1, <3>2, <3>3, <3>4, <3>5, <3>6, <3>7, <3>8 DEF Next
  <2>3. QED BY <2>1, <2>2
<1>3. QED BY <1>1, <1>2

LEMMA KindIsOne ==
  ASSUME NEW s
  PROVE  KindOf(s) \in {"code", "comment", "preprocessor", "end"}
BY DEF KindOf

\* The segment that the machine is in.
LEMMA InSegment ==
  ASSUME text \in Seq(Chars), Plain(Segments(text)), Len(parts) \in Nat, Len(parts) <= Len(Segments(text))
  PROVE  /\ Len(Segments(text)) \in Nat /\ Here \in 1 .. Len(text) + 1
         /\ Here <= Len(text) <=> Len(parts) + 1 <= Len(Segments(text))
         /\ Here <= Len(text) => PlainFrom(text, Here)
<1> DEFINE k == Len(parts) + 1
           S == Segments(text)
<1>1. Len(S) \in Nat
  BY LastSegment
<1>2. k \in 1 .. Len(S) + 1
  BY <1>1
<1>3. Here \in 1 .. Len(text) + 1 /\ (Here <= Len(text) <=> k <= Len(S))
  BY <1>2, LastSegment DEF Here
<1>4. ASSUME Here <= Len(text) PROVE PlainFrom(text, Here)
  <2>1. k \in 1 .. Len(S)
    BY <1>1, <1>2, <1>3, <1>4
  <2>2. Cut(text, StartsOf(text)[k], StartsOf(text)[k + 1] - 1)
        /\ PlainAt(text, StartsOf(text)[k], StartsOf(text)[k + 1] - 1)
    BY <2>1, PlainMeans
  <2>3. QED BY <2>2 DEF PlainFrom, Here
<1>5. QED BY <1>1, <1>3, <1>4

\* A segment that is cut off is the one that the machine is in.
LEMMA CutIsSegment ==
  ASSUME text \in Seq(Chars), Len(parts) \in Nat, NEW k, k = Len(parts) + 1, k \in 1 .. Len(Segments(text)),
         NEW e, Cut(text, Here, e)
  PROVE  /\ Segments(text)[k] = SubSeq(text, Here, e) /\ SubSeq(text, Here, e) \in Seq(Chars)
         /\ StartsOf(text)[k + 1] = e + 1
<1> DEFINE f == StartsOf(text)[k + 1] - 1
<1>1. /\ Cut(text, Here, f) /\ Segments(text)[k] = SubSeq(text, Here, f)
      /\ Here \in 1 .. Len(text) /\ StartsOf(text)[k + 1] \in Here + 1 .. Len(text) + 1
  BY SegmentAt DEF Here
<1>2. Len(text) \in Nat /\ f + 1 = StartsOf(text)[k + 1] /\ f \in Here .. Len(text)
  <2>1. Len(text) \in Nat
    OBVIOUS
  <2>2. \A x \in 1 .. Len(text) : \A y \in x + 1 .. Len(text) + 1 : y - 1 + 1 = y /\ y - 1 \in x .. Len(text)
    BY <2>1
  <2>3. QED BY <1>1, <2>1, <2>2
<1> HIDE DEF f
<1>3. e = f
  BY <1>1, <1>2, CutOnce
<1>4. SubSeq(text, Here, f) \in Seq(Chars)
  BY <1>1, <1>2, PieceIs
<1>5. QED BY <1>1, <1>2, <1>3, <1>4

LEMMA CutKeeps ==
  ASSUME text \in Seq(Chars), TypeOK, CutInv, Next
  PROVE  CutInv'
<1> DEFINE S == Segments(text)
           n == Len(parts)
           p(k, c) == [kind |-> k, content |-> c, line |-> line]
<1>1. text' = text
  BY DEF Next, InInit, OpensComment, OpensNoComment, InLineComment, InComment,
         InCommentStartEnd, InCode, InPreprocessor, EndOfText, Reads
<1>2. ~done
  BY DEF Next, InInit, OpensComment, OpensNoComment, InLineComment, InComment,
         InCommentStartEnd, InCode, InPreprocessor, EndOfText, Reads
<1>3. SUFFICES ASSUME Plain(S)
      PROVE  /\ parts' \in Seq(Part)
             /\ \A i \in 1 .. Len(S) : i <= Len(parts') =>
                  parts'[i].content = S[i] /\ parts'[i].kind = KindOf(S[i])
             /\ done' => Len(parts') = Len(S) + 1
             /\ ~done' => Len(parts') <= Len(S) /\ At(Here)'
  BY <1>1 DEF CutInv
<1>4. /\ parts \in Seq(Part) /\ n \in Nat /\ n <= Len(S) /\ At(Here)
      /\ \A i \in 1 .. Len(S) : i <= n => parts[i].content = S[i] /\ parts[i].kind = KindOf(S[i])
  BY <1>2, <1>3 DEF CutInv
<1>5. /\ Len(S) \in Nat /\ Here \in 1 .. Len(text) + 1 /\ (Here <= Len(text) <=> n + 1 <= Len(S))
      /\ Here <= Len(text) => PlainFrom(text, Here)
  BY <1>3, <1>4, InSegment
<1>6. \/ Moves(Here) /\ done' = FALSE
      \/ Here = Len(text) + 1 /\ done' = TRUE /\ parts' = Append(parts, p("end", <<>>))
  BY <1>4, <1>5, Progress
<1>7. line \in Nat
  BY DEF TypeOK
<1>8. CASE parts' = parts /\ AtNext(Here) /\ done' = FALSE
  <2>1. At(Here)'
    <3>1. Here' = Here
      BY <1>1, <1>8 DEF Here
    <3>2. QED BY <1>1, <1>8, <3>1 DEF At, AtNext
  <2>2. QED BY <1>4, <1>8, <2>1
<1>9. ASSUME NEW c \in Seq(Chars), NEW k \in {"code", "comment", "preprocessor", "end"},
             parts' = Append(parts, p(k, c))
      PROVE  /\ parts' \in Seq(Part) /\ Len(parts') = n + 1
             /\ parts'[n + 1] = p(k, c) /\ \A i \in 1 .. n : parts'[i] = parts[i]
  <2>1. p(k, c) \in Part
    BY <1>7 DEF Part
  <2> HIDE DEF p
  <2>2. QED BY <1>4, <1>9, <2>1, AppendProperties
<1>10. CASE Here = Len(text) + 1 /\ done' = TRUE /\ parts' = Append(parts, p("end", <<>>))
  <2>1. n = Len(S)
    <3>1. ~(Here <= Len(text))
      BY <1>5, <1>10
    <3>2. QED BY <1>4, <1>5, <3>1
  <2>2. /\ parts' \in Seq(Part) /\ Len(parts') = n + 1 /\ \A i \in 1 .. n : parts'[i] = parts[i]
    <3>1. <<>> \in Seq(Chars)
      OBVIOUS
    <3> HIDE DEF p, n
    <3>2. QED BY <1>9, <1>10, <3>1
  <2> HIDE DEF n, p, S
  <2>3. QED BY <1>4, <1>10, <2>1, <2>2
<1>11. ASSUME NEW e \in Here .. Len(text), Cut(text, Here, e), AtNext(e + 1), done' = FALSE,
              parts' = Append(parts, p(KindOf(SubSeq(text, Here, e)), SubSeq(text, Here, e)))
       PROVE  /\ parts' \in Seq(Part)
              /\ \A i \in 1 .. Len(S) : i <= Len(parts') =>
                   parts'[i].content = S[i] /\ parts'[i].kind = KindOf(S[i])
              /\ Len(parts') <= Len(S) /\ At(Here)'
  <2> DEFINE s == SubSeq(text, Here, e)
  <2>1. Here <= Len(text)
    BY <1>5, <1>11
  <2>2. n + 1 \in 1 .. Len(S)
    BY <1>4, <1>5, <2>1
  <2>3. S[n + 1] = s /\ s \in Seq(Chars) /\ StartsOf(text)[n + 1 + 1] = e + 1
    BY <1>4, <1>11, <2>2, CutIsSegment
  <2>4. KindOf(s) \in {"code", "comment", "preprocessor", "end"}
    BY KindIsOne
  <2>5. /\ parts' \in Seq(Part) /\ Len(parts') = n + 1
        /\ parts'[n + 1] = p(KindOf(s), s) /\ \A i \in 1 .. n : parts'[i] = parts[i]
    <3> HIDE DEF p, n
    <3>1. QED BY <1>9, <1>11, <2>3, <2>4
  <2>6. At(Here)'
    <3>1. Here' = e + 1
      BY <1>1, <2>3, <2>5 DEF Here
    <3>2. AtNext(e + 1)
      BY <1>11, Zenon
    <3>3. QED BY <1>1, <3>1, <3>2, Zenon DEF At, AtNext
  <2>7. parts'[n + 1].content = S[n + 1] /\ parts'[n + 1].kind = KindOf(S[n + 1])
    <3>1. p(KindOf(s), s).content = s /\ p(KindOf(s), s).kind = KindOf(s)
      OBVIOUS
    <3>2. parts'[n + 1] = p(KindOf(s), s)
      BY <2>5, Zenon
    <3> HIDE DEF p, n, S, s
    <3>3. S[n + 1] = s
      BY <2>3 DEF s
    <3>4. QED BY <3>1, <3>2, <3>3
  <2> HIDE DEF n, p, S, s
  <2>8. ASSUME NEW i \in 1 .. Len(S), i <= n + 1
        PROVE  parts'[i].content = S[i] /\ parts'[i].kind = KindOf(S[i])
    <3>1. CASE i = n + 1
      BY <2>7, <3>1
    <3>2. CASE i # n + 1
      <4>1. i \in 1 .. n /\ i <= n
        BY <1>4, <2>8, <3>2
      <4>2. QED BY <1>4, <2>5, <4>1
    <3>3. QED BY <3>1, <3>2
  <2>9. QED BY <2>2, <2>5, <2>6, <2>8
<1>12. CASE Moves(Here) /\ done' = FALSE
  <2>1. \/ parts' = parts /\ AtNext(Here)
        \/ \E e \in Here .. Len(text) :
             /\ Cut(text, Here, e) /\ AtNext(e + 1)
             /\ parts' = Append(parts, p(KindOf(SubSeq(text, Here, e)), SubSeq(text, Here, e)))
    BY <1>12 DEF Moves
  <2> HIDE DEF p, n, S
  <2>2. QED BY <1>8, <1>11, <1>12, <2>1
<1>13. QED BY <1>6, <1>10, <1>12

\* Nothing is added and nothing is lost between the parts: every text that the
\* machine is made for, of whatever length, is cut into its segments, each with its
\* kind, whatever order they come in.
THEOREM SegmentsAreParts == Spec => []CutIntoSegments
<1> DEFINE I == text \in Seq(Chars) /\ PartyInv /\ CutInv /\ Len(text) \in Nat
<1>1. Init => I
  BY Starts, CutStarts, TextsAssumption DEF Init, Chars
<1>2. I /\ [Next]_vars => I'
  <2> SUFFICES ASSUME I, [Next]_vars PROVE I'
    OBVIOUS
  <2>1. PartyInv' /\ Len(text') \in Nat
    BY Keeps
  <2>2. CASE Next
    <3>1. text' = text
      BY <2>2, CountersStay DEF PartyInv
    <3>2. CutInv'
      BY <2>2, CutKeeps DEF PartyInv
    <3>3. QED BY <2>1, <3>1, <3>2
  <2>3. CASE UNCHANGED vars
    <3>1. text' = text /\ CutInv'
      BY <2>3 DEF vars, CutInv, At, Here
    <3>2. QED BY <2>1, <3>1
  <2>4. QED BY <2>2, <2>3
<1>3. I => CutIntoSegments
  <2> SUFFICES ASSUME I, done, Plain(Segments(text))
      PROVE  /\ Len(parts) = Len(Segments(text)) + 1
             /\ \A i \in DOMAIN Segments(text) :
                  parts[i].content = Segments(text)[i] /\ parts[i].kind = KindOf(Segments(text)[i])
    BY DEF CutIntoSegments
  <2>1. Len(Segments(text)) \in Nat /\ DOMAIN Segments(text) = 1 .. Len(Segments(text))
    BY LastSegment
  <2>2. QED BY <2>1 DEF CutInv
<1>4. QED BY <1>1, <1>2, <1>3, PTL DEF Spec

----------------------------------------------------------------------------
\* The lines.

\* The newline at q is counted for the part that begins at b.
CountedAt(t, b, q) ==
  t[q] = Newline /\ q # b /\ ~(CommentAt(t, b, "*") /\ t[q - 1] = "*" /\ q > b + 2)

CountedIn(t, b, p) == {q \in b .. p : CountedAt(t, b, q)}

\* The lines before the i-th of the segments S.
LinesTo(S, i) == UNION {{j} \X Counted(S[j]) : j \in 1 .. i - 1}

LEMMA CountedSame ==
  ASSUME NEW t \in Seq(Chars), NEW b \in 1 .. Len(t), NEW e \in b .. Len(t), NEW i \in 1 .. e - b + 1
  PROVE  i \in Counted(SubSeq(t, b, e)) <=> CountedAt(t, b, b + i - 1)
<1> DEFINE s == SubSeq(t, b, e)
           q == b + i - 1
<1>1. /\ s \in Seq(Chars) /\ Len(s) = e - b + 1 /\ \A j \in 1 .. e - b + 1 : s[j] = t[b + j - 1]
      /\ Len(t) \in Nat
  BY PieceIs
<1>2. /\ e > b => (IsBlockComment(s) <=> CommentAt(t, b, "*"))
      /\ t[b] # "#" /\ ~CommentAt(t, b, "/") /\ ~CommentAt(t, b, "*") => KindOf(s) = "code"
  BY KindOfPiece
<1> HIDE DEF s
<1>3. i \in DOMAIN s /\ s[i] = t[q] /\ (i > 1 => s[i - 1] = t[q - 1]) /\ (i = 1 <=> q = b)
      /\ (i > 3 <=> q > b + 2)
  <2>1. i \in DOMAIN s /\ s[i] = t[q]
    BY <1>1
  <2>2. ASSUME i > 1 PROVE s[i - 1] = t[q - 1]
    <3>1. i - 1 \in 1 .. e - b + 1 /\ b + (i - 1) - 1 = q - 1
      BY <2>2
    <3>2. QED BY <1>1, <3>1
  <2>3. QED BY <2>1, <2>2
<1> HIDE DEF q
<1>4. i \in Newlines(s) <=> t[q] = Newline
  BY <1>3 DEF Newlines
<1>5. CASE i = 1
  <2>1. t[q] = Newline => KindOf(s) = "code"
    BY <1>2, <1>3, <1>5 DEF CommentAt, Newline
  <2>2. i \notin Counted(s)
    BY <1>4, <1>5, <2>1 DEF Counted, Uncounted
  <2>3. QED BY <1>3, <1>5, <2>2 DEF CountedAt, s, q
<1>6. CASE i # 1
  <2>1. e > b /\ i > 1
    BY <1>1, <1>6
  <2>2. i \in Uncounted(s) <=> t[q] = Newline /\ CommentAt(t, b, "*") /\ t[q - 1] = "*" /\ q > b + 2
    BY <1>2, <1>3, <1>4, <1>6, <2>1 DEF Uncounted
  <2>3. QED BY <1>3, <1>4, <1>6, <2>2 DEF CountedAt, Counted, s, q
<1>7. QED BY <1>5, <1>6

LEMMA CountedFinite ==
  ASSUME NEW t, NEW b \in Nat, NEW p \in Int
  PROVE  IsFiniteSet(CountedIn(t, b, p)) /\ Cardinality(CountedIn(t, b, p)) \in Nat
<1>1. IsFiniteSet(b .. p)
  BY FS_Interval
<1>2. CountedIn(t, b, p) \in SUBSET (b .. p)
  BY DEF CountedIn
<1>3. IsFiniteSet(CountedIn(t, b, p))
  BY <1>1, <1>2, FS_Subset
<1>4. QED BY <1>3, FS_CardinalityType

\* A segment has as many counted newlines as its piece of the text.
LEMMA CountedSegment ==
  ASSUME NEW t \in Seq(Chars), NEW b \in 1 .. Len(t), NEW e \in b .. Len(t)
  PROVE  /\ IsFiniteSet(Counted(SubSeq(t, b, e))) /\ Counted(SubSeq(t, b, e)) \in SUBSET (1 .. Len(t))
         /\ Cardinality(Counted(SubSeq(t, b, e))) = Cardinality(CountedIn(t, b, e))
<1> DEFINE s == SubSeq(t, b, e)
           C == Counted(s)
           D == CountedIn(t, b, e)
           f == [i \in C |-> b + i - 1]
<1>1. Len(t) \in Nat /\ s \in Seq(Chars) /\ Len(s) = e - b + 1
  BY PieceIs
<1>2. \A i \in 1 .. e - b + 1 : i \in C <=> CountedAt(t, b, b + i - 1)
  BY CountedSame
<1>3. C \in SUBSET (1 .. e - b + 1)
  BY <1>1 DEF Counted, Newlines
<1>4. IsFiniteSet(C)
  <2>1. IsFiniteSet(1 .. e - b + 1)
    BY <1>1, FS_Interval
  <2> HIDE DEF C
  <2>2. QED BY <1>3, <2>1, FS_Subset
<1> HIDE DEF s, C
<1>5. \A i \in C : f[i] = b + i - 1
  OBVIOUS
<1>6. f \in [C -> D]
  <2>1. ASSUME NEW i \in C PROVE b + i - 1 \in D
    <3>1. i \in 1 .. e - b + 1 /\ b + i - 1 \in b .. e
      BY <1>1, <1>3
    <3>2. QED BY <1>2, <3>1 DEF CountedIn
  <2>2. QED BY <2>1
<1>7. \A i, j \in C : f[i] = f[j] => i = j
  <2>1. ASSUME NEW i \in C, NEW j \in C, f[i] = f[j] PROVE i = j
    <3>1. i \in Int /\ j \in Int /\ b + i - 1 = b + j - 1
      BY <1>3, <1>5, <2>1
    <3>2. QED BY <3>1
  <2>2. QED BY <2>1
<1>8. ASSUME NEW q \in D PROVE \E i \in C : f[i] = q
  <2>1. q \in b .. e /\ CountedAt(t, b, q)
    BY DEF CountedIn
  <2>2. q - b + 1 \in 1 .. e - b + 1 /\ b + (q - b + 1) - 1 = q
    BY <1>1, <2>1
  <2>3. q - b + 1 \in C
    BY <1>2, <2>1, <2>2
  <2>4. f[q - b + 1] = q
    BY <1>5, <2>2, <2>3
  <2>5. QED BY <2>3, <2>4
<1> HIDE DEF f, D
<1>9. f \in Bijection(C, D)
  BY <1>6, <1>7, <1>8 DEF Bijection, Injection, Surjection, IsInjective
<1>10. Cardinality(D) = Cardinality(C)
  BY <1>4, <1>9, FS_Bijection DEF ExistsBijection
<1>11. C \in SUBSET (1 .. Len(t))
  BY <1>1, <1>3
<1>12. QED BY <1>4, <1>10, <1>11 DEF s, C, D

\* The lines before a segment are finitely many; the next one has those of the
\* segment more.
LEMMA LinesGrow ==
  ASSUME NEW t \in Seq(Chars), NEW k \in 1 .. Len(Segments(t))
  PROVE  LET S == Segments(t)
             b == StartsOf(t)[k]
             e == StartsOf(t)[k + 1] - 1
         IN  /\ Cardinality(LinesTo(S, k)) \in Nat
             /\ Cardinality(LinesTo(S, k + 1))
                  = Cardinality(LinesTo(S, k)) + Cardinality(CountedIn(t, b, e))
<1> DEFINE S == Segments(t)
           st == StartsOf(t)
           L == LinesTo(S, k)
           C == Counted(S[k])
           D == {k} \X C
<1>1. Len(S) \in Nat /\ Len(t) \in Nat
  BY LastSegment
<1>2. ASSUME NEW j \in 1 .. Len(S)
      PROVE  /\ IsFiniteSet(Counted(S[j])) /\ Counted(S[j]) \in SUBSET (1 .. Len(t))
             /\ Cardinality(Counted(S[j])) = Cardinality(CountedIn(t, st[j], st[j + 1] - 1))
  <2>1. /\ Cut(t, st[j], st[j + 1] - 1)
        /\ S[j] = SubSeq(t, st[j], st[j + 1] - 1)
        /\ st[j] \in 1 .. Len(t) /\ st[j + 1] \in st[j] + 1 .. Len(t) + 1
    BY SegmentAt
  <2> DEFINE f == st[j + 1] - 1
  <2>2. f \in st[j] .. Len(t) /\ S[j] = SubSeq(t, st[j], f) /\ st[j] \in 1 .. Len(t)
    BY <1>1, <2>1
  <2> HIDE DEF S, st, f
  <2>3. QED BY <2>2, CountedSegment DEF f
<1> HIDE DEF S, st
<1>3. k \in 1 .. Len(S)
  BY DEF S
<1>4. L \in SUBSET ((1 .. Len(S)) \X (1 .. Len(t)))
  <2>1. SUFFICES ASSUME NEW x \in L PROVE x \in (1 .. Len(S)) \X (1 .. Len(t))
    OBVIOUS
  <2>2. PICK j \in 1 .. k - 1 : x \in {j} \X Counted(S[j])
    BY DEF LinesTo
  <2>3. j \in 1 .. Len(S)
    BY <1>1, <1>3
  <2>4. Counted(S[j]) \in SUBSET (1 .. Len(t))
    BY <1>2, <2>3
  <2>5. QED BY <2>2, <2>3, <2>4
<1>5. IsFiniteSet(L)
  <2>1. IsFiniteSet(1 .. Len(S)) /\ IsFiniteSet(1 .. Len(t))
    BY <1>1, FS_Interval
  <2>2. IsFiniteSet((1 .. Len(S)) \X (1 .. Len(t)))
    BY <2>1, FS_Product
  <2> HIDE DEF L
  <2>3. QED BY <1>4, <2>2, FS_Subset
<1>6. IsFiniteSet(D) /\ Cardinality(D) = Cardinality(C) /\ Cardinality(C) \in Nat
  <2>1. IsFiniteSet(C)
    BY <1>2, <1>3
  <2>2. IsFiniteSet({k}) /\ Cardinality({k}) = 1
    BY FS_Singleton
  <2> HIDE DEF C
  <2>3. Cardinality(C) \in Nat
    BY <2>1, FS_CardinalityType
  <2>4. IsFiniteSet(D) /\ Cardinality(D) = 1 * Cardinality(C)
    BY <2>1, <2>2, FS_Product
  <2>5. QED BY <2>3, <2>4
<1>7. LinesTo(S, k + 1) = L \cup D
  <2>1. 1 .. k + 1 - 1 = (1 .. k - 1) \cup {k}
    BY <1>1, <1>3
  <2>2. LinesTo(S, k + 1) = UNION {{j} \X Counted(S[j]) : j \in (1 .. k - 1) \cup {k}}
    BY <2>1 DEF LinesTo
  <2>3. UNION {{j} \X Counted(S[j]) : j \in (1 .. k - 1) \cup {k}}
          = (UNION {{j} \X Counted(S[j]) : j \in 1 .. k - 1}) \cup ({k} \X Counted(S[k]))
    <3> DEFINE F(j) == {j} \X Counted(S[j])
               N == 1 .. k - 1
    <3>1. UNION {F(j) : j \in N \cup {k}} = (UNION {F(j) : j \in N}) \cup F(k)
      <4> HIDE DEF F, N
      <4>1. QED OBVIOUS
    <3>2. QED BY <3>1
  <2>4. QED BY <2>2, <2>3 DEF LinesTo
<1>8. L \cap D = {}
  <2>1. SUFFICES ASSUME NEW x \in L, x \in D PROVE FALSE
    OBVIOUS
  <2>2. PICK j \in 1 .. k - 1 : x \in {j} \X Counted(S[j])
    BY DEF LinesTo
  <2>3. x[1] = j /\ x[1] = k
    BY <2>1, <2>2
  <2>4. QED BY <1>1, <1>3, <2>3
<1> HIDE DEF L, D, C
<1>9. Cardinality(L) \in Nat /\ Cardinality(L \cup D) = Cardinality(L) + Cardinality(D)
  <2>1. Cardinality(L) \in Nat
    BY <1>5, FS_CardinalityType
  <2>2. Cardinality(L \cap D) = 0
    BY <1>8, FS_EmptySet
  <2>3. Cardinality(L \cup D) = Cardinality(L) + Cardinality(D) - Cardinality(L \cap D)
    BY <1>5, <1>6, FS_Union
  <2>4. Cardinality(D) \in Nat
    BY <1>6
  <2>5. QED BY <2>1, <2>2, <2>3, <2>4
<1>10. Cardinality(C) = Cardinality(CountedIn(t, st[k], st[k + 1] - 1))
  BY <1>2, <1>3 DEF C
<1>11. QED BY <1>6, <1>7, <1>9, <1>10 DEF L, S, st

\* The line count goes on with the newlines that are counted.
Numbers(b) ==
  \/ current' = current /\ lineno' = lineno
  \/ /\ current \in b .. Len(text) /\ current' = current + 1
     /\ lineno' = IF CountedAt(text, b, current) THEN lineno + 1 ELSE lineno

LEMMA NumbersInit ==
  ASSUME text \in Seq(Chars), TypeOK, NEW b \in 1 .. Len(text) + 1, At(b), InInit
  PROVE  Numbers(b)
<1>1. current = b /\ current \in b .. Len(text) /\ current' = current + 1 /\ lineno' = lineno
  BY DEF InInit, Reads, At, Place, Between
<1>2. ~CountedAt(text, b, current)
  BY <1>1 DEF CountedAt
<1>3. QED BY <1>1, <1>2 DEF Numbers

LEMMA NumbersSlash ==
  ASSUME text \in Seq(Chars), TypeOK, NEW b \in 1 .. Len(text) + 1, At(b), OpensComment \/ OpensNoComment,
         b <= Len(text) => PlainFrom(text, b)
  PROVE  Numbers(b)
<1>1. status = "commentStartBegin" /\ current <= Len(text) /\ current' = current + 1
      /\ Char = text[current]
  BY DEF OpensComment, OpensNoComment, Reads, Char
<1>2. /\ current - 1 \in b .. Len(text) /\ b \in 1 .. Len(text) /\ current = current - 1 + 1
      /\ text[current - 1] = "/"
      /\ prev_status = "init" => current - 1 = b
      /\ prev_status # "init" => text[b] \notin {"/", "#"} /\ current - 1 > b
  BY <1>1, SlashRead
<1>3. current \in b .. Len(text) /\ current # b
  BY <1>1, <1>2 DEF TypeOK
<1>4. CASE OpensComment
  <2>1. Char \in {"/", "*"} /\ lineno' = lineno
    BY <1>4 DEF OpensComment
  <2>2. ~CountedAt(text, b, current)
    BY <1>1, <2>1 DEF CountedAt, Newline
  <2>3. QED BY <1>1, <1>3, <2>1, <2>2 DEF Numbers
<1>5. CASE OpensNoComment
  <2>1. Char \notin {"/", "*"} /\ lineno' = (IF Char = Newline THEN lineno + 1 ELSE lineno)
    BY <1>5 DEF OpensNoComment, CountsLines
  <2>2. prev_status # "init"
    <3>1. SUFFICES ASSUME prev_status = "init" PROVE FALSE
      OBVIOUS
    <3>2. text[b] = "/" /\ b + 1 = current
      BY <1>2, <3>1 DEF TypeOK
    <3>3. text[b + 1] \notin {"/", "*"}
      BY <1>1, <2>1, <3>2
    <3>4. PICK e : Cut(text, b, e) /\ PlainAt(text, b, e)
      BY <1>2 DEF PlainFrom
    <3>5. QED BY <3>2, <3>3, <3>4 DEF PlainAt, CommentAt
  <2>3. ~CommentAt(text, b, "*")
    BY <1>2, <2>2 DEF CommentAt
  <2>4. CountedAt(text, b, current) <=> Char = Newline
    BY <1>1, <1>3, <2>3 DEF CountedAt
  <2>5. QED BY <1>1, <1>3, <2>1, <2>4 DEF Numbers
<1>6. QED BY <1>4, <1>5

LEMMA NumbersInside ==
  ASSUME text \in Seq(Chars), TypeOK, NEW b \in 1 .. Len(text) + 1, At(b),
         InLineComment \/ InComment \/ InCommentStartEnd \/ InCode \/ InPreprocessor
  PROVE  Numbers(b)
<1>1. /\ status \in {"lineComment", "comment", "commentStartEnd", "code", "preprocessor"}
      /\ current <= Len(text) /\ current' = current + 1 /\ Char = text[current]
  BY DEF InLineComment, InComment, InCommentStartEnd, InCode, InPreprocessor, Reads, Char
<1>2. /\ b \in 1 .. Len(text) /\ Len(text) \in Nat /\ current \in b + 1 .. Len(text)
      /\ Inside(text, b, current - 1, status, prev_status, prev)
  BY <1>1, ReadSoFar
<1>3. current \in b .. Len(text) /\ current # b
  BY <1>2
<1>4. CASE InCommentStartEnd
  <2>1. status = "commentStartEnd" /\ lineno' = lineno
    BY <1>4 DEF InCommentStartEnd, Reads
  <2>2. InsideComment(text, b, current - 1, "*") /\ text[current - 1] = "*" /\ current - 1 > b + 1
    BY <1>2, <2>1 DEF Inside
  <2>3. CommentAt(text, b, "*") /\ current > b + 2
    BY <1>2, <2>2 DEF InsideComment
  <2>4. ~CountedAt(text, b, current)
    BY <2>2, <2>3 DEF CountedAt
  <2>5. QED BY <1>1, <1>3, <2>1, <2>4 DEF Numbers
<1>5. CASE ~InCommentStartEnd
  <2>1. lineno' = (IF Char = Newline THEN lineno + 1 ELSE lineno)
    BY <1>5 DEF InLineComment, InComment, InCode, InPreprocessor, CountsLines
  <2>2. status \in {"lineComment", "comment", "code", "preprocessor"}
    BY <1>5 DEF InLineComment, InComment, InCode, InPreprocessor, Reads
  <2>3. ~(CommentAt(text, b, "*") /\ text[current - 1] = "*" /\ current > b + 2)
    <3>1. CASE status = "lineComment"
      <4>1. CommentAt(text, b, "/")
        BY <1>2, <3>1 DEF Inside, InsideComment
      <4>2. QED BY <4>1 DEF CommentAt
    <3>2. CASE status = "comment"
      <4>1. text[current - 1] # "*" \/ current - 1 = b + 1
        BY <1>2, <3>2 DEF Inside
      <4>2. QED BY <1>2, <4>1
    <3>3. CASE status = "code"
      <4>1. text[b] # "/"
        BY <1>2, <3>3 DEF Inside, InsideCode
      <4>2. QED BY <4>1 DEF CommentAt
    <3>4. CASE status = "preprocessor"
      <4>1. text[b] = "#"
        BY <1>2, <3>4 DEF Inside, InsideDirective
      <4>2. QED BY <4>1 DEF CommentAt
    <3>5. QED BY <2>2, <3>1, <3>2, <3>3, <3>4
  <2>4. CountedAt(text, b, current) <=> Char = Newline
    BY <1>1, <1>3, <2>3 DEF CountedAt
  <2>5. QED BY <1>1, <1>3, <2>1, <2>4 DEF Numbers
<1>6. QED BY <1>4, <1>5

\* The line count is that of the part, and the newlines counted in it so far.
LEMMA LineCounted ==
  ASSUME text \in Seq(Chars), TypeOK, Next, NEW b \in 1 .. Len(text) + 1, At(b),
         b <= Len(text) => PlainFrom(text, b),
         lineno = line + Cardinality(CountedIn(text, b, current - 1))
  PROVE  /\ lineno' = line + Cardinality(CountedIn(text, b, current' - 1))
         /\ current' \in 1 .. Len(text) + 1
<1>1. Numbers(b)
  <2>1. CASE EndOfText
    BY <2>1 DEF EndOfText, Numbers
  <2>2. CASE ~EndOfText
    BY <2>2, NumbersInit, NumbersSlash, NumbersInside DEF Next
  <2>3. QED BY <2>1, <2>2
<1>2. CASE current' = current /\ lineno' = lineno
  BY <1>2 DEF TypeOK
<1>3. CASE /\ current \in b .. Len(text) /\ current' = current + 1
           /\ lineno' = IF CountedAt(text, b, current) THEN lineno + 1 ELSE lineno
  <2> DEFINE C == CountedIn(text, b, current - 1)
             D == CountedIn(text, b, current)
  <2>1. IsFiniteSet(C) /\ Cardinality(C) \in Nat
    BY <1>3, CountedFinite
  <2>2. current \notin C /\ b .. current = (b .. current - 1) \cup {current}
    BY <1>3 DEF CountedIn
  <2>3. CASE CountedAt(text, b, current)
    <3>1. D = C \cup {current}
      BY <2>2, <2>3 DEF CountedIn
    <3> HIDE DEF C, D
    <3>2. Cardinality(D) = Cardinality(C) + 1
      BY <2>1, <2>2, <3>1, FS_AddElement
    <3>3. current' - 1 = current /\ line \in Nat /\ lineno \in Nat
      BY <1>3 DEF TypeOK
    <3>4. lineno' = line + Cardinality(D)
      BY <1>3, <2>1, <2>3, <3>2, <3>3 DEF C
    <3>5. QED BY <1>3, <3>3, <3>4 DEF D
  <2>4. CASE ~CountedAt(text, b, current)
    <3>1. D = C
      BY <2>2, <2>4 DEF CountedIn
    <3> HIDE DEF C, D
    <3>2. current' - 1 = current
      BY <1>3 DEF TypeOK
    <3>3. lineno' = line + Cardinality(D)
      BY <1>3, <2>4, <3>1 DEF C
    <3>4. QED BY <1>3, <3>2, <3>3 DEF D
  <2>5. QED BY <2>3, <2>4
<1>4. QED BY <1>1, <1>2, <1>3 DEF Numbers

\* What is read behind a part counts for nothing.
LEMMA NoLineCounted ==
  ASSUME NEW t, NEW b \in Nat, NEW e \in Nat, NEW p \in Int, e <= p, NoLine(t, e + 1, p)
  PROVE  CountedIn(t, b, e) = CountedIn(t, b, p) /\ CountedIn(t, e + 1, p) = {}
<1>1. \A q \in b .. p : CountedAt(t, b, q) => q \in b .. e
  <2>1. SUFFICES ASSUME NEW q \in b .. p, q \notin b .. e PROVE ~CountedAt(t, b, q)
    OBVIOUS
  <2>2. q \in e + 1 .. p
    BY <2>1
  <2>3. QED BY <2>2 DEF NoLine, CountedAt
<1>2. \A q \in b .. e : q \in b .. p
  OBVIOUS
<1>3. \A q \in e + 1 .. p : ~CountedAt(t, e + 1, q)
  BY DEF NoLine, CountedAt
<1>4. QED BY <1>1, <1>2, <1>3 DEF CountedIn

\* The lines of the parts, the line of the part that is read, and the line count.
LineInv ==
  Plain(Segments(text)) =>
    LET S == Segments(text) IN
    /\ \A i \in 1 .. Len(S) : i <= Len(parts) => parts[i].line = Cardinality(LinesTo(S, i))
    /\ ~done => /\ line = Cardinality(LinesTo(S, Len(parts) + 1))
                /\ lineno = line + Cardinality(CountedIn(text, Here, current - 1))

LEMMA LineStarts == Init => LineInv
<1> SUFFICES ASSUME Init PROVE LineInv
  OBVIOUS
<1>1. text \in Seq(Chars)
  BY TextsAssumption DEF Init, Chars
<1>2. parts = <<>> /\ current = 1 /\ line = 0 /\ lineno = 0
  BY DEF Init
<1>3. StartsOf(text)[1] = 1 /\ Len(parts) = 0 /\ Len(Segments(text)) \in Nat
  BY <1>1, <1>2, LastSegment
<1>4. Here = 1
  BY <1>3 DEF Here
<1>5. LinesTo(Segments(text), Len(parts) + 1) = {}
  BY <1>3 DEF LinesTo
<1>6. CountedIn(text, Here, current - 1) = {}
  BY <1>2, <1>4 DEF CountedIn
<1>7. Cardinality({}) = 0
  BY FS_EmptySet
<1>8. /\ line = Cardinality(LinesTo(Segments(text), Len(parts) + 1))
      /\ lineno = line + Cardinality(CountedIn(text, Here, current - 1))
  <2>1. Cardinality(LinesTo(Segments(text), Len(parts) + 1)) = 0
    BY <1>5, <1>7, Zenon
  <2>2. Cardinality(CountedIn(text, Here, current - 1)) = 0
    BY <1>6, <1>7, Zenon
  <2>3. QED BY <1>2, <2>1, <2>2
<1>9. \A i \in 1 .. Len(Segments(text)) : ~(i <= Len(parts))
  BY <1>3
<1>10. QED BY <1>8, <1>9 DEF LineInv

LEMMA LineKeeps ==
  ASSUME text \in Seq(Chars), TypeOK, CutInv, LineInv, Next
  PROVE  LineInv'
<1> DEFINE S == Segments(text)
           n == Len(parts)
           b == Here
           Right(ps) == \A i \in 1 .. Len(S) : i <= Len(ps) => ps[i].line = Cardinality(LinesTo(S, i))
<1>1. text' = text /\ ~done
  BY DEF Next, InInit, OpensComment, OpensNoComment, InLineComment, InComment,
         InCommentStartEnd, InCode, InPreprocessor, EndOfText, Reads
<1>2. SUFFICES ASSUME Plain(S)
      PROVE  /\ Right(parts')
             /\ ~done' => /\ line' = Cardinality(LinesTo(S, Len(parts') + 1))
                          /\ lineno' = line' + Cardinality(CountedIn(text, Here', current' - 1))
  BY <1>1 DEF LineInv
<1>3. /\ parts \in Seq(Part) /\ n \in Nat /\ n <= Len(S) /\ At(b)
  BY <1>1, <1>2 DEF CutInv
<1>4. /\ Right(parts) /\ line = Cardinality(LinesTo(S, n + 1))
      /\ lineno = line + Cardinality(CountedIn(text, b, current - 1))
  BY <1>1, <1>2 DEF LineInv
<1>5. /\ Len(S) \in Nat /\ b \in 1 .. Len(text) + 1 /\ (b <= Len(text) <=> n + 1 <= Len(S))
      /\ b <= Len(text) => PlainFrom(text, b)
  BY <1>2, <1>3, InSegment
<1>6. /\ lineno' = line + Cardinality(CountedIn(text, b, current' - 1))
      /\ current' \in 1 .. Len(text) + 1
  <2> HIDE DEF b
  <2>1. QED BY <1>3, <1>4, <1>5, LineCounted
<1>7. \/ Moves(b) /\ done' = FALSE
      \/ b = Len(text) + 1 /\ done' = TRUE
           /\ parts' = Append(parts, [kind |-> "end", content |-> <<>>, line |-> line])
  <2> HIDE DEF b
  <2>1. QED BY <1>3, <1>5, Progress
<1>8. CASE parts' = parts /\ line' = line /\ done' = FALSE
  <2>1. Here' = b
    BY <1>1, <1>8 DEF Here
  <2> HIDE DEF b, S
  <2>2. QED BY <1>4, <1>6, <1>8, <2>1
<1>9. ASSUME NEW k, NEW c, parts' = Append(parts, [kind |-> k, content |-> c, line |-> line])
      PROVE  Len(parts') = n + 1 /\ Right(parts')
  <2> DEFINE p == [kind |-> k, content |-> c, line |-> line]
  <2>1. /\ Len(parts') = n + 1 /\ parts'[n + 1] = p /\ \A i \in 1 .. n : parts'[i] = parts[i]
    <3>1. parts' = Append(parts, p)
      BY <1>9
    <3> HIDE DEF p
    <3>2. QED BY <1>3, <3>1
  <2>2. p.line = line
    OBVIOUS
  <2> HIDE DEF p, n, S
  <2>3. ASSUME NEW i \in 1 .. Len(S), i <= n + 1 PROVE parts'[i].line = Cardinality(LinesTo(S, i))
    <3>1. CASE i = n + 1
      BY <1>4, <2>1, <2>2, <3>1
    <3>2. CASE i # n + 1
      <4>1. i \in 1 .. n /\ i <= Len(parts)
        BY <1>3, <1>5, <2>3, <3>2 DEF n
      <4>2. parts[i].line = Cardinality(LinesTo(S, i))
        BY <1>4, <4>1
      <4>3. QED BY <2>1, <4>1, <4>2
    <3>3. QED BY <3>1, <3>2
  <2>4. QED BY <2>1, <2>3
<1>10. CASE b = Len(text) + 1 /\ done' = TRUE
           /\ parts' = Append(parts, [kind |-> "end", content |-> <<>>, line |-> line])
  <2> HIDE DEF Right, b
  <2>1. QED BY <1>9, <1>10
<1>11. ASSUME NEW e \in b .. Len(text), Cut(text, b, e), line' = lineno', e < current',
              NoLine(text, e + 1, current' - 1), done' = FALSE,
              parts' = Append(parts, [kind |-> KindOf(SubSeq(text, b, e)), content |-> SubSeq(text, b, e), line |-> line])
       PROVE  /\ Right(parts')
              /\ line' = Cardinality(LinesTo(S, Len(parts') + 1))
              /\ lineno' = line' + Cardinality(CountedIn(text, Here', current' - 1))
  <2>1. n + 1 \in 1 .. Len(S)
    <3>1. b <= Len(text)
      BY <1>5, <1>11
    <3> HIDE DEF b, n, S
    <3>2. QED BY <1>3, <1>5, <3>1
  <2>2. StartsOf(text)[n + 1 + 1] = e + 1 /\ StartsOf(text)[n + 1] = b
    BY <1>3, <1>11, <2>1, CutIsSegment DEF Here
  <2>3. Len(parts') = n + 1 /\ Right(parts')
    <3> HIDE DEF Right, n
    <3>1. QED BY <1>9, <1>11
  <2>4. Here' = e + 1
    BY <1>1, <2>2, <2>3 DEF Here
  <2>5. /\ Cardinality(LinesTo(S, n + 1)) \in Nat
        /\ Cardinality(LinesTo(S, n + 1 + 1))
             = Cardinality(LinesTo(S, n + 1)) + Cardinality(CountedIn(text, b, e))
    <3>1. /\ Cardinality(LinesTo(S, n + 1)) \in Nat
          /\ Cardinality(LinesTo(S, n + 1 + 1)) = Cardinality(LinesTo(S, n + 1))
               + Cardinality(CountedIn(text, StartsOf(text)[n + 1], StartsOf(text)[n + 1 + 1] - 1))
      BY <2>1, LinesGrow
    <3>2. e + 1 - 1 = e
      BY <1>5, <1>11
    <3> HIDE DEF b, n, S
    <3>3. QED BY <2>2, <3>1, <3>2
  <2>6. CountedIn(text, b, e) = CountedIn(text, b, current' - 1) /\ CountedIn(text, e + 1, current' - 1) = {}
    <3> HIDE DEF b
    <3>1. Len(text) \in Nat
      OBVIOUS
    <3>2. current' \in Int
      BY <1>6, <3>1
    <3>3. b \in Nat /\ e \in Nat
      BY <1>5, <1>11, <3>1
    <3>4. b \in Nat /\ e \in Nat /\ current' - 1 \in Int /\ e <= current' - 1
      <4>1. e < current'
        BY <1>11, Zenon
      <4>2. \A x \in Nat, y \in Int : x < y => x <= y - 1 /\ y - 1 \in Int
        OBVIOUS
      <4>3. e \in Nat
        BY <3>3
      <4>4. e <= current' - 1 /\ current' - 1 \in Int
        BY <3>2, <4>1, <4>2, <4>3
      <4>5. QED BY <3>3, <4>4
    <3>5. NoLine(text, e + 1, current' - 1)
      BY <1>11, Zenon
    <3>6. QED BY <3>4, <3>5, NoLineCounted
  <2>7. Cardinality({}) = 0
    BY FS_EmptySet
  <2>8. line' = Cardinality(LinesTo(S, n + 1 + 1)) /\ line' \in Nat
    <3>1. Cardinality(CountedIn(text, b, e)) \in Nat
      <4>1. b \in Nat /\ e \in Int
        BY <1>5, <1>11
      <4>2. QED BY <4>1, CountedFinite
    <3>2. line' = line + Cardinality(CountedIn(text, b, e))
      BY <1>6, <1>11, <2>6
    <3>3. line = Cardinality(LinesTo(S, n + 1))
      BY <1>4
    <3> HIDE DEF b, n, S
    <3>4. QED BY <2>5, <3>1, <3>2, <3>3
  <2> HIDE DEF b, n, S, Right
  <2>9. Cardinality(CountedIn(text, Here', current' - 1)) = 0
    BY <2>4, <2>6, <2>7, Zenon
  <2>10. line' = Cardinality(LinesTo(S, Len(parts') + 1))
    BY <2>3, <2>8, Zenon
  <2>11. lineno' = line' + Cardinality(CountedIn(text, Here', current' - 1))
    <3>1. lineno' = line'
      BY <1>11, Zenon
    <3>2. QED BY <2>8, <2>9, <3>1
  <2>12. QED BY <2>3, <2>10, <2>11
<1>12. CASE Moves(b) /\ done' = FALSE
  <2>1. \/ parts' = parts /\ line' = line
        \/ \E e \in b .. Len(text) :
             /\ Cut(text, b, e) /\ line' = lineno' /\ e < current' /\ NoLine(text, e + 1, current' - 1)
             /\ parts' = Append(parts, [kind |-> KindOf(SubSeq(text, b, e)), content |-> SubSeq(text, b, e), line |-> line])
    BY <1>12 DEF Moves
  <2> HIDE DEF n, S, Right, b
  <2>2. QED BY <1>8, <1>11, <1>12, <2>1
<1>13. QED BY <1>7, <1>10, <1>12

\* The line that is reported with a part, and with every error in it, is the number
\* of counted newlines in the segments before it: for every plain text, neither
\* directives nor comments that go over several lines shift the lines behind them.
THEOREM LinesAreRight == Spec => []LineOfPart
<1> DEFINE I == text \in Seq(Chars) /\ PartyInv /\ CutInv /\ LineInv /\ Len(text) \in Nat
<1>1. Init => I
  BY Starts, CutStarts, LineStarts, TextsAssumption DEF Init, Chars
<1>2. I /\ [Next]_vars => I'
  <2> SUFFICES ASSUME I, [Next]_vars PROVE I'
    OBVIOUS
  <2>1. PartyInv' /\ Len(text') \in Nat
    BY Keeps
  <2>2. CASE Next
    <3>1. text' = text
      BY <2>2, CountersStay DEF PartyInv
    <3>2. CutInv' /\ LineInv'
      BY <2>2, CutKeeps, LineKeeps DEF PartyInv
    <3>3. QED BY <2>1, <3>1, <3>2
  <2>3. CASE UNCHANGED vars
    <3>1. text' = text /\ CutInv' /\ LineInv'
      BY <2>3 DEF vars, CutInv, LineInv, At, Here
    <3>2. QED BY <2>1, <3>1
  <2>4. QED BY <2>2, <2>3
<1>3. I => LineOfPart
  <2> SUFFICES ASSUME I, done, Plain(Segments(text)), NEW i \in DOMAIN Segments(text)
      PROVE  parts[i].line
               = Cardinality(UNION {{j} \X Counted(Segments(text)[j]) : j \in 1 .. i - 1})
    BY DEF LineOfPart
  <2>1. Len(Segments(text)) \in Nat /\ DOMAIN Segments(text) = 1 .. Len(Segments(text))
    BY LastSegment
  <2>2. i \in 1 .. Len(Segments(text)) /\ i <= Len(parts)
    BY <2>1 DEF CutInv
  <2>3. parts[i].line = Cardinality(LinesTo(Segments(text), i))
    BY <2>2 DEF LineInv
  <2>4. QED BY <2>3 DEF LinesTo
<1>4. QED BY <1>1, <1>2, <1>3, PTL DEF Spec
=============================================================================
