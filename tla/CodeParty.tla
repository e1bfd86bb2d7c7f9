----------------------------- MODULE CodeParty -----------------------------
(***************************************************************************)
(* azer/afx/preprocessor/tokenizer.cc: CodeParty (the name is the code's)  *)
(* cuts a source text into code, comments and preprocessor lines.  It is a *)
(* state machine over single characters; two of its states exist because a *)
(* "/" or a "*" can only be judged with the character behind it, and what  *)
(* is judged too late is carried over to the next part in rest_.           *)
(*                                                                         *)
(* The caller asks for the next part until there is none.  One step here   *)
(* is one character of the loop in GetNextToken; a step that returns a     *)
(* part also begins the next call.                                         *)
(***************************************************************************)
EXTENDS Naturals, Sequences, FiniteSets, SequencesExt

CONSTANT Texts   \* the source texts, sequences of characters

ASSUME TextsAssumption == \A t \in Texts : t \in Seq(STRING)

Newline == "\n"
Return == "\r"
Backslash == "\\"

VARIABLES
  text,         \* code_
  current,      \* current_, the index of the next character
  prev,         \* the character before it in this call
  content,      \* what the part has so far
  rest,         \* rest_
  status,       \* status_
  prev_status,  \* prev_status_
  lineno,       \* lineno_
  line,         \* prev_lineno_: lineno_ when the call began
  parts,        \* what the calls have returned
  done          \* kEndPart has been returned

vars == <<text, current, prev, content, rest, status, prev_status, lineno, line, parts, done>>

Init ==
  /\ text \in Texts
  /\ current = 1 /\ prev = ""
  /\ content = <<>> /\ rest = <<>>
  /\ status = "init" /\ prev_status = "notSpecified"
  /\ lineno = 0 /\ line = 0
  /\ parts = <<>>
  /\ done = FALSE

----------------------------------------------------------------------------
Char == text[current]

EnterStatus(s) ==
  /\ status' = s
  /\ prev_status' = IF status = "commentStartBegin" THEN prev_status ELSE status

GetLexForState(s) ==
  CASE s \in {"lineComment", "comment"} -> "comment"
    [] s = "preprocessor" -> "preprocessor"
    [] s = "end" -> "end"
    [] s = "code" -> "code"
    [] OTHER -> "unmatched"

\* The loop reads a character in the given state.
Reads(s) ==
  /\ ~done
  /\ current <= Len(text)
  /\ status = s
  /\ current' = current + 1
  /\ UNCHANGED <<text, done>>

\* The part goes on.
GoesOn(c, r) ==
  /\ content' = c /\ rest' = r
  /\ prev' = Char
  /\ UNCHANGED <<line, parts>>

\* The part is returned, and the next one begins with what was carried over.
Returns(kind, c, r) ==
  /\ parts' = Append(parts, [kind |-> kind, content |-> c, line |-> line])
  /\ content' = r /\ rest' = <<>>
  /\ prev' = ""
  /\ line' = lineno'

CountsLines == lineno' = IF Char = Newline THEN lineno + 1 ELSE lineno

\* Mutant of InInit: a "#" is code.
InInitSeesNoDirective ==
  /\ Reads("init")
  /\ UNCHANGED lineno
  /\ EnterStatus(IF Char = "/" THEN "commentStartBegin" ELSE "code")
  /\ GoesOn(Append(content, Char), rest)

\* kInit.  (A newline is not counted.)
InInit ==
  /\ Reads("init")
  /\ UNCHANGED lineno
  /\ EnterStatus(CASE Char = "/" -> "commentStartBegin"
                   [] Char = "#" -> "preprocessor"
                   [] OTHER -> "code")
  /\ GoesOn(Append(content, Char), rest)

\* kCommentStartBegin: a comment begins; what was before it is returned first.
OpensComment ==
  /\ Reads("commentStartBegin")
  /\ UNCHANGED lineno
  /\ Char \in {"/", "*"}
  /\ EnterStatus(IF Char = "/" THEN "lineComment" ELSE "comment")
  /\ IF prev_status \notin {"notSpecified", "init"}
     THEN Returns(GetLexForState(prev_status), content, Append(rest, Char))
     ELSE GoesOn(Append(content, Char), rest)

\* Mutant of OpensNoComment: rest_ is not cleared.
OpensNoCommentKeepsRest ==
  /\ Reads("commentStartBegin")
  /\ CountsLines
  /\ Char \notin {"/", "*"}
  /\ EnterStatus(prev_status)
  /\ GoesOn(content \o rest \o <<Char>>, rest)

\* kCommentStartBegin: it was only a "/".
OpensNoComment ==
  /\ Reads("commentStartBegin")
  /\ CountsLines
  /\ Char \notin {"/", "*"}
  /\ EnterStatus(prev_status)
  /\ GoesOn(content \o rest \o <<Char>>, <<>>)

InLineComment ==
  /\ Reads("lineComment")
  /\ CountsLines
  /\ IF Char = Newline
     THEN EnterStatus("init") /\ Returns("comment", Append(content, Char), rest)
     ELSE GoesOn(Append(content, Char), rest) /\ UNCHANGED <<status, prev_status>>

InComment ==
  /\ Reads("comment")
  /\ CountsLines
  /\ IF Char = "*" THEN EnterStatus("commentStartEnd") ELSE UNCHANGED <<status, prev_status>>
  /\ GoesOn(Append(content, Char), rest)

\* kCommentStartEnd.  (A newline behind a "*" is not counted.)
InCommentStartEnd ==
  /\ Reads("commentStartEnd")
  /\ UNCHANGED lineno
  /\ CASE Char = "/" -> EnterStatus("init") /\ Returns("comment", Append(content, Char), rest)
       [] Char = "*" -> GoesOn(Append(content, Char), rest) /\ UNCHANGED <<status, prev_status>>
       [] OTHER -> GoesOn(Append(content, Char), rest)
                     /\ status' = "comment" /\ UNCHANGED prev_status

InCode ==
  /\ Reads("code")
  /\ CountsLines
  /\ CASE Char = "#" -> EnterStatus("preprocessor") /\ Returns("code", content, Append(rest, Char))
       [] Char = "/" -> EnterStatus("commentStartBegin") /\ GoesOn(content, Append(rest, Char))
       [] OTHER -> GoesOn(Append(content, Char), rest) /\ UNCHANGED <<status, prev_status>>

\* Mutant of InPreprocessor: the newlines of a continued line are not counted.
InPreprocessorCountsOnce ==
  /\ Reads("preprocessor")
  /\ lineno' = IF Char = Newline /\ prev # Backslash THEN lineno + 1 ELSE lineno
  /\ CASE Char = Newline /\ prev # Backslash ->
            EnterStatus("init") /\ Returns("preprocessor", Append(content, Char), rest)
       [] Char = "/" ->
            EnterStatus("commentStartBegin") /\ GoesOn(Append(content, Char), Append(rest, Char))
       [] OTHER ->
            GoesOn(IF Char = Return THEN content ELSE Append(content, Char), rest)
              /\ UNCHANGED <<status, prev_status>>

\* kPreprocessor.  A "/" goes both into the part and into rest_.
InPreprocessor ==
  /\ Reads("preprocessor")
  /\ CountsLines
  /\ CASE Char = Newline /\ prev # Backslash ->
            EnterStatus("init") /\ Returns("preprocessor", Append(content, Char), rest)
       [] Char = "/" ->
            EnterStatus("commentStartBegin") /\ GoesOn(Append(content, Char), Append(rest, Char))
       [] OTHER ->
            GoesOn(IF Char = Return THEN content ELSE Append(content, Char), rest)
              /\ UNCHANGED <<status, prev_status>>

\* Behind the last character: what is left is returned, then kEndPart.
EndOfText ==
  /\ ~done
  /\ current > Len(text)
  /\ UNCHANGED <<text, current, lineno>>
  /\ IF content # <<>> /\ status = "end" THEN UNCHANGED <<status, prev_status>> ELSE EnterStatus("end")
  /\ LET ends == content = <<>> \/ status = "end" IN
     /\ Returns(IF ends THEN "end" ELSE GetLexForState(prev_status'), content, rest)
     /\ done' = ends

Next ==
  \/ InInit \/ OpensComment \/ OpensNoComment \/ InLineComment \/ InComment
  \/ InCommentStartEnd \/ InCode \/ InPreprocessor \/ EndOfText

Spec == Init /\ [][Next]_vars

----------------------------------------------------------------------------
\* What the text itself says: it falls into segments of four kinds.

StartsWith(s, p) == Len(s) >= Len(p) /\ SubSeq(s, 1, Len(p)) = p

\* s ends at i: a newline that no backslash precedes.
EndsLine(s, i) == s[i] = Newline /\ (i = 1 \/ s[i - 1] # Backslash)
OpensAt(s, i) == i < Len(s) /\ s[i] = "/" /\ s[i + 1] \in {"/", "*"}
ClosesAt(s, i) == i > 3 /\ s[i] = "/" /\ s[i - 1] = "*"

IsLineComment(s) == StartsWith(s, <<"/", "/">>)
IsBlockComment(s) == StartsWith(s, <<"/", "*">>)
IsComment(s) == IsLineComment(s) \/ IsBlockComment(s)
IsDirective(s) == StartsWith(s, <<"#">>)

\* The segment s may not go on, or may only end, at i.
MustEnd(s, i) ==
  CASE IsLineComment(s) -> s[i] = Newline
    [] IsBlockComment(s) -> ClosesAt(s, i)
    [] IsDirective(s) -> EndsLine(s, i) \/ OpensAt(s, i + 1)
    [] OTHER -> OpensAt(s, i + 1) \/ (i < Len(s) /\ s[i + 1] = "#")

\* The length of the segment with which s, not empty, begins.
SegmentLength(s) ==
  IF \E i \in DOMAIN s : MustEnd(s, i)
  THEN CHOOSE i \in DOMAIN s : MustEnd(s, i) /\ \A j \in 1 .. i - 1 : ~MustEnd(s, j)
  ELSE Len(s)

Segments(t) ==
  LET from[i \in 1 .. Len(t) + 1] ==
        IF i > Len(t) THEN <<>>
        ELSE LET s == SubSeq(t, i, Len(t))
             IN  <<SubSeq(s, 1, SegmentLength(s))>> \o from[i + SegmentLength(s)]
  IN  from[1]

KindOf(s) == IF IsComment(s) THEN "comment" ELSE IF IsDirective(s) THEN "preprocessor" ELSE "code"

\* What the machine is not made for: a preprocessor line with a "/" in it (that
\* of a comment, too) or with a carriage return, code that begins or ends with a
\* "/", a text that ends behind a "*" in a comment.
Plain(segments) ==
  /\ \A i \in DOMAIN segments :
       LET s == segments[i] IN
       /\ IsDirective(s) =>
            /\ ToSet(s) \cap {"/", Return} = {}
            /\ i < Len(segments) => EndsLine(s, Len(s))
       /\ KindOf(s) = "code" => s[1] # "/" /\ Last(s) # "/"
       /\ IsBlockComment(s) => ClosesAt(s, Len(s)) \/ Last(s) # "*" \/ Len(s) = 2

----------------------------------------------------------------------------
\* Properties.

States == {"init", "commentStartBegin", "lineComment", "comment", "commentStartEnd",
           "code", "preprocessor", "end"}

\* rest_ carries over one character, and only where a "/" is not decided yet.
TypeOK ==
  /\ current \in 1 .. Len(text) + 1
  /\ status \in States
  /\ prev_status \in States \cup {"notSpecified"}
  /\ rest \in {<<>>, <<"/">>}
  /\ rest # <<>> => status = "commentStartBegin"
  /\ lineno \in 0 .. current - 1
  /\ line \in 0 .. lineno

\* Every plain text is cut into its segments, each with its kind, whatever order
\* they come in; nothing is added and nothing is lost between them.
CutIntoSegments ==
  done =>
    LET segments == Segments(text) IN
    Plain(segments) =>
      /\ Len(parts) = Len(segments) + 1
      /\ \A i \in DOMAIN segments :
           parts[i].content = segments[i] /\ parts[i].kind = KindOf(segments[i])

Newlines(s) == {i \in DOMAIN s : s[i] = Newline}

\* The newlines of a segment that are not counted, and the others.
Uncounted(s) ==
  {i \in Newlines(s) :
     \/ KindOf(s) = "code" /\ i = 1
     \/ IsBlockComment(s) /\ s[i - 1] = "*" /\ i > 3}

Counted(s) == Newlines(s) \ Uncounted(s)

\* The line reported with a part (and with every error in it) is the number of
\* newlines before it, short of those that open a code part or follow a "*" in
\* a comment: directives and comments that go over several lines do not shift it.
LineOfPart ==
  done =>
    LET segments == Segments(text) IN
    Plain(segments) =>
      \A i \in DOMAIN segments :
        parts[i].line = Cardinality(UNION {{j} \X Counted(segments[j]) : j \in 1 .. i - 1})

\* "party the code into three part(code, comments and preprocessor)"
\* (tokenizer.h): the parts, put together again, are the text.
PartsAreTheText ==
  done => FlattenSeq([i \in DOMAIN parts |-> parts[i].content]) = text
=============================================================================
