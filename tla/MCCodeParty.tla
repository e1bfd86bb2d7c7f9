---------------------------- MODULE MCCodeParty ----------------------------
EXTENDS CodeParty

CONSTANT MaxLen

Chars == {"/", "*", "#", "x", Newline, Backslash, Return}

AllTexts == UNION {[1 .. n -> Chars] : n \in 0 .. MaxLen}

\* Longer ones over fewer characters: comments around code, continued lines.
LongTexts ==
  AllTexts
    \cup [1 .. MaxLen + 2 -> {"/", "*", "x", Newline}]
    \cup [1 .. MaxLen + 1 -> {"#", "/", "x", Newline, Backslash}]
=============================================================================
