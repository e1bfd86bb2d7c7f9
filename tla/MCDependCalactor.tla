-------------------------- MODULE MCDependCalactor --------------------------
EXTENDS DependCalactor

CONSTANTS main, f, g, v, a, b, u, c1, c2, s

SeqsUpTo(S, n) == UNION {[1 .. i -> S] : i \in 0 .. n}

References(mains, fs, gs, vs) ==
  {[e \in {main, f, g, v} |->
      CASE e = main -> r[1] [] e = f -> r[2] [] e = g -> r[3] [] e = v -> r[4]] :
     r \in mains \X fs \X gs \X vs}

\* Calls in circles, a declaration "a, b" with and without a call in between, a
\* uniform declaration "c1, c2".
AllSources ==
  References(SeqsUpTo({f, g, a, b, c1}, 2),
             SeqsUpTo({main, g, c1}, 2) \cup {<<f>>, <<b, g>>, <<c2>>},
             SeqsUpTo({f, c2, s}, 1),
             {<<a, b>>, <<a, g, b>>})

\* Only main and f refer to anything but themselves, nothing to a uniform, and "a" is
\* declared alone.
PlainSources ==
  References(SeqsUpTo({f, g, a, s}, 2), SeqsUpTo({g, a}, 1), {<<>>}, {<<a>>})

Declarations == [x \in Symbols |-> IF x \in {a, b} THEN v ELSE u]

\* Everything has a name of its own.
OwnNames == [x \in Referables |-> x]
=============================================================================
