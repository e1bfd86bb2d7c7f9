----------------------------- MODULE MCContexts -----------------------------
EXTENDS Contexts, TLC

\* The files at the ends of the includes say less.
Statements == [c \in Contexts |-> IF c <= 2 THEN 1 ELSE 2]

Symmetry == Permutations(Packages)
=============================================================================
