----------------------------- MODULE MCAstNode -----------------------------
EXTENDS AstNode

Symmetry == Permutations(Nodes)
=============================================================================
