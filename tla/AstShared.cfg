CONSTANTS
  Nodes = {n1, n2, n3}
  Null = Null
SPECIFICATION AstSpec
SYMMETRY Symmetry
INVARIANTS
  TraverseAssertion
CHECK_DEADLOCK FALSE
