CONSTANTS
  Nodes = {n1, n2, n3, n4, n5}
  Null = Null
SPECIFICATION AstSpec
SYMMETRY Symmetry
INVARIANTS
  TypeOK
  SiblingLinks
  ChildListsAgree
  Acyclic
  ListEnds
  TraversalExact
  FindByName
  EachNodeOnce
PROPERTIES
  AddChildrenIsItsLoop
  ImplementsForest
CHECK_DEADLOCK FALSE
