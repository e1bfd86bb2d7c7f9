CONSTANTS
  root = root
  a = a
  b = b
  k = k
  v1 = v1
  v2 = v2
  empty = empty
  Files = {root, a, b}
  Root = root
  Keys = {k}
  Values = {v1, v2, empty}
  Empty = empty
  Undefined = Undefined
  Texts <- Layered
  MaxPrograms = 10
SPECIFICATION Spec
INVARIANTS
  TypeOK
  DefinesFlowUp
  ChildrenMirrorText
  BottomUp
  VerdictIsRight
PROPERTY LoadReturns
CHECK_DEADLOCK FALSE
