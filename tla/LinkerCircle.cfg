CONSTANTS
  root = root
  a = a
  b = b
  k = k
  v1 = v1
  v2 = v2
  empty = empty
  Files = {root, a, b}
  Root = root
  Keys = {k}
  Values = {v1, v2, empty}
  Empty = empty
  Undefined = Undefined
  Texts <- Tangled
  MaxPrograms = 6
SPECIFICATION Spec
INVARIANT CircularIncludeRefused
CHECK_DEADLOCK FALSE
