SPECIFICATION Spec
CONSTANTS
  Obj = {o1, v1}
  ByValue = {v1}
  Ptr = {p1, p2}
  Cell = {c1}
  MaxDepth = 1
  MaxRef = 3
  NULL = NULL
  Ops <- ReadAttribute
SYMMETRY Symmetric
INVARIANT Balanced
CHECK_DEADLOCK FALSE
