SPECIFICATION Spec
CONSTANTS
  Obj = {o1, v1}
  ByValue = {v1}
  Ptr = {p1, p2}
  Cell = {c1}
  MaxDepth = 2
  MaxRef = 2
  NULL = NULL
  Ops <- AllOps
SYMMETRY Symmetric
INVARIANT Owned
PROPERTY  LeaksStay
CHECK_DEADLOCK FALSE
