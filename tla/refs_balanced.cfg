SPECIFICATION SpecB
CONSTANTS
  Obj = {o1, v1}
  ByValue = {v1}
  Ptr = {p1, p2}
  Cell = {c1}
  MaxDepth = 3
  MaxRef = 2
  NULL = NULL
  Ops <- BalancedOps
SYMMETRY Symmetric
INVARIANT TypeOK Balanced NoUseAfterFree NoStrayLocals
