SPECIFICATION Spec
CONSTANTS
  Slot = {r1, r2, r3}
  PyRuby = {w1, w2}
  MaxHolders = 2
  Cycles = FALSE
  None = None
INVARIANT GuardedWhileReferenced GuardForgets TableNotMisused
PROPERTY GarbageIsFreed
CHECK_DEADLOCK FALSE
