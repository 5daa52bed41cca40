SPECIFICATION FairSpec
CONSTANTS
  Thread = {main, t1}
  Main = main
  ExtraFiber = {f1}
  Collectors = {main, t1}
  FiberInBlock = FALSE
  MaxFrames = 3
  None = None
INVARIANT NoLockCycle
CHECK_DEADLOCK FALSE
