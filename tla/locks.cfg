SPECIFICATION FairSpec
CONSTANTS
  Thread = {main, t1}
  Main = main
  ExtraFiber = {f1}
  Collectors = {main, t1}
  FiberInBlock = FALSE
  MaxFrames = 5
  None = None
INVARIANT TypeOK RubyHasGVL PythonHasGIL ReleasedMeansReleased KeptOutsideBlocks
CHECK_DEADLOCK FALSE
PROPERTY Responsive
