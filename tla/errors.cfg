SPECIFICATION SpecP
CONSTANTS
  MaxDepth = 4
  Programs <- Considered
INVARIANT TypeOK IndicatorClear NameRestored ContextsClosed
PROPERTY ErrorsReported PythonResumed ExitPaired LoopsRunToTheEnd
