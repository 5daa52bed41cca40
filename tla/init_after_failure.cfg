SPECIFICATION Spec
CONSTANTS
  Thread = {t1}
  Environment <- Environments
  None = None
INVARIANT FalseMeansReady
