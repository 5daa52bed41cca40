SPECIFICATION Spec
CONSTANTS
  Thread = {t1, t2}
  Environment <- Environments
  None = None
INVARIANT InitialisedOnce TrueMeansReady
PROPERTY AutoloadEnds
