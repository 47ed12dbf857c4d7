CONSTANTS
  N = 5
  Limit = 2
  None = None
  MaxService = 2
  LoopLag = FALSE
  MaxNow = 8
SPECIFICATION FairSpec
INVARIANTS WaveModel
PROPERTY BatchEnds
