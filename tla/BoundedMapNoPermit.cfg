\* max_concurrency = 0: chat_many passes bounded_map a limit of 0.
CONSTANTS
  N = 1
  Limit = 0
  None = None
  MaxService = 1
  LoopLag = FALSE
  MaxNow = 2
SPECIFICATION FairSpec
PROPERTY BatchEnds
