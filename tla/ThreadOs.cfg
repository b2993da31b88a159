CONSTANTS
  NCPU = 2
  NTASK = 4
  MAX_CPU = 2
  has_ioe = TRUE
SPECIFICATION FairSpec
INVARIANTS TaskOnOneCpu MutualExclusion EntersAfterIoe
PROPERTIES LockMoves EveryTaskRuns
