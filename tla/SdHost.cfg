CONSTANTS
  Sectors = 3
  BlockWords = 2
  WordBytes = 2
  MaxBlocks = 2
SPECIFICATION Spec
INVARIANTS ReadsCard WritesCard DoneOnce StopWhenNeeded
PROPERTY RequestAnswered
