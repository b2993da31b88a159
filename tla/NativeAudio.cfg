CONSTANTS
  AudioLen = 8
  Chunk = 3
  PipeSize = 5
  StreamLen = 3
SPECIFICATION Spec
PROPERTY WaitEnds
CHECK_DEADLOCK FALSE
