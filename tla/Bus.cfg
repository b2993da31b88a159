CONSTANTS
  AddrSpace = 16
  MBASE = 8
  MSIZE = 4
  PAGE_SIZE = 2
  IO_SPACE_MAX = 8
  NR_MAP = 2
  MaxRegion = 4
  Lens = {1, 2}
SPECIFICATION Spec
INVARIANTS Exclusive ServedByOwner InIoSpace OwnSpace
CHECK_DEADLOCK FALSE
