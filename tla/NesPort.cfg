SPECIFICATION Spec
CONSTANTS
  None = None
  mirroring = 1
  Values = {39, 48, 255}
  MaxAccesses = 7
INVARIANT MirrorsAgree
PROPERTY ImplementsVideoPort
CHECK_DEADLOCK FALSE
