CONSTANTS
  ProgLen = 5
  RegVals = 3
  MaxPack = 3
  Margin = 1
  ChecksRegs = TRUE
SPECIFICATION Spec
INVARIANTS InSync NoFalseAlarm TrapReported
PROPERTY DetectsAtOnce
CHECK_DEADLOCK FALSE
