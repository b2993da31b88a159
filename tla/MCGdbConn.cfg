SPECIFICATION GdbSpec
CONSTANTS
  Addr = {0, 1, 2}
  Datum = {1, 2}
  NrReg = 2
  RegVal = {0, 165}
  mtu = 2
  MaxCalls = 2
  MaxExec = 2
  MaxFaults = 2
  Noise = {36, 42, 125, 97}
INVARIANTS ReplyIntact RefInStep
PROPERTY CallsReturn
CHECK_DEADLOCK FALSE
