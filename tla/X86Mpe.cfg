SPECIFICATION MpeSpec
CONSTANTS
  NCpu = 3
INVARIANT StartsInOrder
PROPERTIES AllEnter 
CHECK_DEADLOCK FALSE
