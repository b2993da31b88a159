CONSTANTS
  KEY_QUEUE_LEN = 3
  KEYDOWN_MASK = 2
  AM_KEY_NONE = 0
  Scancode = {4, 200, 257}
  KEYMAP_LEN = 256
  Behind = {0, 2}
  keymap <- MCkeymap
  EventBound = 4
SPECIFICATION Spec
PROPERTIES ImplementsDropFifo KeysArrive
CHECK_DEADLOCK FALSE
