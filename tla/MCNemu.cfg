CONSTANTS
  KEY_QUEUE_LEN = 3
  KEYDOWN_MASK = 8
  NEMU_KEY_NONE = 0
  Scancode <- MCScancode
  keymap <- MCkeymap
  UINT64 = 4
  PMEM_WORDS = 3
  HaltRets = {0, 1}
  CONFIG_DEVICE = TRUE
  CONFIG_ITRACE = TRUE
  EventBound = 4
SPECIFICATION FairSpec
INVARIANTS SteppedExactly AtMostOneAfterQuit PromptEventsDiscarded BatchVerdict
PROPERTIES EndedIsFinal CommandTerminates ImplementsFifo
