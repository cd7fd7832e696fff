CONSTANTS
  sA = sA
  sB = sB
  sX = sX
  kA = kA
  kB = kB
  NONE = NONE
  Scancodes <- MCScancodes
  Keys <- MCKeys
  keymap <- MCkeymap
  KEY_QUEUE_LEN = 4
SPECIFICATION Spec
INVARIANT PendingAreCodes
PROPERTY ImplementsFifo
CHECK_DEADLOCK FALSE
