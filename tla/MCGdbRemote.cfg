\* Three calls, two damaged packets.
SPECIFICATION Spec
CONSTANTS
  Calls <- Calls_
  NoCall <- NoCall_
  MemSize = 5
  MTU = 2
  MaxCalls = 3
  MaxBad = 2
PROPERTY ImplementsReference
CHECK_DEADLOCK FALSE
