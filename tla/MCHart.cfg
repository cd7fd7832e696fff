CONSTANTS
  NONE = NONE
  ADDR = 8
  Garbage = {2}
  W = 2
  WFI_STEP = 1
  Images <- HartImages
SPECIFICATION FairSpec
INVARIANTS TypeOK DueTimerPending ExceptionsDoNotLeak
PROPERTIES MretReturns HandlerNotPreempted NextPcIsDefined WritebackTrapsOnlyMisaligned KeepsRetiring
CHECK_DEADLOCK FALSE
