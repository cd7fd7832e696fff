CONSTANTS
  NONE = NONE
  ADDR = 8
  Garbage = {2}
  W = 2
  WFI_STEP = 1
  MaxUs = 1
  Images <- LockstepImages
  Compared <- ComparedImages
SPECIFICATION LSpec
INVARIANT LockstepAgrees
PROPERTIES SretReturns TrapNeverLowersPrivilege
CHECK_DEADLOCK FALSE
