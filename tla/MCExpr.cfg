CONSTANTS
  W = 256
  NR_TOKENS = 11
  Trees <- AllTrees
  Typos <- SmallTypos
  Mem <- SmallMem
  Regs <- SmallRegs
SPECIFICATION Spec
INVARIANT SupportedValueIsC
CHECK_DEADLOCK FALSE
