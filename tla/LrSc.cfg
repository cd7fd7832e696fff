CONSTANTS
  Addrs = {a1, a2}
  Tasks = {t1, t2}
  W = 3
  NONE = NONE
  MaxLr = 2
SPECIFICATION Spec
INVARIANTS OneScPerLr LastLrIsAnswered
