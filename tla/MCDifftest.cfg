CONSTANTS
  Builds = {TRUE, FALSE}
  G = 8
  P = 3
  TOL = 1
  Errors <- MCErrors
SPECIFICATION Spec
INVARIANTS DriftIsBounded SkipsAreDead
CHECK_DEADLOCK FALSE
