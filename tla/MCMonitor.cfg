CONSTANTS
  INF = INF
  NONE = NONE
  W = 4
  Args <- MCArgs
SPECIFICATION FairSpec
INVARIANTS TypeOK CloseStopsWithinOne StopMeansDone BatchExitStatus
PROPERTIES EndedNeverRuns ClosingStops
CHECK_DEADLOCK FALSE
