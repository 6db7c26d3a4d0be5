CONSTANT MaxLoop = 1
SPECIFICATION Spec
INVARIANTS
  TypeOK
  NoLostWakeup
  RunningHasSound
  BreakBoundsExecution
PROPERTIES
  BreakParks
  ContinueRuns
