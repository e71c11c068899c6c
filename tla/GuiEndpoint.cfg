CONSTANTS
  MaxPipe = 2
  MaxTimers = 2
SPECIFICATION Spec
INVARIANTS TypeOK IdleIsShown WindowAgrees
PROPERTY StopEnds
CHECK_DEADLOCK FALSE
