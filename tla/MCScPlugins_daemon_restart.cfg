CONSTANTS
  Objects = {o1}
  MaxVpp = 3
  MaxStarts = 2
SPECIFICATION Spec
CHECK_DEADLOCK FALSE
INVARIANT ReplayRestoresRunning
