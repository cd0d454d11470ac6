\* A command that writes faster than it is read.
SPECIFICATION Spec
CONSTANTS
  PipeCap = 2
  Buffer = 2
  Limit = 3
  Floods = TRUE
  MaxBurst = 3
PROPERTY TimeoutBounds
CHECK_DEADLOCK FALSE
