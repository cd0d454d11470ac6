\* A command that pauses between its writes.
SPECIFICATION Spec
CONSTANTS
  PipeCap = 2
  Buffer = 2
  Limit = 3
  Floods = FALSE
  MaxBurst = 3
INVARIANT SuccessIsReal
INVARIANT CaptureExact
INVARIANT NothingLeftRunning
PROPERTY TimeoutBounds
CHECK_DEADLOCK FALSE
