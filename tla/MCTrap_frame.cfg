SPECIFICATION Spec
CONSTANTS
  Faults = {14}
  ErrorCodes = {0, 5}
  Turns = 2
INVARIANTS FrameWhole
CHECK_DEADLOCK FALSE
