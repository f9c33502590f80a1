SPECIFICATION Spec
CONSTANTS
  Faults = {0, 8, 14, 21}
  ErrorCodes = {0, 5}
  Turns = 2
INVARIANTS TypeOK FrameMatches GateOrStop
PROPERTIES ContextKept HaltIsFinal TicksGoOn
CHECK_DEADLOCK FALSE
