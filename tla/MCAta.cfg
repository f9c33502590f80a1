SPECIFICATION Spec
CONSTANTS
  Sectors <- MCSectors
  SectorWords = 2
  Values = {0, 1}
  MaxCount = 2
  DriveFaults = {"early", "fault", "late", "hang"}
INVARIANTS TypeOK ProtocolKept
PROPERTIES ImplementsBlockDev CallReturns
CHECK_DEADLOCK FALSE
