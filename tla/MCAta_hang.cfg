SPECIFICATION Spec
CONSTANTS
  Sectors <- MCSectors
  SectorWords = 2
  Values = {0, 1}
  MaxCount = 2
  DriveFaults = {"hang"}
PROPERTIES CallAlwaysReturns
CHECK_DEADLOCK FALSE
