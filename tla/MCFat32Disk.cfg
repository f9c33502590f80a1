SPECIFICATION Spec
CONSTANTS
  Geometry <- MCGeometry
  Sectors <- MCSectors
  Cells <- MCCells
  SlotIds <- MCSlotIds
  TypedNames <- MCTypedNames
  Disks <- MCDisks
  Junk <- MCJunk
  MaxWrites = 2
  MaxFailed = 1
INVARIANTS TypeOK ListedIsFound AnswersToItsName
PROPERTIES ImplementsVolume
CHECK_DEADLOCK FALSE
