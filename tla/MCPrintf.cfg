SPECIFICATION Spec
CONSTANTS
  IntBits = 4
  LongBits = 7
  BufSize = 3
  Programs <- MCPrograms
INVARIANTS TypeOK PrintsItsText
PROPERTIES PrintReturns
CHECK_DEADLOCK FALSE
