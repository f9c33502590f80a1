SPECIFICATION Spec
CONSTANTS
  Keys = {42, 54, 16, 30}
  BufSize = 3
  QueueSize = 3
  MaxTyped = 5
INVARIANTS TypeOK RingHasRoom ShiftIsHeld
PROPERTIES ImplementsStream WaiterIsServed
