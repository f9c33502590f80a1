SPECIFICATION Spec
CONSTANTS
  Keys = {42, 16, 30}
  BufSize = 3
  QueueSize = 3
  MaxTyped = 6
PROPERTIES NoKeyIgnored
