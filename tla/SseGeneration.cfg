SPECIFICATION Spec
CONSTANTS
  Clients = {c1}
  Questions = {q1}
  Capacity = 1
  MaxSequence = 3
  MaxGeneration = 3
  MaxFaults = 1
  MaxUnread = 1
  MaxLoads = 1
INVARIANTS
  CursorBoundToGeneration
CHECK_DEADLOCK FALSE
