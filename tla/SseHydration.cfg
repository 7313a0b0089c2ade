SPECIFICATION Spec
CONSTANTS
  Clients = {c1}
  Questions = {q1}
  Capacity = 1
  MaxSequence = 3
  MaxGeneration = 2
  MaxFaults = 1
  MaxUnread = 1
  MaxLoads = 1
PROPERTIES
  HydrationNeverRewinds
CHECK_DEADLOCK FALSE
