SPECIFICATION FairSpec
CONSTANTS
  Clients = {c1}
  Questions = {q1}
  Capacity = 1
  MaxSequence = 2
  MaxGeneration = 3
  MaxFaults = 1
  MaxUnread = 1
  MaxLoads = 1
CONSTRAINT Few
INVARIANTS
  TypeOK
  NoSilentLoss
  InOrderOnce
PROPERTIES
  NoClosedQuestionOnFirstConnect
  EventuallyCovered
CHECK_DEADLOCK FALSE
