SPECIFICATION MCSpec
CONSTANTS
  Processes = {p1, p2}
  Updates <- MCUpdates
  Home <- MCHome
  p1 = p1 p2 = p2 u1 = u1 u2 = u2 u3 = u3
  Shared = FALSE
  Daemon = Daemon
  None = None
  m1 = m1 m2 = m2 r1 = r1
  Commands = {m1, m2, r1}
  Mutating = {m1, m2}
  OutcomeLimit = 1
  MaxFaults = 2
CONSTRAINTS InOrder Few
INVARIANTS
  FileTypeOK OneWriter NoLostUpdate
  SocketTypeOK RecordsOutliveDoubt RecordsAccounted GreetingUnderstood
PROPERTIES
  OnlyStaleReclaimed EveryUpdateSettles
  OutcomeSpec EveryRequestSettles
CHECK_DEADLOCK FALSE
