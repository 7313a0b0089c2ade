SPECIFICATION FileSpec
CONSTANTS
  Processes = {p1, p2}
  Updates <- MCUpdates
  Home <- MCHome
  p1 = p1 p2 = p2 u1 = u1 u2 = u2 u3 = u3
  Shared = TRUE
  Daemon = Daemon
  None = None
PROPERTIES
  OnlyStaleReclaimed
CHECK_DEADLOCK FALSE
