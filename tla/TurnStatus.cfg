SPECIFICATION TurnSpec
CONSTANTS
  Messages = {m1, m2}
  Sessions = {a, b}
  NoSession = NoSession
  MaxDisturbances = 1
INVARIANT StatusOwned
CHECK_DEADLOCK FALSE
