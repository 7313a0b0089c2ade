SPECIFICATION Spec
CONSTANTS
  MaxSequence = 1
  MaxLost = 0
  MaxWire = 2
  MaxFaults = 1
  MaxSnapshots = 0
  Unasked = {}
INVARIANTS RecoverySurvives
CHECK_DEADLOCK FALSE
