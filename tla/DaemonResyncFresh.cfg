SPECIFICATION Spec
CONSTANTS
  MaxSequence = 4
  MaxLost = 2
  MaxWire = 2
  MaxFaults = 0
  MaxSnapshots = 0
  Unasked = {}
INVARIANTS ResyncIsFresh
CHECK_DEADLOCK FALSE
