SPECIFICATION Spec
CONSTANTS
  MaxSequence = 4
  MaxLost = 2
  MaxWire = 2
  MaxFaults = 1
  MaxSnapshots = 1
  Unasked = {"foreign", "replacement"}
CONSTRAINT Few
INVARIANTS TypeOK InOrderOnce NoSilentLoss DeadSocketNoticed BuffersReleased
PROPERTIES LossIsTold
CHECK_DEADLOCK FALSE
