SPECIFICATION RunSpec
CONSTANTS
  MaxBlocks = 3
  MaxResyncs = 0
  Word <- MCWord
INVARIANT TextsPreserved
CHECK_DEADLOCK FALSE
