SPECIFICATION Spec
CONSTANTS
  Creates = {c1}
  Resumes = {r1}
  Deletes = {d1, d2}
  MaxEvents = 1
  None = None
INVARIANTS
  TypeOK
  DeletionLeavesNothing
  OnlyRegisteredSpeaks
  RegistrationIsLive
PROPERTIES
  WritesInOrder
  FailedDeletionKeeps
SYMMETRY MCSymmetry
CHECK_DEADLOCK FALSE
