SPECIFICATION Spec
CONSTANTS
  NumTransfers = 2
  MaxInits = 2
INVARIANTS
  NoFreedUrbReaped
CHECK_DEADLOCK FALSE
