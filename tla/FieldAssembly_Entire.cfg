SPECIFICATION Spec
CONSTANTS
  FieldLines = 2
  NumIds = 8
  DevicePackets = 3
  MaxFields = 4
  MaxRestarts = 0
INVARIANTS
  InterleavedIsEntire
CHECK_DEADLOCK FALSE
