SPECIFICATION Spec
CONSTANTS
  FieldLines = 2
  NumIds = 3
  DevicePackets = 4
  MaxFields = 5
  MaxRestarts = 1
INVARIANTS
  TypeOK
  CompleteIsOneField
  DiscardsEven
  LastFieldWhole
  PairsAgain
PROPERTIES
  MixesByCollision
CHECK_DEADLOCK FALSE
