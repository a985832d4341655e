SPECIFICATION FairSpec
CONSTANTS
  NumTransfers = 2
  MaxInits = 1
PROPERTIES
  LostDeviceEndsThread
CHECK_DEADLOCK FALSE
