SPECIFICATION FairSpec
CONSTANTS
  Devices = {d1, d2}
  MaxOpens = 3
  MaxMessages = 2
  SerialOpens = TRUE
  QuietClosed = TRUE
INVARIANTS
  TypeOK
  OpenOwnsDriver
PROPERTIES
  DriverSpec
  Answered
CHECK_DEADLOCK FALSE
