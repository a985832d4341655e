SPECIFICATION FairSpec
CONSTANTS
  Threads = {"urb", "proc", "ctl"}
  BlockSize = 2
  IndexSize = 2
  Capacity = 3
  InitialBlocks = 2
  UrbIds = {1, 2}
  CtlId = 3
  MaxBlocks = 4
  MaxFrames = 6
  MaxSessions = 3
INVARIANTS TypeOK BlocksAccounted PermitBacked WakeupsBalance DrainedAtEnd TakesInOrder
PROPERTIES PermitSpec WaiterWakes StopEnds
CHECK_DEADLOCK FALSE
