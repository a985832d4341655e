SPECIFICATION FairSpec
CONSTANTS
  Threads = {"urb", "proc", "ctl"}
  BlockSize = 2
  IndexSize = 2
  Capacity = 1
  InitialBlocks = 1
  UrbIds = {1, 2}
  CtlId = 3
  MaxBlocks = 4
  MaxFrames = 5
  MaxSessions = 2
INVARIANT EmptyQueueAccepts
CHECK_DEADLOCK FALSE
