SPECIFICATION FairSpec
CONSTANTS
  PoolSize = 3
  MaxSessions = 2
  QueueCapacity = 3
  ClientQuiesces = TRUE
  Null = Null
  Uninit = Uninit
INVARIANTS
  TypeOK
  Exclusive
  LockConserved
  NoDanglingFrame
  CleanStop
  StreamingIsReal
PROPERTIES
  ReaderSpec
  FetchTerminates
  QueueDrains
  UrbJoinProgresses
  StopTerminatesAfterUrb
CHECK_DEADLOCK FALSE
