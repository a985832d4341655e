SPECIFICATION Spec
CONSTANTS
  PoolSize = 2
  MaxSessions = 1
  QueueCapacity = 3
  ClientQuiesces = TRUE
  Null = Null
  Uninit = Uninit
INVARIANTS
  DroppedFrameReleased
CHECK_DEADLOCK FALSE
