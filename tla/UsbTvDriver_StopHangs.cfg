SPECIFICATION FairSpec
CONSTANTS
  PoolSize = 2
  MaxSessions = 1
  QueueCapacity = 2
  ClientQuiesces = TRUE
  Null = Null
  Uninit = Uninit
PROPERTIES
  StoppedThreadQuits
CHECK_DEADLOCK FALSE
