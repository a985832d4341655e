SPECIFICATION FairSpec
CONSTANTS
  NumTransfers = 3
  MaxInits = 3
INVARIANTS
  TypeOK
  LiveUrbs
  UrbsAccounted
PROPERTIES
  ReaderSpec
  JoinProgresses
CHECK_DEADLOCK FALSE
