SPECIFICATION FairSpec
CONSTANTS
  MaxSize = 2
  MaxRetries = 2
  MaxLength = 5
  Parts = 3
  Resubmits = {TRUE}
  MaxRounds = 3
  MaxFaults = 2
INVARIANTS
  TypeOK
  SuccessIsWhole
  UrbOnce
  TransferResult
PROPERTIES
  CalledBack
CHECK_DEADLOCK FALSE
