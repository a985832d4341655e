SPECIFICATION TransferSpec
CONSTANTS
  MaxSize = 2
  MaxRetries = 2
  MaxLength = 5
INVARIANT ReadReturnsRead
CHECK_DEADLOCK FALSE
