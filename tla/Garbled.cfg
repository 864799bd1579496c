SPECIFICATION TransportsSpec
CONSTANTS
  MaxRetries = 0
  MaxNonce = 0
INVARIANT GarbledIsRefused
CHECK_DEADLOCK FALSE
