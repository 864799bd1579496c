SPECIFICATION FairSpec
CONSTANTS
  MaxRetries = 1
  MaxNonce = 4
INVARIANT HandlerHasPeer
CHECK_DEADLOCK FALSE
