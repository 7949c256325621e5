SPECIFICATION RetrySpec
CONSTANTS
  PageLimit = 1
  MaxRows = 3
  MaxEpoch = 1
  MaxFaults = 1
INVARIANT
  CompleteMissedNothing
CHECK_DEADLOCK FALSE
