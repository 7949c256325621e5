SPECIFICATION FairSpec
CONSTANTS
  PageLimit = 1
  MaxRows = 3
  MaxEpoch = 2
  MaxFaults = 1
INVARIANTS
  TypeOK
  NoHole
  CompleteMissedNothing
PROPERTIES
  EndNeverRetreats
  BecomesCurrent
CHECK_DEADLOCK FALSE
