SPECIFICATION FairSpec
CONSTANTS
  Prompts = {p1, p2}
  Cancels = {k1}
  NoCaller = NoCaller
  MaxTurns = 2
INVARIANTS
  TypeOK
  WaiterIsCurrent
  StateShown
  IdleHasNoTurn
PROPERTIES
  EveryCallAnswered
CHECK_DEADLOCK FALSE
