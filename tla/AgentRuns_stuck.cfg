SPECIFICATION Spec
CONSTANTS
  Prompts = {p1, p2}
  Cancels = {k1}
  NoCaller = NoCaller
  MaxTurns = 2
INVARIANTS
  RunningHasRun
CHECK_DEADLOCK FALSE
