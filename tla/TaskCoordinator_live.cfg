\* Every handler, turn and check runs to its end without a crash: one command id
\* (it names a start and a verification), so no retry.
SPECIFICATION FairSpec
CONSTANTS
    t1 = t1
    c1 = c1
    c2 = c2
    a1 = a1
    a2 = a2
    s1 = s1
    p1 = p1
    p2 = p2
    None = None
    Tasks <- OneTask
    Commands <- OneCommand
    Agents <- TwoAgents
    Slots <- TwoSlots
    Sessions <- OneSession
    MaxTurns = 1
    MaxCrashes = 0
INVARIANTS
    RunningIsAttended
PROPERTIES
    HandlersEnd
    VerifyingEnds
    HandledTurnIsVerified
