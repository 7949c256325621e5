\* Three git commands of either priority, two process slots.
SPECIFICATION FairSpec
CONSTANTS
    g1 = g1
    g2 = g2
    g3 = g3
    Calls <- ThreeCalls
    MaxProcs = 2
INVARIANTS
    TypeOK
    CountsAreExact
    ProcessesAreBounded
    NoLostWakeup
    AnsweredChildIsDying
PROPERTY
    EveryCallAnswered
CHECK_DEADLOCK FALSE
