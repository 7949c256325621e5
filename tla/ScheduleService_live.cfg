\* Runs that never end: the other schedule is still attended to.
SPECIFICATION FairSpec
CONSTANTS
    t1 = t1
    t2 = t2
    q1 = q1
    Null = Null
    NumSchedules = 2
    Ticks <- TwoTicks
    Requests = {}
    Limits <- NoLimit
    Expiries <- Never
    Period = 1
    MaxTime = 1
    MaxCommands = 3
    MaxCrashes = 1
PROPERTY
    DueIsServed
