\* Two schedules, two ticks and a request by hand, everything that can be done to a
\* schedule while it runs, and a crash.
SPECIFICATION Spec
CONSTANTS
    t1 = t1
    t2 = t2
    q1 = q1
    Null = Null
    NumSchedules = 2
    Ticks <- TwoTicks
    Requests <- OneRequest
    Limits <- OneOrNoLimit
    Expiries <- SoonOrNever
    Period = 1
    MaxTime = 1
    MaxCommands = 3
    MaxCrashes = 1
SYMMETRY Interchangeable
INVARIANTS
    TypeOK
    OneRunAtATime
    NextIffActive
PROPERTY
    HistoryStays
