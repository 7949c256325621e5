\* A client that sends two messages a connection, and three failures. It may have
\* sent all it had to send: no deadlock is looked for.
SPECIFICATION FairSpec
CONSTANTS
    Conns = {c1}
    MaxSent = 2
    MaxHellos = 2
    PendingLimit = 1
    MaxFaults = 3
INVARIANTS
    TypeOK
    ChannelIsSound
PROPERTY
    EveryClientGetsThrough
CHECK_DEADLOCK FALSE
