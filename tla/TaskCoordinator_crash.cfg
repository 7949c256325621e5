\* Starts, turns and checks with a crash anywhere.
SPECIFICATION Spec
CONSTANTS
    t1 = t1
    c1 = c1
    c2 = c2
    a1 = a1
    a2 = a2
    s1 = s1
    p1 = p1
    p2 = p2
    None = None
    Tasks <- OneTask
    Commands <- TwoCommands
    Agents <- TwoAgents
    Slots <- TwoSlots
    Sessions <- OneSession
    MaxTurns = 0
    MaxCrashes = 1
SYMMETRY Interchangeable
INVARIANTS
    TypeOK
    JournalInv
    OneAgentPerStart
