\* One task, three command ids, one agent: the whole lifecycle with a retry.
SPECIFICATION ServiceSpec
CONSTANTS
    t1 = t1
    c1 = c1
    c2 = c2
    c3 = c3
    a1 = a1
    None = None
    Tasks <- OneTask
    Commands <- ThreeCommands
    Agents <- OneAgent
    MaxTurns = 0
SYMMETRY Interchangeable
INVARIANTS
    ServiceTypeOK
    EveryRowExplained
    AcceptanceRestsOnEvidence
    RevisionsAreUnique
PROPERTY
    ImplementsRegister
