CONSTANTS
    a = a
    b = b
    c = c
    l = l
    m = m
    Tasks = {a, b, c}
    Servers = {a, b}
    Locks = {l, m}
    None = None
    Nests <- SomeNests
    CycleTurns = 2
SPECIFICATION FairSpec
INVARIANTS
    OwnerExact NoCallCycle
PROPERTIES
    DeadlockReported
