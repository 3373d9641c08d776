CONSTANTS
    NTasks = 3
    NHarts = 2
    NStacks = 1
    Calls <- CallsWait
    Pins <- AnyOrOne
    Tiers <- IdleTier
SPECIFICATION Spec
INVARIANTS
    TypeOK RunningOnce NoLostWake TokenScoped
PROPERTIES
    ImplementsWakeToken
