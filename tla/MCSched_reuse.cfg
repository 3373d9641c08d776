CONSTANTS
    NTasks = 3
    NHarts = 1
    NStacks = 2
    Calls <- CallsReuse
    Pins <- AnyHart
    Tiers <- NoTier
SPECIFICATION Spec
INVARIANTS
    ReadyIsPublished
