CONSTANTS
    NTasks = 4
    NHarts = 2
    NStacks = 2
    Calls <- CallsLife
    Pins <- AnyHart
    Tiers <- NoTier
SPECIFICATION Spec
INVARIANTS
    StacksExclusive HandOff ReapSlotDrained StacksAccounted ReadyIsPublished
