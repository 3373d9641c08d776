CONSTANTS
    NTasks = 2
    NHarts = 1
    NStacks = 1
    Calls <- CallsQuiet
    Pins <- AnyHart
    Tiers <- NoTier
SPECIFICATION FairSpec
PROPERTIES
    TimedWaitEnds
