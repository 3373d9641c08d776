CONSTANTS
    NTasks = 3
    NHarts = 1
    NStacks = 2
    Calls <- CallsLive
    Pins <- AnyHart
    Tiers <- NoTier
SPECIFICATION FairSpec
PROPERTIES
    WaitServed TimedWaitEnds NoStarvation
