CONSTANTS
    Tasks <- MCTasks
    Types <- AllTypes
    Calls <- MCCalls
    Waits <- AnyWait
    SemMax = 2
    QLen = 2
    Bits <- MCBits
    EvWaits <- MCEvents
    MaxDepth = 2
    MaxInc = 2
    HandleGens = 2
    SlotGens = 4
    Domain <- OneDomain
    Keys <- MCKeys
    Delays <- MCDelays
    TimerMax = 2
    UsPerMs = 2
    MaxTime = 4
SPECIFICATION TFairSpec
INVARIANTS
    UnitsAccounted OneHolder RingIsQueue NobodyStranded NoLostGrant StaleRefused NoLostTimer
CHECK_DEADLOCK FALSE
PROPERTIES
    WaitEnds DueFires
