CONSTANTS
    Sides <- MCSides
    Talkers <- OneTalker
    Majors <- MCMajors
    Mod = 4
    MaxWindow = 1
    Slots = 1
    RxWindow = 1
    WireLen = 2
    MaxFrames = 4
    MaxFaults <- OneEach
SPECIFICATION FairSpec
INVARIANTS
    OwnSession SequenceExact NoOverrun
PROPERTIES
    Recovers
CHECK_DEADLOCK FALSE
