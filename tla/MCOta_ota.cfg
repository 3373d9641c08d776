CONSTANTS
    first = first
    second = second
    noimage = noimage
    Images <- MCImages
    First <- first
    NoImage <- noimage
    SeqMod = 4
    MaxCuts = 1
SPECIFICATION FairSpec
INVARIANTS
    Bootable TriedFirst WatchdogScoped
PROPERTIES
    ComesBack
