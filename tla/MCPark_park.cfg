CONSTANTS
    Users <- TwoUsers
SPECIFICATION Spec
INVARIANTS
    ParkedInRam
