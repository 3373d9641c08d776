CONSTANTS
    Callers <- ThreeCallers
    Owner = 0
    WaitQLen = 1
    Setups <- Crowded
    Reused <- Nobody
SPECIFICATION Spec
INVARIANTS
    TurnKept
CHECK_DEADLOCK FALSE
