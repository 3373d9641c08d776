CONSTANTS
    Callers <- ThreeCallers
    Owner = 0
    WaitQLen = 1
    Setups <- Both
    Reused <- OnlyOwner
SPECIFICATION FairSpec
INVARIANTS
    TypeOK ClaimAccounted NoOvertaking ReplyIsMine NoLostMessage NoLostTurn
PROPERTIES
    CallReturns
CHECK_DEADLOCK FALSE
