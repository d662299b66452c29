SPECIFICATION Spec
CONSTANTS
    MaxHeight = 2
    Deposits <- TwoInBlock
    SelfPaid <- NoPositions
    Malformed <- NoPositions
    CallbackTxs <- KnownTwo
    Faults = {}
    MaxCrashes = 0
INVARIANTS
    NoDepositLost
