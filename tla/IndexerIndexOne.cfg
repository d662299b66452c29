SPECIFICATION Spec
CONSTANTS
    MaxHeight = 2
    Deposits <- FirstAtOne
    SelfPaid <- NoPositions
    Malformed <- NoPositions
    CallbackTxs <- NoPositions
    Faults = {"db"}
    MaxCrashes = 0
INVARIANTS
    NoDepositLost
