SPECIFICATION FairSpec
CONSTANTS
    MaxHeight = 4
    Deposits <- MixedDeposits
    SelfPaid <- MixedSelfPaid
    Malformed <- LateMalformed
    CallbackTxs <- MixedCallback
    Faults = {"rpc", "db"}
    MaxCrashes = 1
INVARIANTS
    TypeOK
    NoDepositSkipped
PROPERTIES
    IndexBlockNeverDecreases
    StoredInOrder
    EventuallyIndexed
