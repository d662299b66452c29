SPECIFICATION FairSpec
CONSTANTS
    MaxHeight = 3
    Events <- FewEvents
    DepositEvents <- FewDeposits
    Faults = {"rpc", "db"}
    MaxCrashes = 2
INVARIANTS
    TypeOK
    NoEventPassed
PROPERTIES
    PositionNeverBack
    EventuallyRead
    TableGrowsByNewTx
