SPECIFICATION FairSpec
CONSTANTS
    MaxHeight = 3
    DepositEvents <- MintEvents
    None = None
    Deposits <- FourRows
    value <- RowValues
    address <- RowAddresses
    mints <- EventMints
    receiver <- EventReceivers
    Outcomes <- RowOutcomes
    MintFactor = 10
    EventDivisor = 1
    BatchLimit = 2
    MaxFaults = 2
INVARIANTS
    TypeOK
    CheckedNamesItsEvent
PROPERTIES
    EventuallyChecked
