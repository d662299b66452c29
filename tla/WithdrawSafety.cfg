SPECIFICATION FairSpec
CONSTANTS
    w1 = w1
    w2 = w2
    Withdrawals <- TwoWithdrawals
    To <- OneReceiver
    Value <- Different
    Outputs = {1, 2, 3, 4}
    List <- Ascending
    PageSize = 2
    Rate <- OneUnit
    Worths <- ThreeKinds
    Variants = {1}
    MultisigNums = {0, 2}
    Faults = {"rpc", "reject", "lost", "record", "db", "crash"}
    MaxFaults = 2
    None = None
INVARIANTS
    TypeOK
    OneOpenTx
    SuccessIsPaid
PROPERTIES
    EventuallyPaid
    ShortListSpendsOnce
    KeepsBook
CHECK_DEADLOCK FALSE
