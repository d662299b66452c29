SPECIFICATION Spec
CONSTANTS
    w1 = w1
    w2 = w2
    Withdrawals <- TwoWithdrawals
    To <- OneReceiver
    Value <- Equal
    Outputs = {1, 2}
    List <- Ascending
    PageSize = 2
    Rate <- OneUnit
    Worths <- AllLarge
    Variants = {1, 2}
    MultisigNums = {0}
    Faults = {}
    MaxFaults = 0
    None = None
INVARIANTS
    SubmittedIsInTx
CHECK_DEADLOCK FALSE
