SPECIFICATION FairSpec
CONSTANTS
    Deposits <- Two
    Keys = {k1}
    InitialKey = k1
    FirstNonce = 1
    MaxNonce = 3
    None = None
    RetryLimit = 1
    BatchLimit = 2
    MaxPrice = 2
    Registered <- Two
    Faults = {"rpc", "estimate", "evict", "revert"}
    MaxFaults = 1
INVARIANTS
    TypeOK
    NoDoubleMint
    NoOrphan
PROPERTIES
    EventuallySettled
