SPECIFICATION Spec
CONSTANTS
    Deposits <- One
    Keys = {k1, k2}
    InitialKey = k1
    FirstNonce = 1
    MaxNonce = 4
    None = None
    RetryLimit = 1
    BatchLimit = 1
    MaxPrice = 2
    Registered <- NoDeposits
    Faults = {"rpc", "l1", "estimate", "evict", "revert", "resurface", "db", "lost", "crash", "rotate"}
    MaxFaults = 3
INVARIANTS
    StatusTrue
PROPERTIES
    FinalKeepsHash
