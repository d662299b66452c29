SPECIFICATION Spec
CONSTANTS
    Deposits <- One
    Keys = {k1}
    InitialKey = k1
    FirstNonce = 1
    MaxNonce = 3
    None = None
    RetryLimit = 1
    BatchLimit = 1
    MaxPrice = 2
    Registered <- One
    Faults = {"crash"}
    MaxFaults = 1
INVARIANTS
    NoDoubleMint
