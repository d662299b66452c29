SPECIFICATION FairSpec
CONSTANTS
    Txs <- PipelineTxs
    Contents <- PipelineContents
    MaxHeight = 4
    MaxReorg = 1
    memo <- PipelineMemo
    listenAddress <- Bridge
    targetConfirmations = 2
    MaxInt64 = 7
    BatchLimit = 1
    Faults = {"rpc", "db", "l2", "kill"}
    MaxFaults = 2
INVARIANTS
    TypeOK
    MintedIsFinal
    OneRow
    OnlyReorgsLose
PROPERTIES
    EventuallyStored
    EventuallyMinted
CHECK_DEADLOCK FALSE
