SPECIFICATION Spec
CONSTANTS
    L0Trigger = 1
    TotalSize <- SmallLevels
    TableSize = 2
    GPOverlaps = 1
    ExpandLimit = 10
    SourceLimit = 2
    Keys <- TwoKeys
    Batches <- FewBatches
    MaxOps = 2
    MaxCalls = 0
    MaxStops = 2
    MemCap = 2
    MemdbMaxLevel = 0
    Transactions = TRUE
    Allow = {}
    SyncFails = TRUE
    None = None
INVARIANTS
    AckedSurvive
    OpenSucceeds
    TxReadsOwn
PROPERTY ImplementsKvStore
CHECK_DEADLOCK FALSE
