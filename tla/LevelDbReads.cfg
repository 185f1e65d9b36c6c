SPECIFICATION Spec
CONSTANTS
    L0Trigger = 1
    TotalSize <- SmallLevels
    TableSize = 2
    GPOverlaps = 1
    ExpandLimit = 10
    SourceLimit = 2
    Keys <- TwoKeys
    Batches <- FewBatches
    MaxOps = 2
    MaxCalls = 2
    MaxStops = 0
    MemCap = 1
    MemdbMaxLevel = 0
    Transactions = FALSE
    Allow = {}
    SyncFails = FALSE
    None = None
INVARIANTS
    FilesExact
    LevelsSound
PROPERTY ImplementsKvStore
CHECK_DEADLOCK FALSE
