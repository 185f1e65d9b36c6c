SPECIFICATION Spec
CONSTANTS
    t1 = t1
    t2 = t2
    Threads <- TwoThreads
    Keys = {0, 1}
    NS <- TwoSpaces
    Ops = {"get", "peek", "delete", "evict", "evictns", "evictall", "capacity", "close", "closeweak"}
    Capacity = 1
    InitialSize = 1
    Overflow = 1
    OverflowGrow = 1
    MaxCalls = 3
    MaxNodes = 5
    MaxHandles = 3
    MaxTables = 3
    Allow = {}
    None = None
INVARIANTS
    HandleLive
    OneValue
    OnDelOnce
    QuietExact
SYMMETRY Symmetry
CHECK_DEADLOCK FALSE
