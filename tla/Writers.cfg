SPECIFICATION FairSpec
CONSTANTS
    c1 = c1
    c2 = c2
    c3 = c3
    Clients <- Three
    Calls <- MixedCalls
    MemCap = 2
    MergeLimit = 1
    L0Trigger = 1
    PauseTrigger = 2
    MaxFails = 1
    Allow = {}
    None = None
INVARIANTS
    OneWriter
    ResultsMatch
    NoRetry
PROPERTY EveryCallReturns
CHECK_DEADLOCK FALSE
