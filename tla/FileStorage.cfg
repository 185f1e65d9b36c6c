SPECIFICATION Spec
CONSTANTS
    p1 = p1
    p2 = p2
    Procs <- TwoProcs
    MaxNum = 3
    MaxFails = 1
    MaxCrashes = 2
    MaxOpen = 1
    None = None
    Torn = Torn
INVARIANTS
    MetaAtomic
    LocksExclusive
SYMMETRY Symmetry
CHECK_DEADLOCK FALSE
