SPECIFICATION Spec
CONSTANTS
    a = a
    b = b
    r1 = r1
    r2 = r2
    j1 = j1
    j2 = j2
    Req = {r1, r2}
    Job = {j1, j2}
    Name = {a}
    Token = {t1, t2}
    Data = {d1}
    Time = {m1}
    NoInfo = NoInfo
    NoOne = NoOne
    NoName = NoName
    Kinds <- AllEndpoints
    Parts <- CommaFree
SYMMETRY Symmetry
INVARIANT TypeOK
INVARIANT OneOpenHandle
INVARIANT SnapshotCurrent
INVARIANT ConfirmedIntact
INVARIANT ListedExisted
INVARIANT IndexListsConfirmed
PROPERTY StoreAtomic
