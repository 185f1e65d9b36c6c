SPECIFICATION Spec
CONSTANTS
    MaxByte = 3
    KeyMaxSeq = 9
    MaxHeight = 2
    BlockSize = 24
    RestartInterval = 2
    FilterBase = 32
    BitsPerKey = 4
    MinFilterBits = 8
    HashWidth = 8
    HashRotate = 5
    Hash <- ByteHash
    UserKeys <- Keys4
    Histories <- SomeHistories
    Layouts <- SomeLayouts
    Cuts <- SomeCuts
    Slices <- SomeSlices
    Snapshots = {4, 6}
    NewWrites <- SomeWrites
    MaxWrites = 7
    Damage = TRUE
    Strictness = {TRUE, FALSE}
INVARIANT LookupsExact
PROPERTY ImplementsCursor
CHECK_DEADLOCK FALSE
