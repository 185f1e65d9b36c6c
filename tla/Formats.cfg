SPECIFICATION FormatsSpec
CONSTANTS
    BlockLen = 8
    Kinds = {"journal", "manifest"}
    Batches <- SmallBatches
    Edits <- SmallEdits
    MaxEntries = 3
    MaxDamage = 1
    TableBits = 2
    hash <- SmallHash
    MaxBlockSize = 300
    Blocks <- SmallBlocks
    Strings <- SmallStrings
    Remarks <- TwoRemarks
    NameLists <- SomeLists
INVARIANTS BatchesExact ManifestExact BlocksExact RecordsExact
