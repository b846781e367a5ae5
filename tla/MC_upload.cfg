SPECIFICATION LiveSpec
CONSTANTS
    t1 = t1
    t2 = t2
    NoTask = NoTask
    Tasks <- TwoTasks
    Sizes <- SomeSizes
    ChunkLen = 2
    Limit = 8
    Usize = 8
    Attempts = 2
INVARIANTS
    TypeOK
    PrefixOnly
    ReceiptsHold
    CompleteUnlessLastGivenUp
    ReceiptsBeforeGaps
PROPERTIES
    UploadEnds
CHECK_DEADLOCK FALSE
