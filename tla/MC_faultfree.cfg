SPECIFICATION Spec
CONSTANTS
    t1 = t1
    t2 = t2
    f1 = f1
    f2 = f2
    d1 = d1
    d2 = d2
    d3 = d3
    d4 = d4
    NoTask = NoTask
    NoFile = NoFile
    DbFile = DbFile
    WalFile = WalFile
    Tasks <- TwoTasks
    Files <- TwoFiles
    DirSlots <- FourSlots
    Faults <- NoFaults
    Routes <- FirmwareRoutes
    MaxFiles = 4
    MaxLen = 2
    ChunkLen = 2
    PanicHalts = TRUE
SYMMETRY Symmetry
INVARIANTS
    NothingLeaked
    NobodyPanics
    CapacitySuffices
CHECK_DEADLOCK TRUE
