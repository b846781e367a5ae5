SPECIFICATION Spec
CONSTANTS
    t1 = t1
    t2 = t2
    f1 = f1
    f2 = f2
    d1 = d1
    d2 = d2
    d3 = d3
    d4 = d4
    NoTask = NoTask
    NoFile = NoFile
    DbFile = DbFile
    WalFile = WalFile
    Tasks <- TwoTasks
    Files <- OneFile
    DirSlots <- FourSlots
    Faults <- DroppedClients
    Routes <- FirmwareRoutes
    MaxFiles = 4
    MaxLen = 1
    ChunkLen = 1
    PanicHalts = TRUE
SYMMETRY Symmetry
INVARIANTS
    StreamArmUnreachable
CHECK_DEADLOCK FALSE
