SPECIFICATION BootLiveSpec
CONSTANTS
    e1 = e1
    e2 = e2
    u1 = u1
    u2 = u2
    NoTitle = NoTitle
    Exts <- TwoExts
    Upper <- TwoUpper
    Titles <- TwoTitles
    Faults <- Restarts
    IdLimit = 3
INVARIANTS
    CatalogAgrees
PROPERTIES
    BootEnds
CHECK_DEADLOCK TRUE
