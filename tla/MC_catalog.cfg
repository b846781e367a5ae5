SPECIFICATION BootSpec
CONSTANTS
    e1 = e1
    e2 = e2
    u1 = u1
    u2 = u2
    NoTitle = NoTitle
    Exts <- OneExt
    Upper <- OneUpper
    Titles <- TwoTitles
    Faults <- AllFaults
    IdLimit = 3
SYMMETRY Symmetry
INVARIANTS
    TypeOK
    ReportedUploadsAreKept
    NothingBeyondTheCounter
PROPERTIES
    NamesGivenOnce
    StartsImplementCatalog
CHECK_DEADLOCK TRUE
