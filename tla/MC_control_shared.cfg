SPECIFICATION Spec
CONSTANTS
    t1 = t1
    t2 = t2
    c1 = c1
    c2 = c2
    NoTask = NoTask
    NoConfig = NoConfig
    Nothing = Nothing
    Tasks <- TwoTasks
    Configs <- TwoConfigs
    Fits <- TwoConfigs
    Asks <- SettingAsks
    Hazards <- TimerAndPower
    Capacity = 2
SYMMETRY Symmetry
INVARIANTS
    TypeOK
    ReadsSeeConfirmedWrites
    StationFollowsConfig
PROPERTIES
    ForgottenOnlyByReset
    LostOnlyToAnother
    
CHECK_DEADLOCK TRUE
