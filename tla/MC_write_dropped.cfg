SPECIFICATION LiveSpec
CONSTANTS
    t1 = t1
    t2 = t2
    c1 = c1
    c2 = c2
    NoTask = NoTask
    NoConfig = NoConfig
    Nothing = Nothing
    Tasks <- TwoTasks
    Configs <- TwoConfigs
    Fits <- OneConfig
    Asks <- SettingAsks
    Hazards <- NoHazards
    Capacity = 2
PROPERTIES
    WroteMeansWritten
CHECK_DEADLOCK FALSE
