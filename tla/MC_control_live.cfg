SPECIFICATION LiveSpec
CONSTANTS
    t1 = t1
    t2 = t2
    c1 = c1
    c2 = c2
    NoTask = NoTask
    NoConfig = NoConfig
    Nothing = Nothing
    Tasks <- TwoTasks
    Configs <- OneConfig
    Fits <- OneConfig
    Asks <- SharedAsks
    Hazards <- TimerAndRadio
    Capacity = 2
INVARIANTS
    AnswersAreFresh
PROPERTIES
    ConfirmedUntilWritten
    EveryQuestionAnswered
    TimerEndsWaiting
    FittingWritesArrive
CHECK_DEADLOCK FALSE
