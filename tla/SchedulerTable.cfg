SPECIFICATION LiveSpec
CONSTANTS
    main = main
    idle = idle
    a = a
    b = b
    NULL = NULL
    Tasks <- MCTasks
    Main = main
    Idle = idle
    MAX_TASK_LEVELS = 4
    MAX_TASKS = 3
    MAIN_TASK_LEVEL = 3
    NewLevels = {2, 3}
    WORD = 2
    TICK = 2
    SLEEP_MAX = 3
    Sleeps = {}
    UsSleeps = {}
    MsSleeps = {}
    CREATE_AFTER_START = FALSE
    TICK_ELSEWHERE = FALSE
INVARIANTS TableOK BoundedOvertaking
PROPERTIES ReadyRuns YieldReturns
