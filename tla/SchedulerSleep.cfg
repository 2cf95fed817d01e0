SPECIFICATION Spec
CONSTANTS
    main = main
    idle = idle
    a = a
    b = b
    NULL = NULL
    Tasks <- MCNoIdle
    Main = main
    Idle = NULL
    MAX_TASK_LEVELS = 3
    MAX_TASKS = 3
    MAIN_TASK_LEVEL = 2
    NewLevels = {2}
    WORD = 8
    TICK = 2
    SLEEP_MAX = 3
    Sleeps = {5}
    UsSleeps = {3}
    MsSleeps = {1}
    CREATE_AFTER_START = TRUE
    TICK_ELSEWHERE = TRUE
INVARIANT SleepsFully
