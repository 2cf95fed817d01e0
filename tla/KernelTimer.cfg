SPECIFICATION LiveSpec
CONSTANTS
    cpu0 = cpu0
    cpu3 = cpu3
    CPUs <- MCCPUs
    DO_TICK_CPU = cpu0
    KERNEL_TIMERS = 2
    WORD = 6
    TIME_WORD = 2
    HZ = 3
    SliceDelays = {1}
    Delays = {0, 2}
    MAX_LAG = 1
    LATE_TIMER = FALSE
INVARIANT SliceArmed
PROPERTIES NeverEarly TimersElapse
