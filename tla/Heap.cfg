SPECIFICATION Spec
CONSTANTS
    t1 = t1
    t2 = t2
    cpu0 = cpu0
    Tasks <- MCTasks
    CpuOf <- OneCpu
    Requests = {1, 4, 9}
    MAX_CALLS = 5
    WORD = 128
    ulBase = 8
    ulSize = 28
    ulDMABase = 36
    ulDMASize = 7
    MEM_HEAP_START = 4
    MAX_MEMORY = 43
    PAGE_SIZE = 4
    CONFIG_FB_ADDR = 14
    FB_SIZE = 6
    s_BlockBucket = {2, 4}
    s_DMABlockBucket = {4}
SYMMETRY TaskSymmetry
INVARIANTS LiveDisjoint Accounted
PROPERTY CallsAreAtomic
\* the calls are bounded: a caller that has freed its blocks may stop
CHECK_DEADLOCK FALSE
