SPECIFICATION Spec
CONSTANTS
    Fingers <- MCFingers
    FIFO_SIZE = 2
    TAP_TIMEOUT = 1
    DOUBLE_TAP_TIMEOUT = 2
    DOUBLE_TAP_MIN_TIME = 1
    LONGPRESS_TIMEOUT = 2
    MAX_TIME = 5
    MAX_REPORTS = 5
    LATE_TASK = FALSE
INVARIANTS FingersTracked OneVerdict QueueSorted
\* MAX_REPORTS and MAX_TIME end a behaviour.
CHECK_DEADLOCK FALSE
