CONSTANTS
    Timers = {t1, t2}
    NULL = NULL
    TV1_SIZE = 2
    TV_SIZE = 2
    UINT = 4
    Requests <- OnceRequests
    HandlerRequests = {}
    Starts = {0}
    CallTicks <- EveryTick
    MaxLag = 1
SPECIFICATION Spec
INVARIANT TimerInItsList
