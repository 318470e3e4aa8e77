CONSTANTS
    Timers = {t1, t2}
    NULL = NULL
    TV1_SIZE = 2
    TV_SIZE = 3
    UINT = 4
    Requests <- LoopRequests
    HandlerRequests <- FiringRequests
    Starts = {0}
    CallTicks = {0}
    MaxLag = 1
SPECIFICATION Spec
INVARIANTS TypeOK KeptUntilDue FiresOnTime NeverRunsTooOften NoFreedTimerVisited
PROPERTY TickReturns
