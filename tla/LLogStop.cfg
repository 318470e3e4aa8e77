CONSTANTS
    MaxLines = 2
    FirstDay = 3
    LastDay = 3
    CLOSED = CLOSED
    OpensMayFail = TRUE
SPECIFICATION Spec
CHECK_DEADLOCK FALSE
PROPERTY StopEndsWriter
