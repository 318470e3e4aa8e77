\* Three items or lines go through a queue that is taken over while it grows.
\* A stopped thread and a started process come to an end.
SPECIFICATION ThreadsSpec
CONSTANTS
  Checked = {"worker", "logger", "stream", "process"}
  MaxItems = 3
  MaxGiven = 6
  MaxLines = 3
  FirstDay = 3
  LastDay = 5
  CLOSED = CLOSED
  OpensMayFail = TRUE
  Infinity = 3
  FREE = FREE
  Levels = {0, 2, 4}
  Times <- TimesOfDay
  MaxPuts = 1
  MaxDepth = 2
  ShellLimits <- Shells
INVARIANTS TypeOK HandedOutInOrder OutInOrder FilesFollowDays LinesAreWhole StartsRight
PROPERTIES EveryItemComesOut StopEndsUnlessLost EveryLineGoesOut
CHECK_DEADLOCK FALSE
