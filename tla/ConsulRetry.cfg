\* Two keys, only failures: no throw and no Stop excuses a lost retry. Keys that
\* are registered after the first round are never asked for, so the io thread may
\* have nothing left to do.
SPECIFICATION Spec
CONSTANTS
  Keys = {k1, k2}
  NULL = NULL
  MaxVersion = 1
  Qualities = {"good"}
  RequestMayThrow = FALSE
  MayStop = FALSE
PROPERTY FailedIsRetried
CHECK_DEADLOCK FALSE
