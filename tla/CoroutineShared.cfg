\* Two coroutines take turns on one shared stack.
SPECIFICATION Spec
CONSTANTS
  Threads = {t1}
  Coroutines = {c1, c2}
  SharedStacks = {s1}
  NULL = NULL
  Size = 3
INVARIANTS FramesSurvive
CHECK_DEADLOCK FALSE
