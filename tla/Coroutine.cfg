\* Three coroutines on two threads nest, move and take turns on one shared stack.
SPECIFICATION Spec
CONSTANTS
  Threads = {t1, t2}
  Coroutines = {c1, c2, c3}
  SharedStacks = {s1}
  NULL = NULL
  Size = 4
INVARIANTS TypeOK ChainsAreRight
PROPERTIES ReturnsToStarter ThreadRegainsControl
CHECK_DEADLOCK FALSE
