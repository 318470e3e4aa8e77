\* Three of four keys fit: every insertion beyond the third evicts.
\* Arrays grow from 2 to 4 to 7 places.  What has crashed or aborted stops.
SPECIFICATION ContainerSpec
CONSTANTS
  Keys = {k1, k2, k3, k4}
  Values = {v1, v2}
  Capacity = 3
  MaxFreq = 3
  MISSING = MISSING
  NIL = NIL
  Checked = {"lfu", "lru", "bst", "avl", "rb", "table", "queue", "deque", "stack", "heap",
             "sorts", "algorithms", "lists"}
  BSTPairs <- FivePairsAndZero
  AVLPairs <- EightPairs
  RBPairs <- SixPairsAndZero
  HashPairs <- FivePairsAndZero
  Hash <- Collisions
  Numbers = {1, 2, 3}
  Pushed = {v1, v2}
  MaxLength = 5
  FirstSize = 2
  ResizeLimit = 3
  EMPTY = EMPTY
  NOWHERE = NOWHERE
  Ints <- MixedInts
  MaxLen = 5
  MaxSpread = 100
  Garbage = Garbage
  Signed <- SignedNumbers
  MaxSize = 5
  Coins = {3, 4, 7}
  MaxAmount = 14
  Decimals = {1, 5, 9}
  MaxNodes = 7
  MaxDigits = 3
INVARIANTS TypeOK TablesAgree MinFreqIsLeast NeverOverfull IteratorsLive
INVARIANTS TreesAndIteratorRight AnswersRight ExercisesRight
PROPERTIES CachesEvictRightly InsertKeepsBalance DictionariesAndHeapRight ContainersRight
CHECK_DEADLOCK FALSE
