\* Four keys: the third insertion rotates, the second deletion is the fault.
SPECIFICATION ContainerSpec
CONSTANTS
  Keys = {k1}
  Values = {v1}
  Capacity = 1
  MaxFreq = 2
  MISSING = MISSING
  NIL = NIL
  Checked = {"rb"}
  BSTPairs <- FourPairsAndZero
  AVLPairs <- FourPairsAndZero
  RBPairs <- FourPairsAndZero
  HashPairs <- FivePairsAndZero
  Hash <- Collisions
  Numbers = {1, 2, 3}
  Pushed = {v1}
  MaxLength = 5
  FirstSize = 2
  ResizeLimit = 3
  EMPTY = EMPTY
  NOWHERE = NOWHERE
  Ints <- MixedInts
  MaxLen = 1
  MaxSpread = 100
  Garbage = Garbage
  Signed <- SignedNumbers
  MaxSize = 1
  Coins = {3, 4, 7}
  MaxAmount = 1
  Decimals = {1, 5, 9}
  MaxNodes = 1
  MaxDigits = 1
INVARIANT RedBlack
CHECK_DEADLOCK FALSE
