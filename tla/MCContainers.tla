----------------------------- MODULE MCContainers -----------------------------
(***************************************************************************)
(* One program that holds one of the containers: the two caches, the three *)
(* search trees, the hash table, the queues, deques and stacks and the     *)
(* priority queue share nothing, so each is checked on its own.  So are    *)
(* the programs that try the sorts and the exercises.                      *)
(***************************************************************************)
EXTENDS LFUCacheHistory, LRUState, Containers

CONSTANTS Checked,                       \* the containers to check
          NIL,                           \* the sentinel of the RBTree
          BSTPairs, AVLPairs, RBPairs,   \* what the programs insert
          Numbers,                       \* what they push in the heap
          Ints, MaxLen, MaxSpread, Garbage,   \* of Sorts
          Signed, MaxSize, Coins, MaxAmount,  \* of Algorithms
          Decimals, MaxNodes, MaxDigits         \* of ListAlgorithms

VARIABLES which,
          bstRoot, bstRet,              \* the BinarySearchTree
          avlRoot, avlRet, aborted,     \* the AVLTree
          tree, rbRet,                  \* the RBTree
          data, capacity,               \* the ArrayPriorityQueue
          b, ptr,                       \* the program that sorts
          nums, needle, amount,         \* the exercises on vectors and texts
          one, two, entry, next, number, head,   \* the exercises on lists
          ran, ret                      \* what any of these three has called, and its answer

\* A program that inserts 1, 2, ..., n in any order, each with itself as value ...
EightPairs == {<<k, k>> : k \in 1..8}
SevenPairs == {<<k, k>> : k \in 1..7}

\* ... or 2 with two values: a key that is inserted again with another.
FourPairsAndZero == {<<k, k>> : k \in 1..4} \cup {<<2, 0>>}
FivePairsAndZero == {<<k, k>> : k \in 1..5} \cup {<<2, 0>>}
SixPairsAndZero == {<<k, k>> : k \in 1..6} \cup {<<2, 0>>}

\* Numbers of one to three digits, before and after the sorts take off the negative one.
MixedInts == {-5, 12, 17, 103}
SignedNumbers == {-1, 0, 1, 2}

\* Keys 1 and 2 are in one chain up to a capacity of 4, keys 1 and 4 up to 8.
Collisions == [k \in 1..5 |-> CASE k = 1 -> 0 [] k = 2 -> 4 [] k = 3 -> 1 [] k = 4 -> 8
                                 [] OTHER -> 5]

LRU == INSTANCE LRUCache
BST == INSTANCE BinarySearchTree WITH root <- bstRoot, ret <- bstRet,
                                      Pairs <- BSTPairs, NULL <- MISSING
AVL == INSTANCE AVLTree WITH root <- avlRoot, ret <- avlRet,
                             Pairs <- AVLPairs, NULL <- MISSING
RB == INSTANCE RBTree WITH ret <- rbRet, Pairs <- RBPairs, NULL <- MISSING

Heap == INSTANCE PriorityQueue WITH Values <- Numbers, DefaultSize <- FirstSize
Sort == INSTANCE Sorts
Vector == INSTANCE Algorithms WITH Numbers <- Signed
Linked == INSTANCE ListAlgorithms WITH k <- number, NULL <- MISSING

lruVars == <<list, map, found>>
bstVars == <<bstRoot, bstRet>>
avlVars == <<avlRoot, avlRet, aborted>>
rbVars == <<tree, rbRet>>
heapVars == <<data, capacity>>
exerciseVars == <<b, ptr, nums, needle, amount, one, two, entry, next, number, head, ran, ret>>
treeVars == <<bstVars, avlVars, rbVars>>
sequenceVars == <<queueVars, dequeVars, stackVars, heapVars>>
containerVars == <<which, contains, freq2Key, minFreq, out, older, lruVars,
                   bstRoot, bstRet, avlRoot, avlRet, aborted, tree, rbRet,
                   chains, use, hashRet, crashed, queueRing, queueChain,
                   dequeRing, dequeChain, stackArray, stackChain, data, capacity, exerciseVars>>

\* m_minFreq starts as it may be found in memory, the heap as any array's, and any array
\* is sorted, where they are used.
ContainerInit == /\ HistoryInit /\ LRU!Init /\ BST!Init /\ AVL!Init /\ RB!Init /\ Table!Init
                 /\ Queues!Init /\ Deques!Init /\ Stacks!Init /\ Heap!Init
                 /\ which \in Checked
                 /\ which # "lfu" => minFreq = 1
                 /\ which # "heap" => capacity = 0
                 /\ IF which = "sorts" THEN Sort!Init ELSE b = <<>> /\ ptr = <<>>
                 /\ IF which = "algorithms" THEN Vector!Init
                    ELSE nums = <<>> /\ needle = <<>> /\ amount = 1
                 /\ IF which = "lists" THEN Linked!Init
                    ELSE /\ one = <<>> /\ two = <<>> /\ next = <<>> /\ number = 0
                         /\ entry = MISSING /\ head = MISSING
                 /\ ran = "none"
                 /\ IF which \in {"algorithms", "lists"} THEN TRUE ELSE ret = MISSING

LFUStep == /\ which = "lfu" /\ HistoryNext
           /\ UNCHANGED <<which, lruVars, treeVars, tableVars, sequenceVars, exerciseVars>>
LRUStep == /\ which = "lru" /\ LRU!Next
           /\ UNCHANGED <<which, historyVars, treeVars, tableVars, sequenceVars, exerciseVars>>
BSTStep == /\ which = "bst" /\ BST!Next
           /\ UNCHANGED <<which, historyVars, lruVars, avlVars, rbVars, tableVars,
                          sequenceVars, exerciseVars>>
AVLStep == /\ which = "avl" /\ AVL!Next
           /\ UNCHANGED <<which, historyVars, lruVars, bstVars, rbVars, tableVars,
                          sequenceVars, exerciseVars>>
RBStep == /\ which = "rb" /\ RB!Next
          /\ UNCHANGED <<which, historyVars, lruVars, bstVars, avlVars, tableVars,
                         sequenceVars, exerciseVars>>
TableStep == /\ which = "table" /\ Table!Next
             /\ UNCHANGED <<which, historyVars, lruVars, treeVars, sequenceVars, exerciseVars>>

SequenceStep ==
    /\ \/ which = "queue" /\ Queues!Next /\ UNCHANGED <<dequeVars, stackVars, heapVars>>
       \/ which = "deque" /\ Deques!Next /\ UNCHANGED <<queueVars, stackVars, heapVars>>
       \/ which = "stack" /\ Stacks!Next /\ UNCHANGED <<queueVars, dequeVars, heapVars>>
       \/ which = "heap" /\ Heap!Next /\ UNCHANGED <<queueVars, dequeVars, stackVars>>
    /\ UNCHANGED <<which, historyVars, lruVars, treeVars, tableVars, exerciseVars>>

ExerciseStep ==
    /\ \/ /\ which = "sorts" /\ Sort!Next
          /\ UNCHANGED <<nums, needle, amount, one, two, entry, next, number, head, ret>>
       \/ /\ which = "algorithms" /\ Vector!Next
          /\ UNCHANGED <<b, ptr, one, two, entry, next, number, head>>
       \/ which = "lists" /\ Linked!Next /\ UNCHANGED <<b, ptr, nums, needle, amount>>
    /\ UNCHANGED <<which, historyVars, lruVars, treeVars, tableVars, sequenceVars>>

ContainerNext == \/ LFUStep \/ LRUStep \/ BSTStep \/ AVLStep \/ RBStep
                 \/ TableStep \/ SequenceStep \/ ExerciseStep

ContainerSpec == ContainerInit /\ [][ContainerNext]_containerVars

-----------------------------------------------------------------------------
\* LFU_Cache.h:5-12, LRU_Cache.h:2-3: what leaves a full cache is the oldest of the keys
\* used least, or the key used longest ago; what stays answers with the value put last.
CachesEvictRightly == EvictsLeastFrequent /\ LRU!Abstract!Spec

\* The trees hold pairs that were inserted.  AVL_Tree.hpp: the stored heights, by which
\* every rotation is chosen, are the true ones, also in a tree that a deletion has left
\* unbalanced.  RBTree.hpp:8-12: the rules hold, every parent_ is the node its own hangs
\* from, and no null pointer is followed, up to the first deletion that goes through
\* RBTree.hpp:648.  BinarySearchTree.hpp:33-35: predecessors (by that definition; 44-45
\* and 52 say otherwise), successors and the nine traversals are right in every tree, whatever
\* calls have shaped it.  hash_table.c:162-182: an iteration returns every key once, whatever
\* chains are empty, to a caller that was handed the iterator (no statement returns it).
TreesAndIteratorRight ==
  /\ BST!TypeOK /\ AVL!TypeOK /\ RB!TypeOK
  /\ AVL!HeightsRight
  /\ RB!RedBlackUntilLost
  /\ BST!NeighboursRight(bstRoot, BST!TreeKeys) /\ BST!TraversalsAgree(bstRoot)
  /\ AVL!NeighboursRight(avlRoot, AVL!TreeKeys) /\ AVL!TraversalsAgree(avlRoot)
  /\ RB!NeighboursRight(RB!AsTree(tree), RB!TreeKeys) /\ RB!TraversalsAgree(RB!AsTree(tree))
  /\ Table!IteratesAll

\* AVL_Tree.hpp:603: an insertion leaves a balanced tree balanced, at every node
\* (the code's own assertion looks at three of them).
InsertKeepsBalance == AVL!InsertKeepsBalance

\* Whatever nodes rotations and deletions have moved, a search of a tree finds exactly what a
\* dictionary of the same calls holds; a red-black tree that has lost its rules still does,
\* up to the crash.  priority_queue.hpp:81-192: pop takes a greatest value and keeps the
\* others, in an array that has place for them.
DictionariesAndHeapRight ==
  /\ BST!Dict!Spec /\ AVL!Dict!Spec /\ RB!Dict!Spec
  /\ Heap!Bag!Spec /\ []Heap!FitsIn

\* Sort/main_sort.c:57-65: every function sorts every array and keeps what it holds, but
\* for one value in recursive_merge_sort and values too far apart in count_sort.
\* Algorithm/: the exercises give the answer that the comments above them ask for (lookright
\* a greater one when two of the same height are in sight of each other), and the lists keep
\* their nodes, but for a circle that the head is in.
ExercisesRight ==
  /\ which = "sorts" => Sort!TypeOK /\ Sort!EverySortSorts
  /\ which = "algorithms" => Vector!TypeOK /\ Vector!AnswersRight
  /\ which = "lists" => Linked!TypeOK /\ Linked!ListsRight

\* RBTree.hpp:8-12: the rules hold after every call, deletions included.
RedBlack == RB!RedBlack

\* AVL_Tree.hpp:603: the assertion at the end of an insertion never fails.
AssertionHolds == AVL!AssertionHolds
=============================================================================
