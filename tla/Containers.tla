------------------------------ MODULE Containers ------------------------------
(***************************************************************************)
(* The queues, deques and stacks of one program, for each the class that   *)
(* keeps an array and the class that links nodes, and its hash table.      *)
(* They share nothing.                                                     *)
(***************************************************************************)
EXTENDS Integers

CONSTANTS Pushed,        \* what a program pushes
          MaxLength,     \* bound: values held at a time
          FirstSize,     \* the first capacity: 16 in queue.hpp and deque.hpp, 32 in stack.hpp
          ResizeLimit,   \* beyond it a capacity no longer doubles, 1024 in the code
          EMPTY,         \* no value, in a place of an array or of a key
          HashPairs,     \* what a program inserts in the hash table
          Hash,          \* hash_ of every key
          NOWHERE        \* a null pointer

ASSUME SizesAssumption == /\ FirstSize \in Nat \ {0} /\ ResizeLimit \in Nat \ {0}
                          /\ MaxLength \in Nat
ASSUME NowhereAssumption == NOWHERE \notin Nat
ASSUME HashAssumption == /\ Hash \in [{p[1] : p \in HashPairs} -> Nat]
                         /\ \A p \in HashPairs : p[2] # EMPTY

VARIABLES queueRing, queueChain,        \* ArrayQueue and LinkedListQueue
          dequeRing, dequeChain,        \* ArrayDeque and LinkedListDeque
          stackArray, stackChain,       \* ArrayStack and LinkedListStack
          chains, use, hashRet, crashed    \* the hash table

queueVars == <<queueRing, queueChain>>
dequeVars == <<dequeRing, dequeChain>>
stackVars == <<stackArray, stackChain>>
tableVars == <<chains, use, hashRet, crashed>>

Queues == INSTANCE Queue WITH ring <- queueRing, chain <- queueChain, Values <- Pushed,
                              DefaultSize <- FirstSize, NULL <- NOWHERE
Deques == INSTANCE Deque WITH ring <- dequeRing, chain <- dequeChain, Values <- Pushed,
                              DefaultSize <- FirstSize, NULL <- NOWHERE
Stacks == INSTANCE Stack WITH array <- stackArray, chain <- stackChain, Values <- Pushed,
                              DefaultSize <- FirstSize, NULL <- NOWHERE
Table == INSTANCE HashTable WITH ret <- hashRet, Pairs <- HashPairs, NULL <- EMPTY

-----------------------------------------------------------------------------
\* queue.hpp, deque.hpp, stack.hpp: the array and the linked class of each are the same
\* sequence, through wraps, growth and every return to empty.  hash_table.c:18-126:
\* through collisions, growth and failed allocations a search finds what a dictionary of
\* the same calls holds, up to the crash.
ContainersRight ==
  /\ Queues!RingSequence!Spec /\ Queues!ChainSequence!Spec
  /\ Deques!RingSequence!Spec /\ Deques!ChainSequence!Spec
  /\ Stacks!ArraySequence!Spec /\ Stacks!ChainSequence!Spec
  /\ Table!Dict!Spec

\* queue.hpp:55-91, deque.hpp:63-74: size, front and back of the array and of the linked
\* class agree, but for ArrayQueue::back when rear_ is 0, and no node is leaked.
\* hash_table.c:146: the assertion of hash_table_clear, were it called now, holds.
AnswersRight == Queues!AnswersAgree /\ Deques!AnswersAgree /\ Table!ClearMeetsAll
=============================================================================
