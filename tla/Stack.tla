-------------------------------- MODULE Stack --------------------------------
(***************************************************************************)
(* stack.hpp: ArrayStack and LinkedListStack.  A program makes the same    *)
(* calls on both.                                                          *)
(***************************************************************************)
EXTENDS LinkedNodes

CONSTANTS Values,        \* what a program pushes
          MaxLength,     \* bound: values held at a time
          DefaultSize,   \* default_size, 32 in the code
          ResizeLimit,   \* realloclimit, 1024 in the code
          EMPTY          \* a place of the array without a living value

VARIABLES array,         \* ArrayStack: ptr_, size_, capcity_
          chain          \* LinkedListStack: its nodes, head_, size_

Fresh(length) == [i \in 0..(length - 1) |-> EMPTY]

Init ==
    /\ array = [ptr |-> Fresh(DefaultSize), size |-> 0, capcity |-> DefaultSize]
    /\ chain = [nodes |-> <<>>, head |-> NULL, size |-> 0]

\* The array with room for one more value.
Roomy ==
    LET length == IF array.capcity < ResizeLimit THEN 2 * array.capcity
                  ELSE array.capcity + ResizeLimit
    IN  IF array.capcity < array.size + 1
        THEN [ptr |-> [i \in 0..(length - 1) |-> IF i < array.size THEN array.ptr[i] ELSE EMPTY],
              size |-> array.size, capcity |-> length]
        ELSE array

ArrayPush(v) == array' = [Roomy EXCEPT !.ptr[array.size] = v, !.size = @ + 1]
ArrayPop == array' = [array EXCEPT !.ptr[array.size - 1] = EMPTY, !.size = @ - 1]

ChainPush(v) ==
    LET node == New(chain.nodes)
    IN  chain' = [nodes |-> With(chain.nodes, node, [val |-> v, next |-> chain.head]),
                  head |-> node, size |-> chain.size + 1]

ChainPop ==
    chain' = [nodes |-> Deleted(chain.nodes, chain.head),
              head |-> chain.nodes[chain.head].next, size |-> chain.size - 1]

\* A Pop of an empty stack throws and changes nothing.
Push(v) == array.size < MaxLength /\ ArrayPush(v) /\ ChainPush(v)
Pop == array.size > 0 /\ ArrayPop /\ ChainPop

Next == Pop \/ \E v \in Values : Push(v)

Spec == Init /\ [][Next]_<<array, chain>>

-----------------------------------------------------------------------------
\* What the iterator from begin() to end() meets, and the nodes from the bottom up.
ArrayItems == [i \in 1..array.size |-> array.ptr[i - 1]]
ChainItems ==
    LET down == ValuesAlong(chain.nodes, chain.head, "next", chain.size)
    IN  [i \in 1..chain.size |-> down[chain.size + 1 - i]]

\* stack.hpp:143-162, 220-238: both are stacks, through every growth of the array.
ArraySequence == INSTANCE Sequence WITH items <- ArrayItems, Calls <- {"push_back", "pop_back"}
ChainSequence == INSTANCE Sequence WITH items <- ChainItems, Calls <- {"push_back", "pop_back"}
=============================================================================
