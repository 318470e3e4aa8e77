-------------------------------- MODULE Queue --------------------------------
(***************************************************************************)
(* queue.hpp: ArrayQueue, a ring with one place left free, and             *)
(* LinkedListQueue.  A program makes the same calls on both.               *)
(***************************************************************************)
EXTENDS LinkedNodes

CONSTANTS Values,        \* what a program pushes
          MaxLength,     \* bound: values held at a time
          DefaultSize,   \* the first capacity, 16 in the code
          ResizeLimit,   \* beyond it the capacity no longer doubles, 1024 in the code
          EMPTY          \* a place of the array without a living value

VARIABLES ring,          \* ArrayQueue: data_, front_, rear_, capacity_
          chain          \* LinkedListQueue: its nodes, head_, tail_, size_

Fresh(length) == [i \in 0..(length - 1) |-> EMPTY]

Init ==
    /\ ring = [data |-> Fresh(DefaultSize), front |-> 0, rear |-> 0, capacity |-> DefaultSize]
    /\ chain = [nodes |-> <<>>, head |-> NULL, tail |-> NULL, size |-> 0]

(***************************************************************************)
(* ArrayQueue.                                                             *)
(***************************************************************************)
size == (ring.rear - ring.front + ring.capacity) % ring.capacity
empty == ring.rear = ring.front
full == (ring.rear + 1) % ring.capacity = ring.front

\* A slip for the mutant runs: the values are copied from the start of the array.
ResizedFromZero ==
    LET length == IF ring.capacity > ResizeLimit THEN ring.capacity + ResizeLimit
                  ELSE 2 * ring.capacity
    IN  [data |-> [i \in 0..(length - 1) |-> IF i < size THEN ring.data[i] ELSE EMPTY],
         front |-> 0, rear |-> size, capacity |-> length]

\* The ring after resize().
Resized ==
    LET length == IF ring.capacity > ResizeLimit THEN ring.capacity + ResizeLimit
                  ELSE 2 * ring.capacity
    IN  [data |-> [i \in 0..(length - 1) |->
                     IF i < size THEN ring.data[(i + ring.front) % ring.capacity] ELSE EMPTY],
         front |-> 0, rear |-> size, capacity |-> length]

RingPush(v) ==
    LET grown == IF full THEN Resized ELSE ring
    IN  ring' = [grown EXCEPT !.data[grown.rear] = v, !.rear = (@ + 1) % grown.capacity]

RingPop ==
    ring' = [ring EXCEPT !.data[ring.front] = EMPTY, !.front = (@ + 1) % ring.capacity]

(***************************************************************************)
(* LinkedListQueue.  tail_ is not reset when the last node goes.           *)
(***************************************************************************)
ChainPush(v) ==
    LET node == New(chain.nodes)
        linked == IF chain.size = 0 THEN chain.nodes
                  ELSE [chain.nodes EXCEPT ![chain.tail].next = node]
    IN  chain' = [nodes |-> With(linked, node, [val |-> v, next |-> NULL]),
                  head |-> IF chain.size = 0 THEN node ELSE chain.head,
                  tail |-> node,
                  size |-> chain.size + 1]

ChainPop ==
    chain' = [chain EXCEPT !.nodes = Deleted(@, chain.head),
                           !.head = chain.nodes[chain.head].next,
                           !.size = @ - 1]

\* A pop of an empty queue throws and changes nothing.
push(v) == size < MaxLength /\ RingPush(v) /\ ChainPush(v)
pop == ~empty /\ RingPop /\ ChainPop

Next == pop \/ \E v \in Values : push(v)

Spec == Init /\ [][Next]_<<ring, chain>>

-----------------------------------------------------------------------------
RingItems == [i \in 1..size |-> ring.data[(ring.front + i - 1) % ring.capacity]]
ChainItems == ValuesAlong(chain.nodes, chain.head, "next", chain.size)

\* queue.hpp:115-128, 182-205: both are sequences, through every wrap of the ring, both
\* ways of growing and every return to empty.
RingSequence == INSTANCE Sequence WITH items <- RingItems, Calls <- {"push_back", "pop_front"}
ChainSequence == INSTANCE Sequence WITH items <- ChainItems, Calls <- {"push_back", "pop_front"}

\* What back() returns: the place before rear_, which is not in the array when rear_ is 0.
RingBack == ring.data[ring.rear - 1]
ChainBack == chain.nodes[chain.tail].val

\* queue.hpp:68-91, 157-180: the two classes answer alike, but for the ArrayQueue's
\* back() when the last push has filled the last place.
AnswersAgree ==
    /\ size = chain.size
    /\ ~empty => /\ ring.data[ring.front] = chain.nodes[chain.head].val
                 /\ ring.rear # 0 => RingBack = ChainBack
    /\ Cardinality(DOMAIN chain.nodes) = chain.size
=============================================================================
