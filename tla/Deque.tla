-------------------------------- MODULE Deque --------------------------------
(***************************************************************************)
(* deque.hpp: ArrayDeque, a ring that fills every place and counts its     *)
(* values, and LinkedListDeque, doubly linked.  A program makes the same   *)
(* calls on both.                                                          *)
(***************************************************************************)
EXTENDS LinkedNodes

CONSTANTS Values,        \* what a program pushes
          MaxLength,     \* bound: values held at a time
          DefaultSize,   \* the first capacity, 16 in the code
          ResizeLimit,   \* beyond it the capacity no longer doubles, 1024 in the code
          EMPTY          \* a place of the array without a living value

VARIABLES ring,          \* ArrayDeque: data_, front_, rear_, capacity_, size_
          chain          \* LinkedListDeque: its nodes, front_, rear_, size_

Fresh(length) == [i \in 0..(length - 1) |-> EMPTY]

Init ==
    /\ ring = [data |-> Fresh(DefaultSize), front |-> 0, rear |-> 0,
               capacity |-> DefaultSize, size |-> 0]
    /\ chain = [nodes |-> <<>>, front |-> NULL, rear |-> NULL, size |-> 0]

(***************************************************************************)
(* ArrayDeque: front_ and rear_ are the next places to fill.               *)
(***************************************************************************)
Forth(r, i) == (i + 1) % r.capacity
Back(r, i) == (i - 1 + r.capacity) % r.capacity

\* The ring after resize().
Resized ==
    LET length == IF ring.capacity > ResizeLimit THEN ring.capacity + ResizeLimit
                  ELSE 2 * ring.capacity
        first == Forth(ring, ring.front)
    IN  IF ring.size < ring.capacity THEN ring
        ELSE [data |-> [i \in 0..(length - 1) |->
                          IF i < ring.size THEN ring.data[(first + i) % ring.capacity] ELSE EMPTY],
              front |-> length - 1, rear |-> ring.size, capacity |-> length, size |-> ring.size]

\* The first value takes the place of one of the two indexes, and the other goes on.
Untouched(r) == r.size = 0 /\ r.front = r.rear

RingPushBack(v) ==
    LET r == Resized
    IN  ring' = [r EXCEPT !.front = IF Untouched(r) THEN Back(r, @) ELSE @,
                          !.data[r.rear] = v, !.rear = Forth(r, @), !.size = @ + 1]

RingPushFront(v) ==
    LET r == Resized
    IN  ring' = [r EXCEPT !.rear = IF Untouched(r) THEN Forth(r, @) ELSE @,
                          !.data[r.front] = v, !.front = Back(r, @), !.size = @ + 1]

RingPopFront ==
    LET first == Forth(ring, ring.front)
    IN  ring' = [ring EXCEPT !.front = first, !.data[first] = EMPTY, !.size = @ - 1]

RingPopBack ==
    LET last == Back(ring, ring.rear)
    IN  ring' = [ring EXCEPT !.rear = last, !.data[last] = EMPTY, !.size = @ - 1]

(***************************************************************************)
(* LinkedListDeque.                                                        *)
(***************************************************************************)
Node(v, pre, next) == [val |-> v, pre |-> pre, next |-> next]

ChainPushBack(v) ==
    LET node == New(chain.nodes)
        first == chain.size = 0
        linked == IF first THEN chain.nodes ELSE [chain.nodes EXCEPT ![chain.rear].next = node]
    IN  chain' = [nodes |-> With(linked, node, Node(v, IF first THEN NULL ELSE chain.rear, NULL)),
                  front |-> IF first THEN node ELSE chain.front,
                  rear |-> node,
                  size |-> chain.size + 1]

ChainPushFront(v) ==
    LET node == New(chain.nodes)
        first == chain.size = 0
        linked == IF first THEN chain.nodes ELSE [chain.nodes EXCEPT ![chain.front].pre = node]
    IN  chain' = [nodes |-> With(linked, node, Node(v, NULL, IF first THEN NULL ELSE chain.front)),
                  front |-> node,
                  rear |-> IF first THEN node ELSE chain.rear,
                  size |-> chain.size + 1]

ChainPopFront ==
    LET next == chain.nodes[chain.front].next
        left == Deleted(chain.nodes, chain.front)
    IN  chain' = [nodes |-> IF next = NULL THEN left ELSE [left EXCEPT ![next].pre = NULL],
                  front |-> next,
                  rear |-> IF chain.size = 1 THEN NULL ELSE chain.rear,
                  size |-> chain.size - 1]

\* A slip for the mutant runs: front_ keeps pointing at the node that was the last.
ChainPopBackKeepsFront ==
    LET pre == chain.nodes[chain.rear].pre
        left == Deleted(chain.nodes, chain.rear)
    IN  chain' = [nodes |-> IF pre = NULL THEN left ELSE [left EXCEPT ![pre].next = NULL],
                  front |-> chain.front,
                  rear |-> pre,
                  size |-> chain.size - 1]

ChainPopBack ==
    LET pre == chain.nodes[chain.rear].pre
        left == Deleted(chain.nodes, chain.rear)
    IN  chain' = [nodes |-> IF pre = NULL THEN left ELSE [left EXCEPT ![pre].next = NULL],
                  front |-> IF chain.size = 1 THEN NULL ELSE chain.front,
                  rear |-> pre,
                  size |-> chain.size - 1]

\* A pop of an empty deque throws and changes nothing.
push_back(v) == ring.size < MaxLength /\ RingPushBack(v) /\ ChainPushBack(v)
push_front(v) == ring.size < MaxLength /\ RingPushFront(v) /\ ChainPushFront(v)
pop_front == ring.size > 0 /\ RingPopFront /\ ChainPopFront
pop_back == ring.size > 0 /\ RingPopBack /\ ChainPopBack

Next == pop_front \/ pop_back \/ \E v \in Values : push_back(v) \/ push_front(v)

Spec == Init /\ [][Next]_<<ring, chain>>

-----------------------------------------------------------------------------
Both == {"push_back", "push_front", "pop_back", "pop_front"}
RingItems == [i \in 1..ring.size |-> ring.data[(ring.front + i) % ring.capacity]]
ChainItems == ValuesAlong(chain.nodes, chain.front, "next", chain.size)

\* deque.hpp:75-130, 175-230: both are sequences with two ends, through every wrap of the
\* ring, both ways of growing and every return to empty.
RingSequence == INSTANCE Sequence WITH items <- RingItems, Calls <- Both
ChainSequence == INSTANCE Sequence WITH items <- ChainItems, Calls <- Both

\* deque.hpp:63-74, 163-174: front() and back() of the two classes answer alike, the nodes
\* are linked backwards as they are forwards, and an empty deque points nowhere.
AnswersAgree ==
    /\ ring.size = chain.size /\ Cardinality(DOMAIN chain.nodes) = chain.size
    /\ IF ring.size = 0 THEN chain.front = NULL /\ chain.rear = NULL
       ELSE /\ ring.data[Forth(ring, ring.front)] = chain.nodes[chain.front].val
            /\ ring.data[Back(ring, ring.rear)] = chain.nodes[chain.rear].val
    /\ ValuesAlong(chain.nodes, chain.rear, "pre", chain.size)
         = [i \in 1..ring.size |-> RingItems[ring.size + 1 - i]]
=============================================================================
