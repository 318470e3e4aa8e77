---------------------------- MODULE PriorityQueue ----------------------------
(***************************************************************************)
(* priority_queue.hpp: a binary heap in an array, greatest value first.    *)
(***************************************************************************)
EXTENDS Integers, FiniteSets

CONSTANTS Values,        \* numbers a program pushes
          MaxLength,     \* bound: values held at a time
          DefaultSize,   \* the first capacity, 32 in the code
          ResizeLimit    \* beyond it the capacity no longer doubles, 1024 in the code

VARIABLES data,          \* data_[0..size_-1]
          capacity       \* capacity_

\* The capacity after resize(len).
Resized(len) ==
    LET grown == IF capacity > ResizeLimit THEN capacity + ResizeLimit
                 ELSE IF capacity # 0 THEN 2 * capacity
                 ELSE DefaultSize
    IN  IF len <= capacity THEN capacity
        ELSE IF grown < len THEN len
        ELSE grown

\* The array d with val in the place it floats up to from place son, which is free.
RECURSIVE ShiftedUp(_, _, _)
ShiftedUp(d, son, val) ==
    LET parent == (son - 1) \div 2
    IN  IF son > 0 /\ ~(val < d[parent])
        THEN ShiftedUp([d EXCEPT ![son] = d[parent]], parent, val)
        ELSE [d EXCEPT ![son] = val]

\* A slip for the mutant runs: always the left child.
LeftChild(d, size, child) == child

GreaterChild(d, size, child) ==
    IF child + 1 < size /\ d[child] < d[child + 1] THEN child + 1 ELSE child

\* The array d with val in the place it sinks to from place parent, which is free.
RECURSIVE ShiftedDown(_, _, _, _)
ShiftedDown(d, size, parent, val) ==
    LET child == GreaterChild(d, size, 2 * parent + 1)
    IN  IF 2 * parent + 1 < size /\ ~(d[child] < val)
        THEN ShiftedDown([d EXCEPT ![parent] = d[child]], size, child, val)
        ELSE [d EXCEPT ![parent] = val]

\* The heap made of the first n values of an array by shiftdown(i), i going down to 0.
RECURSIVE Heapified(_, _, _)
Heapified(d, size, i) ==
    IF i < 0 THEN d ELSE Heapified(ShiftedDown(d, size, i, d[i]), size, i - 1)

size == Cardinality(DOMAIN data)

\* ArrayPriorityQueue(), or ArrayPriorityQueue(array, len).
Init ==
    \E len \in 0..MaxLength : \E array \in [0..(len - 1) -> Values] :
        /\ data = Heapified(array, len, (len \div 2) - 1)
        /\ capacity = IF len = 0 THEN 0 ELSE IF DefaultSize < len THEN len ELSE DefaultSize

push(v) ==
    /\ size < MaxLength
    /\ capacity' = Resized(size + 1)
    /\ data' = ShiftedUp([i \in 0..size |-> IF i = size THEN v ELSE data[i]], size, v)

\* A pop of an empty queue throws and changes nothing.
pop ==
    /\ size > 0
    /\ data' = IF size = 1 THEN <<>>
               ELSE ShiftedDown([i \in 0..(size - 2) |-> data[i]], size - 1, 0, data[size - 1])
    /\ UNCHANGED capacity

Next == pop \/ \E v \in Values : push(v)

Spec == Init /\ [][Next]_<<data, capacity>>

-----------------------------------------------------------------------------
\* The array never holds more values than it has places.
FitsIn == size <= capacity

Held == [v \in {data[i] : i \in DOMAIN data} |-> Cardinality({i \in DOMAIN data : data[i] = v})]

\* priority_queue.hpp:81-192: what pop takes is always a greatest value and every other
\* stays, however values have sunk and floated, duplicates included.
Bag == INSTANCE MaxBag WITH held <- Held
=============================================================================
