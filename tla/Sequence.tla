------------------------------ MODULE Sequence ------------------------------
(***************************************************************************)
(* What QueueBase, DequeBase and StackBase promise: a sequence of values   *)
(* that grows and shrinks at the ends their calls name.                    *)
(***************************************************************************)
EXTENDS Integers, Sequences

CONSTANTS Values,      \* what a program pushes
          Calls,       \* the calls of the class
          MaxLength    \* bound: values held at a time

VARIABLE items

Init == items = <<>>

PushBack(v) == "push_back" \in Calls /\ Len(items) < MaxLength /\ items' = Append(items, v)
PushFront(v) == "push_front" \in Calls /\ Len(items) < MaxLength /\ items' = <<v>> \o items
PopBack == "pop_back" \in Calls /\ items # <<>> /\ items' = SubSeq(items, 1, Len(items) - 1)
PopFront == "pop_front" \in Calls /\ items # <<>> /\ items' = Tail(items)

Next == PopBack \/ PopFront \/ \E v \in Values : PushBack(v) \/ PushFront(v)

Spec == Init /\ [][Next]_items
=============================================================================
