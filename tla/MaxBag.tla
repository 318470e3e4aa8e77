------------------------------- MODULE MaxBag -------------------------------
(***************************************************************************)
(* What PriorityQueueBase promises: a bag of values of which pop removes   *)
(* a greatest one.                                                         *)
(***************************************************************************)
EXTENDS Integers, Bags, BagsExt

CONSTANTS Values,      \* what a program pushes
          MaxLength    \* bound: values held at a time

VARIABLE held          \* the values, as a bag

Init == held \in {bag \in UNION {[S -> 1..MaxLength] : S \in SUBSET Values} :
                    BagCardinality(bag) <= MaxLength}

Push(v) == BagCardinality(held) < MaxLength /\ held' = BagAdd(held, v)

Pop == \E v \in DOMAIN held : /\ \A w \in DOMAIN held : w <= v
                              /\ held' = BagRemove(held, v)

Next == Pop \/ \E v \in Values : Push(v)

Spec == Init /\ [][Next]_held
=============================================================================
