---------------------------- MODULE LinkedNodes ----------------------------
(***************************************************************************)
(* The nodes of the linked queue, deque and stack: what is allocated, and  *)
(* the size_ of the container.  The nodes are numbered; new returns the    *)
(* first free one, which shows a pointer to a freed node as well as any    *)
(* other.                                                                  *)
(***************************************************************************)
EXTENDS Integers, Sequences, FiniteSets

CONSTANT NULL

\* A pointer that still holds a freed node finds no node there.
IsNode(nodes, p) == p \in DOMAIN nodes

New(nodes) == CHOOSE p \in 1..(Cardinality(DOMAIN nodes) + 1) : ~IsNode(nodes, p)

Deleted(nodes, p) == [q \in DOMAIN nodes \ {p} |-> nodes[q]]

With(nodes, p, node) == [q \in DOMAIN nodes \cup {p} |-> IF q = p THEN node ELSE nodes[q]]

\* The n nodes from p on, along next_ or pre_; a walk that leaves the nodes ends.
Walk(nodes, p, link, n) ==
    LET at[i \in 1..n] == IF i = 1 THEN p
                          ELSE IF IsNode(nodes, at[i - 1]) THEN nodes[at[i - 1]][link] ELSE NULL
    IN  at

\* The values of a chain of n nodes; NULL where there is no node.
ValuesAlong(nodes, p, link, n) ==
    [i \in 1..n |-> LET q == Walk(nodes, p, link, n)[i]
                    IN  IF IsNode(nodes, q) THEN nodes[q].val ELSE NULL]
=============================================================================
