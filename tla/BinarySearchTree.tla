-------------------------- MODULE BinarySearchTree --------------------------
(***************************************************************************)
(* BinarySearchTree.hpp: the unbalanced tree.  Its loops go down one path  *)
(* and rewrite one link; here the path is rebuilt around that link.        *)
(***************************************************************************)
EXTENDS SearchTree

CONSTANT Pairs          \* the <<key, value>> a program inserts

VARIABLES root,         \* root_
          ret           \* what the last call returned

TreeKeys == {p[1] : p \in Pairs}

Node(k, v) == [key |-> k, val |-> v, left |-> NULL, right |-> NULL]

Init == /\ root = NULL
        /\ ret = TRUE

RECURSIVE Placed(_, _, _)
Placed(t, k, v) ==
  IF t = NULL THEN Node(k, v)
  ELSE IF k < t.key THEN [t EXCEPT !.left = Placed(@, k, v)]
  ELSE [t EXCEPT !.right = Placed(@, k, v)]

insert(k, v) ==
  /\ ret' = (k \notin Held(root))
  /\ root' = IF k \in Held(root) THEN root ELSE Placed(root, k, v)

\* The only child of a node, or NULL.
Child(t) == IF t.left # NULL THEN t.left ELSE t.right

RECURSIVE PreNodeUnlinked(_), Unlinked(_, _)
\* The tree without its greatest node, the predecessor that was moved up.
PreNodeUnlinked(t) == IF t.right = NULL THEN Child(t)
                      ELSE [t EXCEPT !.right = PreNodeUnlinked(@)]

Unlinked(t, k) ==
  CASE k > t.key -> [t EXCEPT !.right = Unlinked(@, k)]
    [] k < t.key -> [t EXCEPT !.left = Unlinked(@, k)]
    [] k = t.key /\ t.left # NULL /\ t.right # NULL ->
         [t EXCEPT !.key = find_max(t.left).key, !.val = find_max(t.left).val,
                   !.left = PreNodeUnlinked(@)]
    [] OTHER -> Child(t)

deletenode(k) ==
  /\ ret' = (k \in Held(root))
  /\ root' = IF k \in Held(root) THEN Unlinked(root, k) ELSE root

Next == \/ \E p \in Pairs : insert(p[1], p[2])
        \/ \E k \in TreeKeys : deletenode(k)

Spec == Init /\ [][Next]_<<root, ret>>

-----------------------------------------------------------------------------
\* Every node holds a pair that was inserted.
TypeOK == /\ \A k \in Held(root) : <<k, find(root, k)>> \in Pairs
          /\ ret \in BOOLEAN

\* Whatever the shape the insertions and deletions leave, a search finds exactly
\* what a table of the same calls holds (BinarySearchTree.hpp:104-128).
Dict == INSTANCE Dictionary WITH dict <- [k \in TreeKeys |-> find(root, k)],
                                 Overwrites <- FALSE
=============================================================================
