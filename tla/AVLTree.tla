------------------------------- MODULE AVLTree -------------------------------
(***************************************************************************)
(* AVL_Tree.hpp: the height-balanced tree.  insert and deletenode return   *)
(* the node that takes the place of the one they were given, so here they  *)
(* are functions of a subtree.  size_ counts the nodes and is left out:    *)
(* that it changed is that the key was there or was not.                   *)
(***************************************************************************)
EXTENDS SearchTree

CONSTANT Pairs          \* the <<key, value>> a program inserts

VARIABLES root,         \* root_
          ret,          \* what the last call returned
          aborted       \* an assertion failed

vars == <<root, ret, aborted>>

TreeKeys == {p[1] : p \in Pairs}

Init == /\ root = NULL
        /\ ret = TRUE
        /\ aborted = FALSE

GetHeight(t) == IF t = NULL THEN 0 ELSE t.height

Taller(a, b) == IF a > b THEN a ELSE b

getbalancefactor(t) ==
  IF t = NULL THEN 0
  ELSE LET l == GetHeight(t.left)
           r == GetHeight(t.right)
       IN  IF l > r THEN l - r ELSE r - l

\* is_balance looks at the root and its children only.
is_balance(t) ==
  /\ getbalancefactor(t) <= 1
  /\ t # NULL => getbalancefactor(t.left) < 2 /\ getbalancefactor(t.right) < 2

Heightened(t) == [t EXCEPT !.height = Taller(GetHeight(t.left), GetHeight(t.right)) + 1]

leftRotate(t) ==
  Heightened([t.right EXCEPT !.left = Heightened([t EXCEPT !.right = t.right.left])])

\* Mutant: the node that goes down keeps its height_.
rightRotateStale(t) ==
  Heightened([t.left EXCEPT !.right = [t EXCEPT !.left = t.left.right]])

rightRotate(t) ==
  Heightened([t.left EXCEPT !.right = Heightened([t EXCEPT !.left = t.left.right])])

rightAndLeftRotate(t) == leftRotate([t EXCEPT !.right = rightRotate(@)])
leftAndRightRotate(t) == rightRotate([t EXCEPT !.left = leftRotate(@)])

-----------------------------------------------------------------------------
\* What insert does to a node after it went into the right or the left subtree.
InsertedRight(t, k) ==
  IF getbalancefactor(t) <= 1 THEN t
  ELSE IF k > t.right.key THEN leftRotate(t) ELSE rightAndLeftRotate(t)

\* Mutant: one rotation whatever the side the key went to.
InsertedLeftOnce(t, k) == IF getbalancefactor(t) <= 1 THEN t ELSE rightRotate(t)

InsertedLeft(t, k) ==
  IF getbalancefactor(t) <= 1 THEN t
  ELSE IF k > t.left.key THEN leftAndRightRotate(t) ELSE rightRotate(t)

RECURSIVE Inserted(_, _, _)
Inserted(t, k, v) ==
  IF t = NULL THEN [key |-> k, val |-> v, left |-> NULL, right |-> NULL, height |-> 1]
  ELSE IF k = t.key THEN [t EXCEPT !.val = v]
  ELSE Heightened(IF k > t.key
                  THEN InsertedRight([t EXCEPT !.right = Inserted(@, k, v)], k)
                  ELSE InsertedLeft([t EXCEPT !.left = Inserted(@, k, v)], k))

\* AVL_Tree.hpp:603: the insertion ends in an assertion.
insert(k, v) ==
  /\ ~aborted
  /\ root' = Inserted(root, k, v)
  /\ aborted' = ~is_balance(root')
  /\ ret' = (k \notin Held(root))

\* The end of deletenode for a node that stays.
Rebalanced(t) ==
  LET n == Heightened(t) IN
  CASE getbalancefactor(n) < 2 -> n
    [] getbalancefactor(n) >= 2 /\ GetHeight(n.left) > GetHeight(n.right) ->
         IF GetHeight(n.left.left) > GetHeight(n.left.right)
         THEN rightRotate(n) ELSE leftAndRightRotate(n)
    [] OTHER ->
         IF GetHeight(n.right.left) > GetHeight(n.right.right)
         THEN rightAndLeftRotate(n) ELSE leftRotate(n)

\* Two children: the node takes over the key of its neighbour in the higher
\* subtree, and the deletion goes on with that neighbour.
RECURSIVE Deleted(_, _)
Deleted(t, k) ==
  CASE t = NULL -> NULL
    [] t # NULL /\ k > t.key -> Rebalanced([t EXCEPT !.right = Deleted(@, k)])
    [] t # NULL /\ k < t.key -> Rebalanced([t EXCEPT !.left = Deleted(@, k)])
    [] OTHER ->
         CASE t.left # NULL /\ t.right # NULL ->
                IF t.left.height > t.right.height
                THEN LET pre == find_max(t.left)
                     IN  Rebalanced([t EXCEPT !.key = pre.key, !.val = pre.val,
                                              !.left = Deleted(@, pre.key)])
                ELSE LET next == find_min(t.right)
                     IN  Rebalanced([t EXCEPT !.key = next.key, !.val = next.val,
                                              !.right = Deleted(@, next.key)])
           [] t.left # NULL /\ t.right = NULL -> Rebalanced(t.left)
           [] t.left = NULL /\ t.right # NULL -> Rebalanced(t.right)
           [] OTHER -> NULL

deletenode(k) ==
  /\ ~aborted
  /\ root' = Deleted(root, k)
  /\ ret' = (k \in Held(root))
  /\ UNCHANGED aborted

Next == \/ \E p \in Pairs : insert(p[1], p[2])
        \/ \E k \in TreeKeys : deletenode(k)

Spec == Init /\ [][Next]_vars

-----------------------------------------------------------------------------
\* Every node holds a pair that was inserted.
TypeOK == /\ \A k \in Held(root) : <<k, find(root, k)>> \in Pairs
          /\ ret \in BOOLEAN
          /\ aborted \in BOOLEAN

RECURSIVE Height(_)
Height(t) == IF t = NULL THEN 0 ELSE Taller(Height(t.left), Height(t.right)) + 1

RECURSIVE Subtrees(_)
Subtrees(t) == IF t = NULL THEN {} ELSE {t} \cup Subtrees(t.left) \cup Subtrees(t.right)

\* AVL_Tree.hpp:7: the subtrees of every node differ by at most one in height.
Balanced(t) == \A n \in Subtrees(t) : /\ Height(n.left) <= Height(n.right) + 1
                                      /\ Height(n.right) <= Height(n.left) + 1

\* The stored heights, by which every rotation is chosen, are the true ones after
\* any rotations, also in a tree a deletion has left unbalanced.
HeightsRight == \A n \in Subtrees(root) : n.height = Height(n)

\* An insertion leaves a balanced tree balanced, at every node (the code's own
\* assertion looks at three of them).
InsertKeepsBalance ==
  [][Held(root) \subseteq Held(root') /\ Balanced(root) => Balanced(root')]_vars

\* AVL_Tree.hpp:603: assert(is_balance(root_)).
AssertionHolds == ~aborted

\* Rotations and replaced nodes notwithstanding, a search finds exactly what a
\* table of the same calls holds.
Dict == INSTANCE Dictionary WITH dict <- [k \in TreeKeys |-> find(root, k)],
                                 Overwrites <- TRUE
=============================================================================
