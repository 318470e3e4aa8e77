------------------------------ MODULE SearchTree ------------------------------
(***************************************************************************)
(* What the three search trees share: the shape of a node and the queries, *)
(* which BinarySearchTree.hpp, AVL_Tree.hpp and RBTree.hpp write out three *)
(* times, with nullptr or a sentinel for the empty tree.  A tree is NULL   *)
(* or a record with at least key, val, left and right.                     *)
(***************************************************************************)
EXTENDS Naturals, Sequences, FiniteSets

CONSTANT NULL

RECURSIVE Held(_)
Held(t) == IF t = NULL THEN {} ELSE Held(t.left) \cup {t.key} \cup Held(t.right)

\* The node of k, NULL when there is none.
RECURSIVE _find(_, _)
_find(t, k) == IF t = NULL \/ t.key = k THEN t
               ELSE _find(IF k > t.key THEN t.right ELSE t.left, k)

Val(t) == IF t = NULL THEN NULL ELSE t.val

find(t, k) == Val(_find(t, k))

RECURSIVE find_max(_), find_min(_)
find_max(t) == IF t = NULL \/ t.right = NULL THEN t ELSE find_max(t.right)
find_min(t) == IF t = NULL \/ t.left = NULL THEN t ELSE find_min(t.left)

\* The nodes on the way from the root to the one of k or to where it would be.
RECURSIVE SearchPath(_, _)
SearchPath(t, k) ==
  IF t = NULL THEN <<>>
  ELSE IF t.key = k THEN <<t>>
  ELSE <<t>> \o SearchPath(IF k > t.key THEN t.right ELSE t.left, k)

LastOf(s) == IF s = <<>> THEN NULL ELSE s[Len(s)]

\* lastHaveRightChild: the last node the search turned right at ...
LastTurnRight(t, k) == LastOf(SelectSeq(SearchPath(t, k), LAMBDA n : n.key < k))

\* ... and lastHaveLeftChild.
LastTurnLeft(t, k) == LastOf(SelectSeq(SearchPath(t, k), LAMBDA n : n.key > k))

getprenode(t, k) ==
  LET n == _find(t, k)
  IN  CASE n = NULL      -> NULL
        [] n # NULL /\ n.left # NULL -> Val(find_max(n.left))
        [] OTHER         -> Val(LastTurnRight(t, k))

getnextnode(t, k) ==
  LET n == _find(t, k)
  IN  CASE n = NULL      -> NULL
        [] n # NULL /\ n.right # NULL -> Val(find_min(n.right))
        [] OTHER         -> Val(LastTurnLeft(t, k))

-----------------------------------------------------------------------------
RECURSIVE preorder(_), inorder(_), postorder(_)
preorder(t) == IF t = NULL THEN <<>> ELSE <<t.key>> \o preorder(t.left) \o preorder(t.right)
inorder(t) == IF t = NULL THEN <<>> ELSE inorder(t.left) \o <<t.key>> \o inorder(t.right)
postorder(t) == IF t = NULL THEN <<>> ELSE postorder(t.left) \o postorder(t.right) \o <<t.key>>

\* The way down the left links that each loop of the non-recursive traversals
\* starts with: the nodes it pushes.
RECURSIVE LeftSpine(_)
LeftSpine(t) == IF t = NULL THEN <<>> ELSE <<t>> \o LeftSpine(t.left)

KeysOf(s) == [i \in 1..Len(s) |-> s[i].key]
Front(s) == SubSeq(s, 1, Len(s) - 1)

\* no_recursive_preorder visits a node when it pushes it ...
RECURSIVE PreLoop(_, _)
PreLoop(node, st) ==
  LET pushed == LeftSpine(node)
      st2    == st \o pushed
  IN  KeysOf(pushed) \o IF st2 = <<>> THEN <<>> ELSE PreLoop(LastOf(st2).right, Front(st2))

\* ... no_recursive_inorder when it pops it ...
RECURSIVE InLoop(_, _)
InLoop(node, st) ==
  LET st2 == st \o LeftSpine(node)
  IN  IF st2 = <<>> THEN <<>>
      ELSE <<LastOf(st2).key>> \o InLoop(LastOf(st2).right, Front(st2))

\* ... and no_recursive_postorder when it comes back to it with flag 2, its right
\* subtree done.  An entry is a node with its flag.
Entry(n, f) == [node |-> n, flag |-> f]

RECURSIVE PostLoop(_, _)
PostLoop(node, st) ==
  LET spine == LeftSpine(node)
      st2   == st \o [i \in 1..Len(spine) |-> Entry(spine[i], 1)]
      top   == LastOf(st2)
  IN  IF st2 = <<>> THEN <<>>
      ELSE IF top.flag = 1 THEN PostLoop(top.node.right, Append(Front(st2), Entry(top.node, 2)))
      ELSE <<top.node.key>> \o PostLoop(NULL, Front(st2))

level_order(t) ==
  LET RECURSIVE Loop(_)
      Loop(q) == IF q = <<>> THEN <<>>
                 ELSE <<Head(q).key>> \o
                      Loop(Tail(q) \o SelectSeq(<<Head(q).left, Head(q).right>>, LAMBDA n : n # NULL))
  IN  IF t = NULL THEN <<>> ELSE Loop(<<t>>)

-----------------------------------------------------------------------------
\* The neighbours of a held key, from the order of the keys alone.
Below(t, k) == {j \in Held(t) : j < k}
Above(t, k) == {j \in Held(t) : j > k}
Greatest(S) == CHOOSE x \in S : \A y \in S : y <= x
Least(S) == CHOOSE x \in S : \A y \in S : y >= x

\* BinarySearchTree.hpp:33-37: the predecessor is the greatest smaller key, the
\* successor the least greater one; a key that is not held has neither.  (Lines 44-45 and
\* 52 of that comment call the predecessor the leftmost and least node of the left
\* subtree, against its own definition and against the code, which takes the greatest.)
NeighboursRight(t, TreeKeys) ==
  \A k \in TreeKeys :
    /\ getprenode(t, k) = IF k \notin Held(t) \/ Below(t, k) = {} THEN NULL
                          ELSE find(t, Greatest(Below(t, k)))
    /\ getnextnode(t, k) = IF k \notin Held(t) \/ Above(t, k) = {} THEN NULL
                           ELSE find(t, Least(Above(t, k)))

\* Each traversal with a stack visits the nodes in the order of the recursive one
\* of its name, in-order is sorted, and level order is by depth.
TraversalsAgree(t) ==
  /\ PreLoop(t, <<>>) = preorder(t)
  /\ InLoop(t, <<>>) = inorder(t)
  /\ PostLoop(t, <<>>) = postorder(t)
  /\ LET io == inorder(t)
     IN  \A i, j \in 1..Len(io) : i < j => io[i] < io[j]
  /\ LET lo == level_order(t)
     IN  /\ Len(lo) = Cardinality(Held(t))
         /\ \A i, j \in 1..Len(lo) :
               i < j => /\ lo[i] # lo[j]
                        /\ Len(SearchPath(t, lo[i])) <= Len(SearchPath(t, lo[j]))
=============================================================================
