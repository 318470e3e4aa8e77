-------------------------------- MODULE RBTree --------------------------------
(***************************************************************************)
(* RBTree.hpp: the red-black tree, with parent links and a sentinel (NIL)  *)
(* in the place of every leaf.  A node is its key; where the code copies   *)
(* the key and value of one node into another, the first takes the place   *)
(* of the second.  The left and the right case of each loop are one        *)
(* definition with the side as parameter, except where they differ.        *)
(***************************************************************************)
EXTENDS SearchTree

CONSTANTS Pairs,        \* the <<key, value>> a program inserts
          NIL           \* sentienl_

VARIABLES tree,         \* the nodes, see Empty
          ret           \* what the last call returned

TreeKeys == {p[1] : p \in Pairs}
Nodes == TreeKeys \cup {NIL}
Opp(side) == IF side = "left" THEN "right" ELSE "left"

\* `crashed': a null pointer was followed.  `lost' is history: see SiblingColoured.
Empty == [root    |-> NIL,
          left    |-> [n \in Nodes |-> NULL],
          right   |-> [n \in Nodes |-> NULL],
          parent  |-> [n \in Nodes |-> NULL],
          red     |-> {},
          val     |-> [k \in TreeKeys |-> NULL],
          crashed |-> FALSE,
          lost    |-> FALSE]

Init == /\ tree = Empty
        /\ ret = TRUE

Link(t, side, n) == IF side = "left" THEN t.left[n] ELSE t.right[n]
SetLink(t, side, n, c) == IF side = "left" THEN [t EXCEPT !.left[n] = c]
                                           ELSE [t EXCEPT !.right[n] = c]
SetBlack(t, S) == [t EXCEPT !.red = @ \ S]
SetRed(t, S) == [t EXCEPT !.red = @ \cup S]

\* Which child of its parent a node is.
SideOf(t, n) == IF n = t.left[t.parent[n]] THEN "left" ELSE "right"

\* The link that leads to n, from its parent or root_, leads to c.
Relinked(t, n, c) == IF t.parent[n] = NULL THEN [t EXCEPT !.root = c]
                     ELSE SetLink(t, SideOf(t, n), t.parent[n], c)

\* The parent_ links after a rotation; the sentinel's is left alone.
Parents(t, n, up, inner) ==
  [m \in Nodes |-> CASE m = up -> t.parent[n]
                     [] m = n -> up
                     [] m = inner /\ m # NIL -> n
                     [] OTHER -> t.parent[m]]

\* leftRotate (side "left") and rightRotate: n goes down to that side.
Rotated(t, side, n) ==
  LET up    == Link(t, Opp(side), n)
      inner == Link(t, side, up)
      t1    == SetLink(SetLink(Relinked(t, n, up), Opp(side), n, inner), side, up, n)
  IN  [t1 EXCEPT !.parent = Parents(t, n, up, inner)]

-----------------------------------------------------------------------------
\* Left-right and right-left: a first rotation makes it left-left or right-right.
Outer(t, n) ==
  LET p == t.parent[n]
      s == SideOf(t, p)
  IN  IF SideOf(t, n) = s THEN [t |-> t, low |-> n]
      ELSE [t |-> Rotated(t, s, p), low |-> p]

RECURSIVE reBalance_Insert(_, _)
reBalance_Insert(t, n) ==
  IF n = t.root \/ t.parent[n] \notin t.red THEN SetBlack(t, {t.root})
  ELSE LET gp    == t.parent[t.parent[n]]
           side  == SideOf(t, t.parent[n])
           uncle == Link(t, Opp(side), gp)
           o     == Outer(t, n)
       IN  IF uncle \in t.red
           THEN reBalance_Insert(SetRed(SetBlack(t, {t.parent[n], uncle}), {gp}), gp)
           ELSE reBalance_Insert(
                  Rotated(SetBlack(SetRed(o.t, {gp}), {o.t.parent[o.low]}), Opp(side), gp),
                  o.low)

\* A new node hangs from the last one of the search, red.
Attached(t, p, k, v) ==
  LET t1 == [t EXCEPT !.left[k] = NIL, !.right[k] = NIL, !.parent[k] = p, !.val[k] = v,
                      !.red = @ \cup {k}]
  IN  IF p = NULL THEN SetBlack([t1 EXCEPT !.root = k], {k})
      ELSE SetLink(t1, IF k > p THEN "right" ELSE "left", p, k)

\* The tree from n down as nested nodes, as SearchTree has them.
RECURSIVE Shape(_, _)
Shape(t, n) == IF n = NIL THEN NULL
               ELSE [key |-> n, val |-> t.val[n],
                     left |-> Shape(t, t.left[n]), right |-> Shape(t, t.right[n])]

AsTree(t) == Shape(t, t.root)

\* The loop of find from node n on, and the value it gives for the node it ends at.
RECURSIVE FindFrom(_, _, _)
FindFrom(t, n, k) ==
  IF n = NIL \/ n = k THEN n ELSE FindFrom(t, IF k > n THEN t.right[n] ELSE t.left[n], k)
FoundIn(t, n) == IF n = NIL THEN NULL ELSE t.val[n]

\* The last node the search for k visits.
LastVisited(k) ==
  LET path == SearchPath(AsTree(tree), k) IN IF path = <<>> THEN NULL ELSE path[Len(path)].key

insert(k, v) ==
  /\ ~tree.crashed
  /\ LET p == LastVisited(k)
     IN  /\ ret' = (p # k)
         /\ tree' = CASE p = NULL -> Attached(tree, NULL, k, v)
                      [] p = k -> [tree EXCEPT !.val[k] = v]
                      [] OTHER -> reBalance_Insert(Attached(tree, p, k, v), k)

-----------------------------------------------------------------------------
\* Case 2, both children of the sibling are black: RBTree.hpp:584 makes the
\* sibling red, RBTree.hpp:648, the mirror image, makes it black.
SiblingColoured(t, side, bro) ==
  IF side = "left" THEN SetRed(t, {bro})
  ELSE [SetBlack(t, {bro}) EXCEPT !.lost = TRUE]

\* Cases 3 and 4, the sibling has a red child: two rotations or one end the loop.
\* The far child is coloured before the near one takes the sibling's place.
SiblingRotated(t, side, p) ==
  LET bro  == Link(t, Opp(side), p)
      t1   == IF Link(t, Opp(side), bro) \in t.red THEN t
              ELSE Rotated(SetRed(SetBlack(t, {Link(t, side, bro)}), {bro}), Opp(side), bro)
      bro1 == Link(t1, Opp(side), p)
      t2   == IF p \in t1.red THEN SetRed(t1, {bro1}) ELSE SetBlack(t1, {bro1})
  IN  Rotated(SetBlack(t2, {p, Link(t2, Opp(side), bro1)}), side, p)

\* n carries one black too many.  A sibling that is the sentinel has no children
\* to look at: following them is the crash.
RECURSIVE reBalance_delete(_, _)
reBalance_delete(t, n) ==
  IF n = t.root \/ n \in t.red THEN SetBlack(t, {n})
  ELSE LET p    == t.parent[n]
           side == SideOf(t, n)
           bro0 == Link(t, Opp(side), p)
           t1   == IF bro0 \notin t.red THEN t
                   ELSE Rotated(SetRed(SetBlack(t, {bro0}), {p}), side, p)
           bro  == Link(t1, Opp(side), p)
       IN  CASE bro = NIL -> [t1 EXCEPT !.crashed = TRUE]
             [] bro # NIL /\ t1.left[bro] \notin t1.red /\ t1.right[bro] \notin t1.red ->
                  reBalance_delete(SiblingColoured(t1, side, bro), p)
             [] OTHER -> SetBlack(SiblingRotated(t1, side, p), {n})

\* The node of `old' gets the key and the value of `new', whose own node is gone.
Renamed(t, old, new) ==
  LET Name(n) == IF n = old THEN new ELSE n
  IN  [t EXCEPT
         !.root   = Name(@),
         !.left   = [n \in Nodes |-> IF n = new THEN Name(@[old]) ELSE Name(@[n])],
         !.right  = [n \in Nodes |-> IF n = new THEN Name(@[old]) ELSE Name(@[n])],
         !.parent = [n \in Nodes |-> IF n = new THEN Name(@[old]) ELSE Name(@[n])],
         !.red    = (@ \ {old, new}) \cup (IF old \in @ THEN {new} ELSE {})]

\* `delete': the fields of a node that is gone, and the parent_ the sentinel has
\* been given for the time of the call, are not looked at again.
Freed(t, k) == [t EXCEPT !.left[k] = NULL, !.right[k] = NULL, !.parent[k] = NULL,
                         !.parent[NIL] = NULL, !.red = @ \ {k}, !.val[k] = NULL]

\* RBTree.hpp:455 tests the right child twice: a node without a right child is
\* taken out itself, any other is replaced by its successor.
Subst(t, k) == IF t.right[k] = NIL THEN k ELSE find_min(Shape(t, t.right[k])).key

MustRebalance(t, n) == n \notin t.red

\* What takes the place of subst.
Temp(t, subst) == IF t.right[subst] # NIL THEN t.right[subst] ELSE t.left[subst]

Deleted(t, k) ==
  LET subst == Subst(t, k)
      temp  == Temp(t, subst)
      t1    == [Relinked(t, subst, temp) EXCEPT !.parent[temp] = t.parent[subst]]
      t2    == IF subst = k THEN t1 ELSE Renamed(t1, k, subst)
  IN  IF subst = t.root THEN SetBlack(t1, {temp})
      ELSE IF MustRebalance(t, subst) THEN reBalance_delete(t2, temp) ELSE t2

deletenode(k) ==
  /\ ~tree.crashed
  /\ ret' = (tree.val[k] # NULL)
  /\ tree' = IF tree.val[k] # NULL THEN Freed(Deleted(tree, k), k) ELSE tree

Next == \/ \E p \in Pairs : insert(p[1], p[2])
        \/ \E k \in TreeKeys : deletenode(k)

Spec == Init /\ [][Next]_<<tree, ret>>

-----------------------------------------------------------------------------
In == {k \in TreeKeys : tree.val[k] # NULL}

\* The links of the nodes in the tree go down to such nodes and come back up.
TypeOK ==
  /\ \A k \in In : <<k, tree.val[k]>> \in Pairs
  /\ tree.root \in In \cup {NIL}
  /\ \A k \in In : \A c \in {tree.left[k], tree.right[k]} \ {NIL} :
        c \in In /\ tree.parent[c] = k
  /\ tree.red \subseteq In
  /\ ret \in BOOLEAN

\* The black nodes on every way down from n, or 0 when two ways differ.
RECURSIVE BlackHeight(_)
BlackHeight(n) ==
  IF n = NIL THEN 1
  ELSE LET l == BlackHeight(tree.left[n])
           r == BlackHeight(tree.right[n])
       IN  IF l # r \/ l = 0 THEN 0 ELSE l + IF n \in tree.red THEN 0 ELSE 1

\* RBTree.hpp:8-12: the root is black, a red node has black children, and all
\* ways down meet the same number of black nodes.
RedBlack == /\ tree.root \notin tree.red
            /\ \A n \in tree.red : tree.left[n] \notin tree.red /\ tree.right[n] \notin tree.red
            /\ BlackHeight(tree.root) # 0

\* The rules hold after every call, up to the first deletion that goes through
\* RBTree.hpp:648, and up to then no null pointer is followed.
RedBlackUntilLost == ~tree.lost => RedBlack /\ ~tree.crashed

\* Whatever the colours, a search finds exactly what a table of the same calls
\* holds, up to the crash.
Dict == INSTANCE Dictionary WITH
          dict <- [k \in TreeKeys |-> FoundIn(tree, FindFrom(tree, tree.root, k))],
          Overwrites <- TRUE
=============================================================================
