------------------------------ MODULE Dictionary ------------------------------
(***************************************************************************)
(* What BaseBinarySearchTree promises its users: a table of keys and       *)
(* values.  Inserting a key that is there returns false (its comment in    *)
(* BinarySearchTree.hpp:125); AVLTree and RBTree then store the new value  *)
(* (Overwrites), BinarySearchTree keeps the old one.                       *)
(***************************************************************************)
CONSTANTS Pairs,        \* the <<key, value>> a program inserts
          Overwrites,
          NULL          \* no value

VARIABLES dict,         \* what each key holds, NULL when it is not there
          ret           \* what the last call returned

TreeKeys == {p[1] : p \in Pairs}

Init == /\ dict = [k \in TreeKeys |-> NULL]
        /\ ret = TRUE

Insert(k, v) ==
  \/ /\ ret' = TRUE
     /\ dict[k] = NULL
     /\ dict' = [dict EXCEPT ![k] = v]
  \/ /\ ret' = FALSE
     /\ dict[k] # NULL
     /\ dict' = IF Overwrites THEN [dict EXCEPT ![k] = v] ELSE dict

Delete(k) ==
  /\ ret' = (dict[k] # NULL)
  /\ dict' = [dict EXCEPT ![k] = NULL]

Next == \/ \E p \in Pairs : Insert(p[1], p[2])
        \/ \E k \in TreeKeys : Delete(k)

Spec == Init /\ [][Next]_<<dict, ret>>
=============================================================================
