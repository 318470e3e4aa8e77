------------------------------- MODULE LRUState -------------------------------
(***************************************************************************)
(* The state of LRUCache and what holds of every state, in a module of     *)
(* their own for LRUCache and for the modules that compose it.             *)
(***************************************************************************)
EXTENDS CacheParameters, Sequences

VARIABLES list,    \* m_list: sequence of [node, key]
          map,     \* m_map: key -> [val, node]
          found    \* val of the last GetVal, MISSING when it returned false

-----------------------------------------------------------------------------
\* LRU_Cache.h:29-33, 44-46, 61-63: every entry of m_map points at a live node that holds
\* its key, and every node is some entry's: the erase of the next call hits the node it means.
IteratorsLive ==
  /\ Len(list) = Cardinality(DOMAIN map)
  /\ \A k \in DOMAIN map : \E i \in DOMAIN list :
       list[i] = [node |-> map[k].node, key |-> k]
=============================================================================
