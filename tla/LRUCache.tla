------------------------------- MODULE LRUCache -------------------------------
(***************************************************************************)
(* LRU_Cache.h: a cache that drops the key used longest ago.  m_list holds *)
(* the keys, newest first; m_map maps a key to its value and to its list   *)
(* node.  A hit pushes a second node of the key before it erases the first *)
(* one, so nodes have an identity of their own.                            *)
(***************************************************************************)
EXTENDS LRUState, SequencesExt

lruVars == <<list, map, found>>

\* A list never has more nodes than the capacity and the one a hit adds.
Nodes == 1..(Capacity + 1)

TypeOK ==
  /\ list \in Seq([node : Nodes, key : Keys])
  /\ DOMAIN map \subseteq Keys
  /\ map \in [DOMAIN map -> [val : Values, node : Nodes]]
  /\ found \in Values \cup {MISSING}

Init == list = <<>> /\ map = <<>> /\ found = MISSING

\* The node the allocator hands out.
Fresh(s) == CHOOSE n \in 1..(Len(s) + 1) : \A i \in DOMAIN s : s[i].node # n

PushFront(s, k) == <<[node |-> Fresh(s), key |-> k]>> \o s

Erase(s, n) == RemoveAt(s, CHOOSE i \in DOMAIN s : s[i].node = n)

Contain(k) == k \in DOMAIN map

\* push_front, and the map entry that points at the new node.
Insert(s, m, k, v) ==
  /\ list' = PushFront(s, k)
  /\ map' = [j \in DOMAIN m \cup {k} |->
               IF j = k THEN [val |-> v, node |-> Head(list').node] ELSE m[j]]

AddKnown(k, v) ==
  /\ Contain(k)
  /\ Insert(Erase(list, map[k].node), map, k, v)

AddNew(k, v) ==
  /\ ~Contain(k)
  /\ IF Cardinality(DOMAIN map) < Capacity
     THEN Insert(list, map, k, v)
     ELSE Insert(Front(list), [j \in DOMAIN map \ {Last(list).key} |-> map[j]], k, v)

Add(k, v) == (AddKnown(k, v) \/ AddNew(k, v)) /\ UNCHANGED found

\* Mutant: m_map keeps the iterator of the erased node.
MoveToFrontStale(k) ==
  IF map[k].node # Head(list).node
  THEN list' = Erase(PushFront(list, k), map[k].node) /\ UNCHANGED map
  ELSE UNCHANGED <<list, map>>

\* The key goes to the front unless it is there already.
MoveToFront(k) ==
  IF map[k].node # Head(list).node
  THEN LET pushed == PushFront(list, k)
       IN  /\ list' = Erase(pushed, map[k].node)
           /\ map' = [map EXCEPT ![k].node = Head(pushed).node]
  ELSE UNCHANGED <<list, map>>

GetVal(k) ==
  \/ Contain(k) /\ MoveToFront(k) /\ found' = map[k].val
  \/ ~Contain(k) /\ found' = MISSING /\ UNCHANGED <<list, map>>

Clear == list' = <<>> /\ map' = <<>> /\ UNCHANGED found

Next == \/ \E k \in Keys : GetVal(k) \/ \E v \in Values : Add(k, v)
        \/ Clear

Spec == Init /\ [][Next]_lruVars

-----------------------------------------------------------------------------
\* <<j, k>>: j is behind k in the list.
UsedBefore(s) ==
  {p \in Keys \X Keys : \E i, j \in DOMAIN s : i < j /\ p = <<s[j].key, s[i].key>>}

Abstract == INSTANCE EvictingCache WITH
  value       <- [k \in Keys |-> IF Contain(k) THEN map[k].val ELSE MISSING],
  uses        <- [k \in Keys |-> IF Contain(k) THEN 1 ELSE 0],
  older       <- UsedBefore(list),
  out         <- found,
  MaxUses     <- 1,
  ByFrequency <- FALSE
=============================================================================
