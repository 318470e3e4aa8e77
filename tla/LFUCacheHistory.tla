---------------------------- MODULE LFUCacheHistory ----------------------------
(***************************************************************************)
(* LFUCache with a history variable: which held key was used before which, *)
(* over all the lists.  The code keeps no such order across lists; with it *)
(* LFUCache is shown to implement EvictingCache.                           *)
(***************************************************************************)
EXTENDS LFUCache

VARIABLE older

historyVars == <<contains, freq2Key, minFreq, out, older>>

\* k becomes the newest of the keys that stay.
Touched(k, stay) == {p \in older : /\ p[1] \in stay \ {k}
                                   /\ p[2] \in stay \ {k}} \cup (stay \ {k}) \X {k}

HistoryInit == Init /\ older = {}

HistoryNext ==
  \E k \in Keys :
    \/ Hit(k) /\ older' = Touched(k, Held)
    \/ Miss(k) /\ UNCHANGED older
    \/ \E v \in Values : Update(k, v) /\ older' = Touched(k, Held)
    \/ \E v \in Values : Insert(k, v) /\ older' = Touched(k, DOMAIN Kept)

HistorySpec == HistoryInit /\ [][HistoryNext]_historyVars

Abstract == INSTANCE EvictingCache WITH
  value       <- [k \in Keys |-> IF k \in Held THEN contains[k].val ELSE MISSING],
  uses        <- [k \in Keys |-> IF k \in Held THEN contains[k].freq ELSE 0],
  MaxUses     <- MaxFreq,
  ByFrequency <- TRUE

\* LFU_Cache.h:2-4: what leaves is the key used least often, and among equals
\* the oldest; what stays answers with the value put last.
EvictsLeastFrequent == Abstract!Spec
=============================================================================
