------------------------------ MODULE EvictingCache ------------------------------
(***************************************************************************)
(* What a cache of bounded size promises: a key that is held answers with  *)
(* the value put last, and when a new key finds the cache full exactly one *)
(* key leaves, the least used one (ByFrequency) or simply the one used     *)
(* longest ago.  LFU_Cache.h:2-4 and LRU_Cache.h:2-3 state the two rules.  *)
(***************************************************************************)
EXTENDS Integers, FiniteSets

CONSTANTS Keys, Values, Capacity, MISSING, MaxUses, ByFrequency

VARIABLES value,    \* what each key holds, MISSING when it is not held
          uses,     \* how often a held key was used, 0 when it is not held
          older,    \* <<j, k>>: both are held and j was last used before k
          out       \* what the last search returned

abstractVars == <<value, uses, older, out>>

Held == {k \in Keys : value[k] # MISSING}

Init == /\ value = [k \in Keys |-> MISSING]
        /\ uses = [k \in Keys |-> 0]
        /\ older = {}
        /\ out = MISSING

Use(k, v) ==
  /\ k \in Held
  /\ ByFrequency => uses[k] < MaxUses
  /\ value' = [value EXCEPT ![k] = v]
  /\ uses' = [uses EXCEPT ![k] = IF ByFrequency THEN @ + 1 ELSE @]
  /\ older' = {p \in older : p[1] # k /\ p[2] # k} \cup (Held \ {k}) \X {k}

Get(k) == \/ Use(k, value[k]) /\ out' = value[k]
          \/ k \notin Held /\ out' = MISSING /\ UNCHANGED <<value, uses, older>>

IsVictim(k) == \A j \in Held \ {k} : \/ uses[k] < uses[j]
                                     \/ uses[k] = uses[j] /\ <<k, j>> \in older

Victims == IF Cardinality(Held) < Capacity THEN {} ELSE {k \in Held : IsVictim(k)}

Put(k, v) ==
  /\ UNCHANGED out
  /\ \/ Use(k, v)
     \/ /\ k \notin Held
        /\ value' = [j \in Keys |-> IF j = k THEN v
                                    ELSE IF j \in Victims THEN MISSING ELSE value[j]]
        /\ uses' = [j \in Keys |-> IF j = k THEN 1
                                   ELSE IF j \in Victims THEN 0 ELSE uses[j]]
        /\ older' = {p \in older : p[1] \notin Victims /\ p[2] \notin Victims}
                    \cup (Held \ Victims) \X {k}

Clear == /\ value' = [k \in Keys |-> MISSING]
         /\ uses' = [k \in Keys |-> 0]
         /\ older' = {}
         /\ UNCHANGED out

Next == \/ \E k \in Keys : Get(k) \/ \E v \in Values : Put(k, v)
        \/ Clear

Spec == Init /\ [][Next]_abstractVars
=============================================================================
