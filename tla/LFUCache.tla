------------------------------- MODULE LFUCache -------------------------------
(***************************************************************************)
(* LFU_Cache.h: a cache that drops the key used least often, and among     *)
(* equals the oldest.  m_contains maps a key to its node, m_freq2Key a     *)
(* number of uses to the list of the keys used that often, oldest first.   *)
(* The two tables and m_minFreq must agree after every call.               *)
(*                                                                         *)
(* A list node is its key: no list holds a key twice (TablesAgree).  An    *)
(* iterator (m_iterator) is therefore the list it points into.             *)
(***************************************************************************)
EXTENDS CacheParameters, Sequences, Functions

CONSTANT MaxFreq      \* bound: a key is used at most this often

ASSUME FreqAssumption == MaxFreq \in Nat \ {0}

VARIABLES contains,   \* m_contains
          freq2Key,   \* m_freq2Key
          minFreq,    \* m_minFreq
          out         \* val of the last get, MISSING when it returned false

vars == <<contains, freq2Key, minFreq, out>>

Freqs == 1..MaxFreq

ValNode == [freq : Freqs, iterator : Freqs, val : Values]

Held == DOMAIN contains

TypeOK ==
  /\ Held \subseteq Keys
  /\ contains \in [Held -> ValNode]
  /\ freq2Key \in [Freqs -> Seq(Keys)]
  /\ minFreq \in Freqs
  /\ out \in Values \cup {MISSING}

\* The constructor leaves m_minFreq unset.
Init == /\ contains = [k \in {} |-> MISSING]
        /\ freq2Key = [f \in Freqs |-> <<>>]
        /\ minFreq \in Freqs
        /\ out = MISSING

-----------------------------------------------------------------------------
\* std::list::erase of the node that holds k.
Erase(s, k) ==
  LET at == CHOOSE i \in 1..Len(s) : s[i] = k
  IN  [i \in 1..(Len(s) - 1) |-> IF i < at THEN s[i] ELSE s[i + 1]]

Stored(nodes, k, node) ==
  [j \in DOMAIN nodes \cup {k} |-> IF j = k THEN node ELSE nodes[j]]

Dropped(nodes, k) == Restrict(nodes, DOMAIN nodes \ {k})

\* increaseFreq, one use more of k: m_freq2Key without the node of k ...
Erased(k) == [freq2Key EXCEPT ![contains[k].iterator] = Erase(@, k)]

\* Mutant: any list that empties bumps m_minFreq.
BumpedAnyList(k) == IF Erased(k)[contains[k].freq] = <<>> THEN minFreq + 1 ELSE minFreq

\* ... m_minFreq, bumped when k was the last of the least used ...
Bumped(k) == IF Erased(k)[contains[k].freq] = <<>> /\ contains[k].freq = minFreq
             THEN minFreq + 1 ELSE minFreq

\* Mutant: the key goes to the front of its new list.
RelistedFront(k) == [Erased(k) EXCEPT ![contains[k].freq + 1] = <<k>> \o @]

\* ... the lists with k at the end of its new one ...
Relisted(k) == [Erased(k) EXCEPT ![contains[k].freq + 1] = Append(@, k)]

\* Mutant: m_iterator is left on the list the key has left.
RenewedStale(k, v) == [contains[k] EXCEPT !.freq = @ + 1, !.val = v]

\* ... and its node, which now holds v.
Renewed(k, v) == [freq     |-> contains[k].freq + 1,
                  iterator |-> contains[k].freq + 1,
                  val      |-> v]

increaseFreq(k, v) ==
  /\ contains[k].freq < MaxFreq                          \* bound
  /\ minFreq' = Bumped(k)
  /\ freq2Key' = Relisted(k)
  /\ contains' = [contains EXCEPT ![k] = Renewed(k, v)]

Hit(k) == k \in Held /\ increaseFreq(k, contains[k].val) /\ out' = contains[k].val

Miss(k) == k \notin Held /\ out' = MISSING /\ UNCHANGED <<contains, freq2Key, minFreq>>

get(k) == Hit(k) \/ Miss(k)

Update(k, v) == k \in Held /\ increaseFreq(k, v) /\ UNCHANGED out

\* Mutant: the cache is full one key too late.
FullLate == Cardinality(Held) > Capacity

Full == Cardinality(Held) >= Capacity

\* removeMinFre: the tables once the head of the list of m_minFreq is gone.
Victim == Head(freq2Key[minFreq])
Kept   == IF Full THEN Dropped(contains, Victim) ELSE contains
Lists  == IF Full THEN [freq2Key EXCEPT ![minFreq] = Tail(@)] ELSE freq2Key

\* Mutant: m_minFreq keeps its old value.
InsertKeepsMin(k, v) ==
  /\ k \notin Held
  /\ freq2Key' = [Lists EXCEPT ![1] = Append(@, k)]
  /\ contains' = Stored(Kept, k, [freq |-> 1, iterator |-> 1, val |-> v])
  /\ UNCHANGED <<minFreq, out>>

Insert(k, v) ==
  /\ k \notin Held
  /\ minFreq' = 1
  /\ freq2Key' = [Lists EXCEPT ![1] = Append(@, k)]
  /\ contains' = Stored(Kept, k, [freq |-> 1, iterator |-> 1, val |-> v])
  /\ UNCHANGED out

put(k, v) == Update(k, v) \/ Insert(k, v)

Next == \E k \in Keys : get(k) \/ \E v \in Values : put(k, v)

Spec == Init /\ [][Next]_vars

-----------------------------------------------------------------------------
\* The two tables describe one cache: the list of f holds exactly the held keys
\* used f times, each once, and a key's iterator points at its node there, so
\* that erase(m_iterator) in increaseFreq never meets a dead or a foreign node.
TablesAgree ==
  /\ \A f \in Freqs : /\ IsInjective(freq2Key[f])
                       /\ Range(freq2Key[f]) = {k \in Held : contains[k].freq = f}
  /\ \A k \in Held : contains[k].iterator = contains[k].freq

\* m_minFreq is never re-computed: it is only bumped in increaseFreq and reset
\* in put.  It must still name a list with a node whenever removeMinFre may take
\* that list's head, and no held key may be used less often.
MinFreqIsLeast ==
  Held # {} => /\ freq2Key[minFreq] # <<>>
               /\ \A k \in Held : minFreq <= contains[k].freq

\* The cache never holds more than maxsize keys.
NeverOverfull == Cardinality(Held) <= Capacity
=============================================================================
