------------------------------ MODULE HashTable ------------------------------
(***************************************************************************)
(* hash_table.c: chains of entries, a table of chains that doubles.        *)
(*                                                                         *)
(* A chain is the sequence of its entries from table_[i] along next_.  Key *)
(* and value functions are left out: a key is known by its hash and itself.*)
(* malloc may fail.  hash(key) & (size_-1) is a remainder, size_ being a   *)
(* power of two; with size_ 0 it is an index into a table that is NULL.    *)
(***************************************************************************)
EXTENDS Integers, Sequences, FiniteSets

CONSTANTS Pairs,       \* the <<key, value>> a program inserts
          Hash,        \* hash_ of every key
          FirstSize,   \* the first capacity, 32 in the code
          NULL         \* no value

VARIABLES chains,      \* table_[0..size_-1]
          use,         \* use_
          ret,         \* history: what the last call of insert or del has found
          crashed      \* a call has followed the NULL table_

TreeKeys == {p[1] : p \in Pairs}

Init == chains = <<>> /\ use = 0 /\ ret = TRUE /\ crashed = FALSE

size == Cardinality(DOMAIN chains)
Slot(k) == Hash[k] % size

Entry(k, v) == [key |-> k, val |-> v]
HasKey(chain, k) == \E i \in DOMAIN chain : chain[i].key = k
Found(k) == size # 0 /\ HasKey(chains[Slot(k)], k)

\* The place in its chain where a key is found.
At(chain, k) == CHOOSE i \in DOMAIN chain :
                    chain[i].key = k /\ \A j \in 1..(i - 1) : chain[j].key # k

\* hash_table_find.
find(k) == IF Found(k) THEN chains[Slot(k)][At(chains[Slot(k)], k)].val ELSE NULL

\* A table of that length with one more entry, at the head of its chain.
PutFirst(table, length, e) == [table EXCEPT ![Hash[e.key] % length] = <<e>> \o @]

\* The inner loop of hash_table_growup: a chain's entries in turn go to the new table.
Moved(table, length, chain) ==
    LET after[i \in 0..Len(chain)] ==
            IF i = 0 THEN table ELSE PutFirst(after[i - 1], length, chain[i])
    IN  after[Len(chain)]

\* Its outer loop.
Rehashed(capacity) ==
    LET after[i \in 0..size] ==
            IF i = 0 THEN [slot \in 0..(capacity - 1) |-> <<>>]
            ELSE Moved(after[i - 1], capacity, chains[i - 1])
    IN  after[size]

\* The tables hash_table_growup may leave: it allocates from three quarters on.
Grown ==
    IF size = 0 THEN {chains, Rehashed(FirstSize)}
    ELSE IF 4 * use >= 3 * size THEN {chains, Rehashed(2 * size)}
    ELSE {chains}

hash_table_insert(k, v) ==
    \/ /\ Found(k)
       /\ ret' = FALSE
       /\ chains' = [chains EXCEPT ![Slot(k)] = [@ EXCEPT ![At(@, k)] = Entry(k, v)]]
       /\ UNCHANGED <<use, crashed>>
    \/ /\ ~Found(k)
       /\ \E table \in Grown :
            \/ chains' = table /\ UNCHANGED <<use, ret, crashed>>
            \/ /\ table = <<>>
               /\ crashed' = TRUE
               /\ UNCHANGED <<chains, use, ret>>
            \/ /\ table # <<>>
               /\ chains' = PutFirst(table, Cardinality(DOMAIN table), Entry(k, v))
               /\ use' = use + 1 /\ ret' = TRUE
               /\ UNCHANGED crashed

\* The chain after its entry with the key has been taken out.
Unlinked(chain, k) ==
    [i \in 1..(Len(chain) - 1) |-> IF i < At(chain, k) THEN chain[i] ELSE chain[i + 1]]

hash_table_del(k) ==
    \/ size = 0 /\ crashed' = TRUE /\ UNCHANGED <<chains, use, ret>>
    \/ /\ size # 0 /\ Found(k)
       /\ chains' = [chains EXCEPT ![Slot(k)] = Unlinked(@, k)]
       /\ use' = use - 1 /\ ret' = TRUE
       /\ UNCHANGED crashed
    \/ /\ size # 0 /\ ~Found(k)
       /\ ret' = FALSE
       /\ UNCHANGED <<chains, use, crashed>>

Next ==
    /\ ~crashed
    /\ \/ \E p \in Pairs : hash_table_insert(p[1], p[2])
       \/ \E k \in TreeKeys : hash_table_del(k)

Spec == Init /\ [][Next]_<<chains, use, ret, crashed>>

(***************************************************************************)
(* The iterator: index_, and the chain from entry_ on, <<>> for NULL.      *)
(***************************************************************************)
\* What a caller of hash_table_get_iterator is handed.  It prepares an iterator and ends
\* without a return, which is undefined: the caller has the iterator, if the register for
\* results still holds it, or something else (<<>>), as it has when malloc fails.
hash_table_get_iterator == {<<[index |-> -1, rest |-> <<>>]>>, <<>>}

\* One turn of the loop of hash_table_next.
Step(it) ==
    IF it.rest = <<>>
    THEN [index |-> it.index + 1,
          rest |-> IF it.index + 1 < size THEN chains[it.index + 1] ELSE <<>>]
    ELSE [it EXCEPT !.rest = Tail(@)]

\* The loop: until there is an entry, or no chain.
hash_table_next(it) ==
    LET after[i \in 0..(size + 1)] == IF i = 0 THEN Step(it) ELSE
            IF after[i - 1].rest # <<>> \/ after[i - 1].index >= size THEN after[i - 1]
            ELSE Step(after[i - 1])
    IN  after[size + 1]

\* What n calls of hash_table_next return: the key of an entry, or NULL.
Returned(iterator, n) ==
    LET it[i \in 0..n] == IF i = 0 THEN iterator ELSE hash_table_next(it[i - 1])
    IN  [i \in 1..n |-> IF it[i].rest = <<>> THEN NULL ELSE Head(it[i].rest).key]

\* What the loop of hash_table_clear counts.
alreadyDel ==
    LET after[i \in 0..size] == IF i = 0 THEN 0 ELSE after[i - 1] + Len(chains[i - 1])
    IN  after[size]

-----------------------------------------------------------------------------
\* hash_table.c:162-182: an iteration during which nothing is inserted or deleted returns
\* every key once, whatever chains are empty, and then NULL: to a caller that was handed
\* the iterator, which hash_table.c:161 leaves to chance.
IteratesAll ==
  \A handed \in hash_table_get_iterator : handed # <<>> =>
    LET returned == Returned(handed[1], use + 1)
    IN  /\ {returned[i] : i \in 1..use} = {k \in TreeKeys : find(k) # NULL}
        /\ Cardinality({returned[i] : i \in 1..use}) = use
        /\ returned[use + 1] = NULL

\* hash_table.c:146: the assertion of hash_table_clear, were it called now, holds.
ClearMeetsAll == alreadyDel = use

\* hash_table.c:18-126: through collisions, growth and failed allocations a search finds
\* what a dictionary of the same calls holds, up to the crash.
Dict == INSTANCE Dictionary WITH dict <- [k \in TreeKeys |-> find(k)], Overwrites <- TRUE
=============================================================================
