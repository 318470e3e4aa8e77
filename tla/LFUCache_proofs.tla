----------------------------- MODULE LFUCache_proofs -----------------------------
(***************************************************************************)
(* For every set of keys and values, every capacity and every bound on the *)
(* number of uses: the tables of LFU_Cache.h agree after every call,       *)
(* m_minFreq names the least number of uses of the held keys, and the      *)
(* cache keeps what EvictingCache promises: what a full cache drops is the *)
(* key used least often, and among equals the oldest.                      *)
(***************************************************************************)
EXTENDS LFUCacheHistory, TLAPS, SequenceTheorems, FiniteSetTheorems

\* What erase leaves of a list that holds k once: the other keys, each once.
LEMMA EraseFacts ==
  ASSUME NEW s \in Seq(Keys), NEW k \in Range(s), IsInjective(s)
  PROVE  /\ Erase(s, k) \in Seq(Keys)
         /\ Range(Erase(s, k)) = Range(s) \ {k}
         /\ IsInjective(Erase(s, k))
<1> DEFINE at == CHOOSE i \in 1..Len(s) : s[i] = k
           t  == [i \in 1..(Len(s) - 1) |-> IF i < at THEN s[i] ELSE s[i + 1]]
<1>1. at \in 1..Len(s) /\ s[at] = k
  BY DEF Range
<1>2. Erase(s, k) = t
  BY DEF Erase
<1> HIDE DEF at
<1>3. Len(s) - 1 \in Nat /\ Len(s) \in Nat
  BY <1>1
<1>4. \A i \in 1..(Len(s) - 1) : t[i] \in Keys
  BY <1>1, <1>3
<1>5. t \in Seq(Keys) /\ DOMAIN t = 1..(Len(s) - 1)
  <2>1. t \in [1..(Len(s) - 1) -> Keys]
    BY <1>4
  <2> QED BY <2>1, <1>3
<1>6. \A i, j \in 1..Len(s) : s[i] = s[j] => i = j
  BY DEF IsInjective
<1>7. \A i \in 1..(Len(s) - 1) : t[i] # k /\ \E j \in 1..Len(s) : s[j] = t[i]
  <2> SUFFICES ASSUME NEW i \in 1..(Len(s) - 1)
               PROVE  t[i] # k /\ \E j \in 1..Len(s) : s[j] = t[i]
    OBVIOUS
  <2>1. CASE i < at
    BY <1>1, <1>3, <1>6, <2>1
  <2>2. CASE ~(i < at)
    <3>1. i + 1 \in 1..Len(s) /\ i + 1 # at /\ t[i] = s[i + 1]
      BY <1>1, <1>3, <2>2
    <3> QED BY <1>1, <1>6, <3>1
  <2> QED BY <2>1, <2>2
<1>8. \A j \in 1..Len(s) : s[j] # k => \E i \in 1..(Len(s) - 1) : t[i] = s[j]
  <2> SUFFICES ASSUME NEW j \in 1..Len(s), s[j] # k
               PROVE  \E i \in 1..(Len(s) - 1) : t[i] = s[j]
    OBVIOUS
  <2>1. CASE j < at
    <3>1. j \in 1..(Len(s) - 1) /\ t[j] = s[j]
      BY <1>1, <1>3, <2>1
    <3> QED BY <3>1
  <2>2. CASE j > at
    <3>1. j - 1 \in 1..(Len(s) - 1) /\ t[j - 1] = s[j]
      BY <1>1, <1>3, <2>2
    <3> QED BY <3>1
  <2> QED BY <1>1, <1>3, <2>1, <2>2
<1>9. Range(t) = Range(s) \ {k}
  <2>1. Range(s) = {s[j] : j \in 1..Len(s)} /\ Range(t) = {t[i] : i \in 1..(Len(s) - 1)}
    BY <1>5 DEF Range
  <2> HIDE DEF t
  <2>2. ASSUME NEW x \in Range(t) PROVE x \in Range(s) \ {k}
    <3>1. PICK i \in 1..(Len(s) - 1) : x = t[i]
      BY <2>1
    <3>2. PICK j \in 1..Len(s) : s[j] = x
      BY <1>7, <3>1
    <3> QED BY <1>7, <2>1, <3>1, <3>2
  <2>3. ASSUME NEW x \in Range(s), x # k PROVE x \in Range(t)
    <3>1. PICK j \in 1..Len(s) : x = s[j]
      BY <2>1
    <3>2. PICK i \in 1..(Len(s) - 1) : t[i] = x
      BY <1>8, <2>3, <3>1
    <3> QED BY <2>1, <3>2
  <2> QED BY <2>2, <2>3
<1>10. IsInjective(t)
  <2> SUFFICES ASSUME NEW i \in 1..(Len(s) - 1), NEW j \in 1..(Len(s) - 1), t[i] = t[j]
               PROVE  i = j
    BY <1>5 DEF IsInjective
  <2> DEFINE pos(n) == IF n < at THEN n ELSE n + 1
  <2>1. \A n \in 1..(Len(s) - 1) : pos(n) \in 1..Len(s) /\ t[n] = s[pos(n)]
    BY <1>1, <1>3
  <2>2. pos(i) = pos(j)
    BY <1>6, <2>1
  <2> QED BY <2>2, <1>1, <1>3
<1> HIDE DEF t
<1> QED BY <1>2, <1>5, <1>9, <1>10

\* push_back of a key the list does not hold.
LEMMA AppendFacts ==
  ASSUME NEW s \in Seq(Keys), NEW k \in Keys, k \notin Range(s), IsInjective(s)
  PROVE  /\ Append(s, k) \in Seq(Keys)
         /\ Range(Append(s, k)) = Range(s) \cup {k}
         /\ IsInjective(Append(s, k))
<1> DEFINE t == Append(s, k)
<1>1. /\ t \in Seq(Keys)
      /\ Len(t) = Len(s) + 1
      /\ Len(s) \in Nat
      /\ \A i \in 1..Len(s) : t[i] = s[i]
      /\ t[Len(s) + 1] = k
  BY AppendProperties
<1> HIDE DEF t
<1>2. DOMAIN s = 1..Len(s) /\ DOMAIN t = 1..(Len(s) + 1)
  BY <1>1
<1>3. Range(t) = Range(s) \cup {k}
  <2>1. \A i \in 1..(Len(s) + 1) : i \in 1..Len(s) \/ i = Len(s) + 1
    BY <1>1
  <2>2. \A i \in 1..Len(s) : i \in 1..(Len(s) + 1)
    BY <1>1
  <2>3. Len(s) + 1 \in 1..(Len(s) + 1)
    BY <1>1
  <2> QED BY <1>1, <1>2, <2>1, <2>2, <2>3 DEF Range
<1>4. IsInjective(t)
  <2>1. \A i \in 1..Len(s) : s[i] # k
    BY <1>2 DEF Range
  <2>2. \A i, j \in 1..Len(s) : s[i] = s[j] => i = j
    BY <1>2 DEF IsInjective
  <2> QED BY <1>1, <1>2, <2>1, <2>2 DEF IsInjective
<1> QED BY <1>1, <1>3, <1>4 DEF t

\* Taking the head of a list, the node removeMinFre erases.
LEMMA TailFacts ==
  ASSUME NEW s \in Seq(Keys), s # <<>>, IsInjective(s)
  PROVE  /\ Head(s) \in Range(s)
         /\ Tail(s) \in Seq(Keys)
         /\ Range(Tail(s)) = Range(s) \ {Head(s)}
         /\ IsInjective(Tail(s))
<1> DEFINE t == Tail(s)
<1>1. /\ t \in Seq(Keys)
      /\ Len(t) = Len(s) - 1
      /\ \A i \in 1..Len(t) : t[i] = s[i + 1]
      /\ Len(s) \in Nat \ {0}
      /\ Head(s) = s[1]
  BY HeadTailProperties, EmptySeq
<1> HIDE DEF t
<1>2. DOMAIN s = 1..Len(s) /\ DOMAIN t = 1..(Len(s) - 1)
  BY <1>1
<1>3. \A i, j \in 1..Len(s) : s[i] = s[j] => i = j
  BY <1>2 DEF IsInjective
<1>4. \A i \in 1..Len(s) : i # 1 => i - 1 \in 1..(Len(s) - 1) /\ t[i - 1] = s[i]
  <2> SUFFICES ASSUME NEW i \in 1..Len(s), i # 1
               PROVE  i - 1 \in 1..(Len(s) - 1) /\ t[i - 1] = s[i]
    OBVIOUS
  <2>1. i - 1 \in 1..Len(t) /\ (i - 1) + 1 = i
    BY <1>1
  <2> QED BY <1>1, <2>1
<1>5. \A i \in 1..(Len(s) - 1) : i + 1 \in 1..Len(s) /\ t[i] = s[i + 1] /\ i + 1 # 1
  BY <1>1
<1>6. 1 \in 1..Len(s)
  BY <1>1
<1>7. Range(t) = Range(s) \ {s[1]}
  <2>1. Range(t) \subseteq Range(s) \ {s[1]}
    BY <1>2, <1>3, <1>5, <1>6 DEF Range
  <2>2. Range(s) \ {s[1]} \subseteq Range(t)
    <3> SUFFICES ASSUME NEW i \in 1..Len(s), s[i] # s[1]
                 PROVE  s[i] \in Range(t)
      BY <1>2 DEF Range
    <3>1. i - 1 \in 1..(Len(s) - 1) /\ t[i - 1] = s[i]
      BY <1>4
    <3> QED BY <1>2, <3>1 DEF Range
  <2> QED BY <2>1, <2>2
<1>8. IsInjective(t)
  <2> SUFFICES ASSUME NEW i \in 1..(Len(s) - 1), NEW j \in 1..(Len(s) - 1), t[i] = t[j]
               PROVE  i = j
    BY <1>2 DEF IsInjective
  <2>1. i + 1 = j + 1
    BY <1>3, <1>5
  <2> QED BY <2>1
<1>9. s[1] \in Range(s)
  BY <1>2, <1>6 DEF Range
<1> QED BY <1>1, <1>7, <1>8, <1>9 DEF t

\* A list is empty when it holds no key.
LEMMA EmptyFacts ==
  ASSUME NEW s \in Seq(Keys)
  PROVE  s = <<>> <=> Range(s) = {}
<1>1. DOMAIN s = 1..Len(s) /\ Len(s) \in Nat
  OBVIOUS
<1>2. s = <<>> => Range(s) = {}
  BY DEF Range
<1>3. s # <<>> => s[1] \in Range(s)
  <2>1. s # <<>> => 1 \in 1..Len(s)
    BY EmptySeq, <1>1
  <2> QED BY <1>1, <2>1 DEF Range
<1> QED BY <1>2, <1>3
-----------------------------------------------------------------------------
\* The inductive invariant. MinFreqIsLeast alone is not inductive: that the list
\* of m_minFreq is not empty after an erase follows only from what the lists
\* hold (TablesAgree).
IInv == TypeOK /\ TablesAgree /\ MinFreqIsLeast /\ NeverOverfull

LEMMA InitIInv == Init => IInv
<1> SUFFICES ASSUME Init PROVE IInv
  OBVIOUS
<1>1. Held = {} /\ contains \in [Held -> ValNode]
  BY DEF Init, Held
<1>2. \A f \in Freqs : freq2Key[f] = <<>> /\ <<>> \in Seq(Keys)
  BY DEF Init
<1>3. TypeOK
  BY <1>1, <1>2 DEF Init, TypeOK
<1>4. TablesAgree
  BY <1>1, <1>2 DEF TablesAgree, IsInjective, Range
<1>5. MinFreqIsLeast
  BY <1>1 DEF MinFreqIsLeast
<1>6. NeverOverfull
  BY <1>1, FS_EmptySet, SizeAssumption DEF NeverOverfull
<1> QED BY <1>3, <1>4, <1>5, <1>6 DEF IInv

\* Where increaseFreq leaves the lists.
LEMMA UseMovesKey ==
  ASSUME IInv, NEW k \in Held, NEW v, increaseFreq(k, v)
  PROVE  \A g \in Freqs :
           freq2Key'[g] = IF g = contains[k].freq THEN Erase(freq2Key[contains[k].freq], k)
                          ELSE IF g = contains[k].freq + 1
                          THEN Append(freq2Key[contains[k].freq + 1], k)
                          ELSE freq2Key[g]
<1> DEFINE f == contains[k].freq
           e == Erase(freq2Key[f], k)
           a == Append(freq2Key[f + 1], k)
<1>1. /\ f \in Freqs /\ f + 1 \in Freqs /\ f # f + 1
      /\ contains[k].iterator = f
      /\ freq2Key \in [Freqs -> Seq(Keys)]
  <2>1. contains \in [Held -> ValNode] /\ freq2Key \in [Freqs -> Seq(Keys)]
    BY DEF IInv, TypeOK
  <2>2. f \in Freqs /\ f < MaxFreq
    BY <2>1 DEF ValNode, increaseFreq
  <2>3. f + 1 \in Freqs /\ f # f + 1
    BY <2>2, FreqAssumption DEF Freqs
  <2> QED BY <2>1, <2>2, <2>3 DEF IInv, TablesAgree
<1>2. freq2Key' = [Erased(k) EXCEPT ![f + 1] = Append(Erased(k)[f + 1], k)]
  BY <1>1 DEF increaseFreq, Relisted
<1> HIDE DEF f, e, a
<1>3. Erased(k) = [freq2Key EXCEPT ![f] = e]
  BY <1>1 DEF Erased, e
<1>4. freq2Key' = [[freq2Key EXCEPT ![f] = e] EXCEPT ![f + 1] = a]
  <2>1. Erased(k)[f + 1] = freq2Key[f + 1]
    BY <1>1, <1>3
  <2> QED BY <1>2, <1>3, <2>1 DEF a
<1>5. \A g \in Freqs : freq2Key'[g] = IF g = f THEN e ELSE IF g = f + 1 THEN a
                                      ELSE freq2Key[g]
  BY <1>1, <1>4
<1> QED BY <1>5 DEF f, e, a

\* One more use of a held key keeps the invariant.
LEMMA IncreaseFreqIInv ==
  ASSUME IInv, NEW k \in Held, NEW v \in Values, increaseFreq(k, v),
         out' \in Values \cup {MISSING}
  PROVE  IInv'
<1> DEFINE f == contains[k].freq
           e == Erase(freq2Key[f], k)
           a == Append(freq2Key[f + 1], k)
<1>1. /\ k \in Keys /\ f \in Freqs /\ f + 1 \in Freqs /\ f # f + 1
      /\ contains[k].iterator = f
      /\ freq2Key \in [Freqs -> Seq(Keys)]
      /\ contains \in [Held -> ValNode]
      /\ \A g \in Freqs : /\ IsInjective(freq2Key[g])
                          /\ Range(freq2Key[g]) = {j \in Held : contains[j].freq = g}
  <2>1. k \in Keys /\ contains \in [Held -> ValNode] /\ freq2Key \in [Freqs -> Seq(Keys)]
    BY DEF IInv, TypeOK
  <2>2. f \in Freqs /\ f < MaxFreq
    BY <2>1 DEF ValNode, increaseFreq
  <2>3. f + 1 \in Freqs /\ f # f + 1
    BY <2>2, FreqAssumption DEF Freqs
  <2> QED BY <2>1, <2>2, <2>3 DEF IInv, TablesAgree
<1> HIDE DEF f
<1>2. e \in Seq(Keys) /\ Range(e) = Range(freq2Key[f]) \ {k} /\ IsInjective(e)
  <2>1. k \in Range(freq2Key[f]) /\ freq2Key[f] \in Seq(Keys) /\ IsInjective(freq2Key[f])
    BY <1>1 DEF f
  <2> QED BY <2>1, EraseFacts
<1>3. a \in Seq(Keys) /\ Range(a) = Range(freq2Key[f + 1]) \cup {k} /\ IsInjective(a)
  <2>1. k \notin Range(freq2Key[f + 1]) /\ freq2Key[f + 1] \in Seq(Keys)
    BY <1>1 DEF f
  <2> QED BY <1>1, <2>1, AppendFacts
<1> HIDE DEF e, a
<1>4. /\ freq2Key' \in [Freqs -> Seq(Keys)]
      /\ \A g \in Freqs : freq2Key'[g] = IF g = f THEN e ELSE IF g = f + 1 THEN a
                                         ELSE freq2Key[g]
  <2>1. \A g \in Freqs : freq2Key'[g] = IF g = f THEN e ELSE IF g = f + 1 THEN a
                                         ELSE freq2Key[g]
    BY UseMovesKey DEF f, e, a
  <2>2. freq2Key' \in [Freqs -> Seq(Keys)]
    <3>1. Erased(k) \in [Freqs -> Seq(Keys)]
      BY <1>1, <1>2 DEF Erased, e
    <3> QED BY <1>1, <1>3, <3>1, <2>1 DEF increaseFreq, Relisted, f, a
  <2> QED BY <2>1, <2>2
<1>5. /\ Held' = Held
      /\ contains' \in [Held -> ValNode]
      /\ \A j \in Held : j # k => contains'[j] = contains[j]
      /\ contains'[k].freq = f + 1 /\ contains'[k].iterator = f + 1
  <2>1. contains' = [contains EXCEPT ![k] = [freq |-> f + 1, iterator |-> f + 1, val |-> v]]
    BY DEF increaseFreq, Renewed, f
  <2> QED BY <1>1, <2>1 DEF Held, ValNode
<1>6. minFreq' = IF e = <<>> /\ f = minFreq THEN minFreq + 1 ELSE minFreq
  <2>1. Erased(k)[f] = e
    BY <1>1 DEF Erased, e
  <2> QED BY <2>1 DEF increaseFreq, Bumped, f
<1>7. TypeOK'
  <2>1. minFreq' \in Freqs
    BY <1>1, <1>6 DEF IInv, TypeOK
  <2>2. Held' \subseteq Keys /\ contains' \in [Held' -> ValNode]
    BY <1>5 DEF IInv, TypeOK
  <2>3. freq2Key' \in [Freqs -> Seq(Keys)]
    BY <1>4
  <2> QED BY <2>1, <2>2, <2>3 DEF TypeOK, Freqs, ValNode
<1>8. TablesAgree'
  <2>1. ASSUME NEW g \in Freqs
        PROVE  /\ IsInjective(freq2Key'[g])
               /\ Range(freq2Key'[g]) = {j \in Held' : contains'[j].freq = g}
    <3>1. CASE g = f
      <4>1. freq2Key'[g] = e
        BY <1>4, <3>1
      <4>2. {j \in Held' : contains'[j].freq = g} = {j \in Held : contains[j].freq = f} \ {k}
        BY <1>1, <1>5, <3>1
      <4>3. Range(e) = {j \in Held : contains[j].freq = f} \ {k}
        BY <1>1, <1>2
      <4> QED BY <1>2, <4>1, <4>2, <4>3
    <3>2. CASE g = f + 1
      <4>1. freq2Key'[g] = a
        BY <1>4, <3>2, <1>1
      <4>2. {j \in Held' : contains'[j].freq = g} = {j \in Held : contains[j].freq = f + 1} \cup {k}
        BY <1>1, <1>5, <3>2
      <4>3. Range(a) = {j \in Held : contains[j].freq = f + 1} \cup {k}
        BY <1>1, <1>3
      <4> QED BY <1>3, <4>1, <4>2, <4>3
    <3>3. CASE g # f /\ g # f + 1
      <4>1. freq2Key'[g] = freq2Key[g]
        BY <1>4, <3>3
      <4>2. \A j \in Held : contains'[j].freq = g <=> contains[j].freq = g
        BY <1>5, <3>3 DEF f
      <4> QED BY <1>1, <1>5, <4>1, <4>2
    <3> QED BY <3>1, <3>2, <3>3
  <2>2. \A j \in Held' : contains'[j].iterator = contains'[j].freq
    BY <1>5 DEF IInv, TablesAgree
  <2> QED BY <2>1, <2>2 DEF TablesAgree, Freqs
<1>9. MinFreqIsLeast'
  <2>1. \A j \in Held : minFreq <= contains[j].freq /\ contains[j].freq \in Nat
    BY <1>1 DEF IInv, MinFreqIsLeast, ValNode, Freqs
  <2>2. minFreq \in Nat /\ f \in Nat /\ minFreq <= f /\ minFreq \in Freqs
    BY <2>1 DEF IInv, TypeOK, Freqs, f
  <2>3. CASE e = <<>> /\ f = minFreq
    <3>1. minFreq' = f + 1 /\ freq2Key'[f + 1] = a
      BY <1>1, <1>4, <1>6, <2>3
    <3>2. a # <<>>
      BY <1>3 DEF Range
    <3>3. \A j \in Held : j # k => contains[j].freq # f
      <4>1. Range(e) = {}
        BY <1>2, <2>3, EmptyFacts
      <4>2. {j \in Held : contains[j].freq = f} \ {k} = {}
        BY <1>1, <1>2, <4>1
      <4> QED BY <4>2
    <3>4. \A j \in Held : j # k => f + 1 <= contains'[j].freq
      BY <1>5, <2>1, <2>2, <2>3, <3>3
    <3> QED BY <1>5, <2>2, <3>1, <3>2, <3>4 DEF MinFreqIsLeast
  <2>4. CASE ~(e = <<>> /\ f = minFreq)
    <3>1. minFreq' = minFreq
      BY <1>6, <2>4
    <3>2. freq2Key'[minFreq] # <<>>
      <4>1. CASE f = minFreq
        BY <1>4, <2>2, <2>4, <4>1
      <4>2. CASE f # minFreq
        <5>1. minFreq # f + 1 /\ freq2Key[minFreq] # <<>>
          BY <2>2, <4>2 DEF IInv, MinFreqIsLeast
        <5> QED BY <1>4, <2>2, <4>2, <5>1
      <4> QED BY <4>1, <4>2
    <3>3. \A j \in Held : minFreq <= contains'[j].freq
      <4> SUFFICES ASSUME NEW j \in Held PROVE minFreq <= contains'[j].freq
        OBVIOUS
      <4>1. CASE j = k
        BY <1>5, <2>2, <4>1
      <4>2. CASE j # k
        BY <1>5, <2>1, <4>2
      <4> QED BY <4>1, <4>2
    <3> QED BY <1>5, <3>1, <3>2, <3>3 DEF MinFreqIsLeast
  <2> QED BY <2>3, <2>4
<1>10. NeverOverfull'
  BY <1>5 DEF IInv, NeverOverfull
<1> QED BY <1>7, <1>8, <1>9, <1>10 DEF IInv

\* What removeMinFre leaves: the tables still agree, and there is room.
LEMMA RemoveMinFreFacts ==
  ASSUME IInv
  PROVE  /\ DOMAIN Kept \subseteq Held
         /\ Kept \in [DOMAIN Kept -> ValNode]
         /\ \A j \in DOMAIN Kept : Kept[j] = contains[j]
         /\ Lists \in [Freqs -> Seq(Keys)]
         /\ \A g \in Freqs : /\ IsInjective(Lists[g])
                             /\ Range(Lists[g]) = {j \in DOMAIN Kept : contains[j].freq = g}
         /\ Cardinality(DOMAIN Kept) \in Nat
         /\ Cardinality(DOMAIN Kept) < Capacity
<1>1. /\ Held \subseteq Keys
      /\ contains \in [Held -> ValNode]
      /\ freq2Key \in [Freqs -> Seq(Keys)]
      /\ minFreq \in Freqs
      /\ \A g \in Freqs : /\ IsInjective(freq2Key[g])
                          /\ Range(freq2Key[g]) = {j \in Held : contains[j].freq = g}
  BY DEF IInv, TypeOK, TablesAgree
<1>2. IsFiniteSet(Held) /\ Cardinality(Held) \in Nat /\ Cardinality(Held) <= Capacity
  BY <1>1, KeysAssumption, FS_Subset, FS_CardinalityType DEF IInv, NeverOverfull
<1>3. CASE ~Full
  <2>1. Kept = contains /\ Lists = freq2Key /\ DOMAIN Kept = Held
    BY <1>3 DEF Kept, Lists, Held
  <2>2. Cardinality(Held) < Capacity
    BY <1>2, <1>3, SizeAssumption DEF Full
  <2> QED BY <1>1, <1>2, <2>1, <2>2
<1>4. CASE Full
  <2> DEFINE s == freq2Key[minFreq]
             t == Tail(s)
  <2>1. Held # {}
    BY <1>2, <1>4, FS_EmptySet, SizeAssumption DEF Full
  <2>2. s \in Seq(Keys) /\ s # <<>> /\ IsInjective(s)
    BY <1>1, <2>1 DEF IInv, MinFreqIsLeast
  <2>3. /\ Victim \in Range(s) /\ t \in Seq(Keys)
        /\ Range(t) = Range(s) \ {Victim} /\ IsInjective(t)
    BY <2>2, TailFacts DEF Victim
  <2>4. Victim \in Held /\ contains[Victim].freq = minFreq
    BY <1>1, <2>3
  <2>5. Kept = Restrict(contains, Held \ {Victim}) /\ DOMAIN Kept = Held \ {Victim}
    BY <1>4 DEF Kept, Dropped, Held, Restrict
  <2>6. Lists = [freq2Key EXCEPT ![minFreq] = t]
    BY <1>4 DEF Lists
  <2> HIDE DEF s, t
  <2>7. /\ Lists \in [Freqs -> Seq(Keys)]
        /\ \A g \in Freqs : Lists[g] = IF g = minFreq THEN t ELSE freq2Key[g]
    BY <1>1, <2>3, <2>6
  <2>8. ASSUME NEW g \in Freqs
        PROVE  /\ IsInjective(Lists[g])
               /\ Range(Lists[g]) = {j \in DOMAIN Kept : contains[j].freq = g}
    <3>1. CASE g = minFreq
      <4>1. Range(s) = {j \in Held : contains[j].freq = g}
        BY <1>1, <3>1 DEF s
      <4> QED BY <2>3, <2>5, <2>7, <3>1, <4>1
    <3>2. CASE g # minFreq
      BY <1>1, <2>4, <2>5, <2>7, <3>2
    <3> QED BY <3>1, <3>2
  <2>9. Kept \in [DOMAIN Kept -> ValNode] /\ \A j \in DOMAIN Kept : Kept[j] = contains[j]
    BY <1>1, <2>5 DEF Restrict
  <2>10. /\ Cardinality(Held \ {Victim}) = Cardinality(Held) - 1
         /\ Cardinality(Held \ {Victim}) \in Nat
    BY <1>2, <2>4, FS_RemoveElement, FS_CardinalityType
  <2>11. Cardinality(Held \ {Victim}) < Capacity
    BY <1>2, <2>10, SizeAssumption
  <2> QED BY <2>5, <2>7, <2>8, <2>9, <2>10, <2>11
<1> QED BY <1>3, <1>4

\* A new key keeps the invariant, whether or not another one has to leave.
LEMMA InsertIInv ==
  ASSUME IInv, NEW k \in Keys, NEW v \in Values, Insert(k, v)
  PROVE  IInv'
<1> DEFINE K == DOMAIN Kept
           a == Append(Lists[1], k)
           node == [freq |-> 1, iterator |-> 1, val |-> v]
<1>1. /\ K \subseteq Held
      /\ Kept \in [K -> ValNode]
      /\ \A j \in K : Kept[j] = contains[j]
      /\ Lists \in [Freqs -> Seq(Keys)]
      /\ \A g \in Freqs : /\ IsInjective(Lists[g])
                          /\ Range(Lists[g]) = {j \in K : contains[j].freq = g}
      /\ Cardinality(K) \in Nat /\ Cardinality(K) < Capacity
  BY RemoveMinFreFacts
<1>2. /\ minFreq' = 1
      /\ freq2Key' = [Lists EXCEPT ![1] = a]
      /\ contains' = [j \in K \cup {k} |-> IF j = k THEN node ELSE Kept[j]]
      /\ out' = out
      /\ k \notin Held
  BY DEF Insert, Stored
<1> HIDE DEF K, a
<1>3. 1 \in Freqs /\ node \in ValNode
  BY FreqAssumption DEF Freqs, ValNode
<1>4. a \in Seq(Keys) /\ Range(a) = Range(Lists[1]) \cup {k} /\ IsInjective(a)
  BY <1>1, <1>2, <1>3, AppendFacts DEF a
<1>5. /\ freq2Key' \in [Freqs -> Seq(Keys)]
      /\ \A g \in Freqs : freq2Key'[g] = IF g = 1 THEN a ELSE Lists[g]
  BY <1>1, <1>2, <1>3, <1>4
<1>6. /\ Held' = K \cup {k}
      /\ contains' \in [K \cup {k} -> ValNode]
      /\ contains'[k] = node
      /\ \A j \in K : j # k /\ contains'[j] = contains[j]
  BY <1>1, <1>2, <1>3 DEF Held
<1>7. TypeOK'
  <2>1. Held' \subseteq Keys /\ contains' \in [Held' -> ValNode]
    BY <1>1, <1>6 DEF IInv, TypeOK
  <2>2. out' \in Values \cup {MISSING}
    BY <1>2 DEF IInv, TypeOK
  <2> QED BY <1>2, <1>3, <1>5, <2>1, <2>2 DEF TypeOK, Freqs, ValNode
<1>8. TablesAgree'
  <2>1. ASSUME NEW g \in Freqs
        PROVE  /\ IsInjective(freq2Key'[g])
               /\ Range(freq2Key'[g]) = {j \in Held' : contains'[j].freq = g}
    <3>1. CASE g = 1
      <4>1. Range(Lists[1]) = {j \in K : contains[j].freq = 1}
        BY <1>1, <1>3
      <4>2. freq2Key'[g] = a
        BY <1>5, <3>1
      <4>3. contains'[k].freq = 1
        BY <1>6
      <4>4. {j \in Held' : contains'[j].freq = 1} = Range(Lists[1]) \cup {k}
        BY <1>6, <4>1, <4>3
      <4> QED BY <1>4, <3>1, <4>2, <4>4
    <3>2. CASE g # 1
      BY <1>1, <1>5, <1>6, <3>2
    <3> QED BY <3>1, <3>2
  <2>2. \A j \in Held' : contains'[j].iterator = contains'[j].freq
    BY <1>1, <1>6 DEF IInv, TablesAgree
  <2> QED BY <2>1, <2>2 DEF TablesAgree, Freqs
<1>9. MinFreqIsLeast'
  <2>1. freq2Key'[minFreq'] # <<>>
    <3>1. k \in Range(a) /\ a # <<>>
      BY <1>4, EmptyFacts
    <3>2. freq2Key'[1] = a
      BY <1>3, <1>5
    <3> QED BY <1>2, <3>1, <3>2
  <2>2. \A j \in Held' : 1 <= contains'[j].freq
    BY <1>6 DEF ValNode, Freqs
  <2> QED BY <1>2, <2>1, <2>2 DEF MinFreqIsLeast
<1>10. NeverOverfull'
  <2>1. IsFiniteSet(K)
    BY <1>1, KeysAssumption, FS_Subset DEF IInv, TypeOK
  <2>2. Cardinality(K \cup {k}) = Cardinality(K) + 1
    BY <1>6, <2>1, FS_AddElement
  <2>3. Cardinality(K \cup {k}) <= Capacity
    BY <1>1, <2>2, SizeAssumption
  <2> QED BY <1>6, <2>3 DEF NeverOverfull
<1> QED BY <1>7, <1>8, <1>9, <1>10 DEF IInv

LEMMA NextIInv == IInv /\ [Next]_vars => IInv'
<1> SUFFICES ASSUME IInv, [Next]_vars PROVE IInv'
  OBVIOUS
<1>1. ASSUME NEW k \in Keys, Hit(k) PROVE IInv'
  <2>1. contains[k].val \in Values
    BY <1>1 DEF Hit, IInv, TypeOK, ValNode
  <2> QED BY <1>1, <2>1, IncreaseFreqIInv DEF Hit
<1>2. ASSUME NEW k \in Keys, Miss(k) PROVE IInv'
  BY <1>2 DEF Miss, IInv, TypeOK, TablesAgree, MinFreqIsLeast, NeverOverfull, Held,
              Freqs, ValNode
<1>3. ASSUME NEW k \in Keys, NEW v \in Values, Update(k, v) PROVE IInv'
  <2>1. out' \in Values \cup {MISSING}
    BY <1>3 DEF Update, IInv, TypeOK
  <2> QED BY <1>3, <2>1, IncreaseFreqIInv DEF Update
<1>4. ASSUME NEW k \in Keys, NEW v \in Values, Insert(k, v) PROVE IInv'
  BY <1>4, InsertIInv
<1>5. CASE UNCHANGED vars
  BY <1>5 DEF vars, IInv, TypeOK, TablesAgree, MinFreqIsLeast, NeverOverfull, Held,
              Freqs, ValNode
<1> QED BY <1>1, <1>2, <1>3, <1>4, <1>5 DEF Next, get, put

\* Every reachable state of the cache satisfies the inductive invariant.
THEOREM Invariant == Spec => []IInv
<1> QED BY InitIInv, NextIInv, PTL DEF Spec

\* Every variable keeps its type: no list holds a foreign value and m_minFreq
\* stays a number of uses (LFU_Cache.h:24-27).
THEOREM TypeCorrect == Spec => []TypeOK
<1>1. IInv => TypeOK
  BY DEF IInv
<1> QED BY <1>1, Invariant, PTL

\* m_contains and m_freq2Key describe the same cache after every call, so no
\* iterator is ever dead when increaseFreq erases through it (LFU_Cache.h:72).
THEOREM TablesAlwaysAgree == Spec => []TablesAgree
<1>1. IInv => TablesAgree
  BY DEF IInv
<1> QED BY <1>1, Invariant, PTL

\* The list of m_minFreq is never empty while the cache holds a key, which is
\* what makes *m_freq2Key[m_minFreq].begin() legal (LFU_Cache.h:87).
THEOREM MinFreqAlwaysLeast == Spec => []MinFreqIsLeast
<1>1. IInv => MinFreqIsLeast
  BY DEF IInv
<1> QED BY <1>1, Invariant, PTL

\* A cache of maxsize keys never holds more (LFU_Cache.h:54).
THEOREM CapacityKept == Spec => []NeverOverfull
<1>1. IInv => NeverOverfull
  BY DEF IInv
<1> QED BY <1>1, Invariant, PTL
-----------------------------------------------------------------------------
\* The keys of s are in the order r.
InOrder(s, r) == \A i, j \in DOMAIN s : i < j => <<s[i], s[j]>> \in r

\* r orders the keys of S: no two of them are each before the other.
OrderOf(r, S) ==
  /\ r \subseteq S \X S
  /\ \A x, y \in S : <<x, y>> \in r => <<y, x>> \notin r

\* What the invariant of the cache with its history adds: the history orders the
\* held keys and every list follows it, so that the head of a list is the oldest.
Ordered == OrderOf(older, Held) /\ \A f \in Freqs : InOrder(freq2Key[f], older)

\* erase keeps the order of what stays.
LEMMA EraseKeepsOrder ==
  ASSUME NEW r, NEW s \in Seq(Keys), NEW k \in Range(s), InOrder(s, r)
  PROVE  InOrder(Erase(s, k), r)
<1> DEFINE at == CHOOSE i \in 1..Len(s) : s[i] = k
           t  == [i \in 1..(Len(s) - 1) |-> IF i < at THEN s[i] ELSE s[i + 1]]
           pos(n) == IF n < at THEN n ELSE n + 1
<1>1. at \in 1..Len(s) /\ Len(s) \in Nat /\ DOMAIN s = 1..Len(s)
  <2>1. \E i \in 1..Len(s) : s[i] = k
    BY DEF Range
  <2> QED BY <2>1
<1>2. Erase(s, k) = t /\ DOMAIN t = 1..(Len(s) - 1)
  BY DEF Erase
<1> HIDE DEF at
<1>3. \A n \in 1..(Len(s) - 1) : pos(n) \in 1..Len(s) /\ t[n] = s[pos(n)]
  BY <1>1
<1>4. \A i, j \in 1..(Len(s) - 1) : i < j => pos(i) < pos(j)
  BY <1>1
<1> HIDE DEF t, pos
<1>5. InOrder(t, r)
  BY <1>1, <1>2, <1>3, <1>4 DEF InOrder
<1> QED BY <1>2, <1>5

\* So does taking the head.
LEMMA TailKeepsOrder ==
  ASSUME NEW r, NEW s \in Seq(Keys), s # <<>>, InOrder(s, r)
  PROVE  InOrder(Tail(s), r)
<1> DEFINE t == Tail(s)
<1>1. /\ Len(s) \in Nat /\ DOMAIN s = 1..Len(s) /\ DOMAIN t = 1..(Len(s) - 1)
      /\ \A i \in 1..(Len(s) - 1) : t[i] = s[i + 1]
  <2>1. /\ t \in Seq(Keys) /\ Len(t) = Len(s) - 1 /\ Len(s) \in Nat
        /\ \A i \in 1..Len(t) : t[i] = s[i + 1]
    BY HeadTailProperties
  <2> QED BY <2>1
<1> HIDE DEF t
<1>2. \A i, j \in 1..(Len(s) - 1) : i < j => /\ i + 1 \in 1..Len(s) /\ j + 1 \in 1..Len(s)
                                             /\ i + 1 < j + 1
  BY <1>1
<1>3. InOrder(t, r)
  BY <1>1, <1>2 DEF InOrder
<1> QED BY <1>3 DEF t

\* The key touched last comes after all that stay.
LEMMA TouchedFacts ==
  ASSUME OrderOf(older, Held), NEW stay \in SUBSET Held, NEW k
  PROVE  OrderOf(Touched(k, stay), stay \cup {k})
<1>1. \A x, y : <<x, y>> \in Touched(k, stay)
                  <=> \/ <<x, y>> \in older /\ x \in stay \ {k} /\ y \in stay \ {k}
                      \/ x \in stay \ {k} /\ y = k
  BY DEF Touched
<1>2. Touched(k, stay) \subseteq (stay \cup {k}) \X (stay \cup {k})
  <2>1. \A p \in older : p = <<p[1], p[2]>>
    BY DEF OrderOf
  <2> QED BY <2>1 DEF Touched
<1> QED BY <1>1, <1>2 DEF OrderOf

LEMMA TouchedKeepsOrder ==
  ASSUME NEW stay, NEW k, NEW s \in Seq(Keys), InOrder(s, older), Range(s) \subseteq stay \ {k}
  PROVE  InOrder(s, Touched(k, stay))
<1>1. \A i \in DOMAIN s : s[i] \in stay \ {k}
  BY DEF Range
<1> QED BY <1>1 DEF InOrder, Touched

LEMMA TouchedComesLast ==
  ASSUME NEW stay, NEW k \in Keys, NEW s \in Seq(Keys), InOrder(s, older),
         Range(s) \subseteq stay \ {k}
  PROVE  InOrder(Append(s, k), Touched(k, stay))
<1> DEFINE t == Append(s, k)
<1>1. /\ Len(s) \in Nat /\ DOMAIN s = 1..Len(s) /\ DOMAIN t = 1..(Len(s) + 1)
      /\ \A i \in 1..Len(s) : t[i] = s[i]
      /\ t[Len(s) + 1] = k
  BY AppendProperties
<1> HIDE DEF t
<1>2. InOrder(s, Touched(k, stay)) /\ \A i \in DOMAIN s : s[i] \in stay \ {k}
  BY TouchedKeepsOrder DEF Range
<1>3. ASSUME NEW i \in DOMAIN t, NEW j \in DOMAIN t, i < j
      PROVE  <<t[i], t[j]>> \in Touched(k, stay)
  <2>1. i \in 1..Len(s) /\ (j \in 1..Len(s) \/ j = Len(s) + 1)
    BY <1>1, <1>3
  <2>2. CASE j \in 1..Len(s)
    BY <1>1, <1>2, <1>3, <2>1, <2>2 DEF InOrder
  <2>3. CASE j = Len(s) + 1
    <3>1. t[i] \in stay \ {k} /\ t[j] = k
      BY <1>1, <1>2, <2>1, <2>3
    <3> QED BY <3>1 DEF Touched
  <2> QED BY <2>1, <2>2, <2>3
<1> QED BY <1>3 DEF InOrder, t
-----------------------------------------------------------------------------
LEMMA HeldIsHeld ==
  ASSUME TypeOK
  PROVE  Abstract!Held = Held
<1>1. \A k \in Held : k \in Keys /\ contains[k].val \in Values
  BY DEF TypeOK, ValNode
<1> QED BY <1>1, MissingAssumption DEF Abstract!Held

LEMMA SameCardinality == \A S : Abstract!Cardinality(S) = Cardinality(S)
  BY DEF Abstract!Cardinality, Cardinality

\* increaseFreq is a use in EvictingCache, and the lists keep the order.
LEMMA UseStep ==
  ASSUME IInv, Ordered, NEW k \in Held, NEW v \in Values, increaseFreq(k, v),
         older' = Touched(k, Held)
  PROVE  Ordered' /\ Abstract!Use(k, v)
<1> DEFINE f == contains[k].freq
<1>1. /\ k \in Keys /\ f \in Freqs /\ f < MaxFreq /\ f + 1 \in Freqs /\ f # f + 1
      /\ contains[k].iterator = f
      /\ freq2Key \in [Freqs -> Seq(Keys)]
      /\ contains \in [Held -> ValNode] /\ Held \subseteq Keys
      /\ \A g \in Freqs : Range(freq2Key[g]) = {j \in Held : contains[j].freq = g}
  <2>1. /\ Held \subseteq Keys /\ contains \in [Held -> ValNode]
        /\ freq2Key \in [Freqs -> Seq(Keys)]
    BY DEF IInv, TypeOK
  <2>2. f \in Freqs /\ f < MaxFreq
    BY <2>1 DEF ValNode, increaseFreq
  <2>3. f + 1 \in Freqs /\ f # f + 1
    BY <2>2, FreqAssumption DEF Freqs
  <2> QED BY <2>1, <2>2, <2>3 DEF IInv, TablesAgree
<1>2. contains' = [contains EXCEPT ![k] = [freq |-> f + 1, iterator |-> f + 1, val |-> v]]
  BY DEF increaseFreq, Renewed
<1>3. Held' = Held
  BY <1>1, <1>2 DEF Held
<1>4. OrderOf(older', Held')
  <2>1. OrderOf(older, Held) /\ Held \cup {k} = Held
    BY DEF Ordered
  <2>2. OrderOf(Touched(k, Held), Held)
    BY <2>1, TouchedFacts
  <2> QED BY <1>3, <2>2
<1>5. ASSUME NEW g \in Freqs PROVE InOrder(freq2Key'[g], older')
  <2> DEFINE e == Erase(freq2Key[f], k)
             a == Append(freq2Key[f + 1], k)
  <2>1. freq2Key'[g] = IF g = f THEN e ELSE IF g = f + 1 THEN a ELSE freq2Key[g]
    BY <1>1, UseMovesKey
  <2>2. InOrder(freq2Key[g], older) /\ freq2Key[g] \in Seq(Keys)
    BY <1>1 DEF Ordered
  <2>3. CASE g = f
    <3>1. /\ k \in Range(freq2Key[f]) /\ IsInjective(freq2Key[f])
          /\ freq2Key[f] \in Seq(Keys)
      BY <1>1 DEF IInv, TablesAgree
    <3>2. e \in Seq(Keys) /\ Range(e) = Range(freq2Key[f]) \ {k}
      BY <3>1, EraseFacts
    <3>3. InOrder(e, older)
      BY <2>2, <2>3, <3>1, EraseKeepsOrder
    <3>4. Range(e) \subseteq Held \ {k}
      BY <1>1, <3>2
    <3> QED BY <2>1, <2>3, <3>2, <3>3, <3>4, TouchedKeepsOrder
  <2>4. CASE g = f + 1
    <3>1. Range(freq2Key[g]) \subseteq Held \ {k}
      BY <1>1, <2>4
    <3>2. InOrder(Append(freq2Key[g], k), Touched(k, Held))
      BY <1>1, <2>2, <3>1, TouchedComesLast
    <3> QED BY <1>1, <2>1, <2>4, <3>2
  <2>5. CASE g # f /\ g # f + 1
    <3>1. Range(freq2Key[g]) \subseteq Held \ {k}
      BY <1>1, <2>5
    <3> QED BY <2>1, <2>2, <2>5, <3>1, TouchedKeepsOrder
  <2> QED BY <2>3, <2>4, <2>5
<1>6. Ordered'
  BY <1>4, <1>5 DEF Ordered, OrderOf, InOrder, Freqs
<1>7. Abstract!Held = Held
  BY HeldIsHeld DEF IInv
<1>8. [j \in Keys |-> IF j \in Held THEN contains[j].freq ELSE 0][k] = f
  BY <1>1
<1> HIDE DEF f
<1>9. [j \in Keys |-> IF j \in Held THEN contains[j].val ELSE MISSING]'
        = [[j \in Keys |-> IF j \in Held THEN contains[j].val ELSE MISSING] EXCEPT ![k] = v]
  BY <1>1, <1>2, <1>3
<1>10. [j \in Keys |-> IF j \in Held THEN contains[j].freq ELSE 0]'
        = [[j \in Keys |-> IF j \in Held THEN contains[j].freq ELSE 0]
             EXCEPT ![k] = IF TRUE THEN @ + 1 ELSE @]
  BY <1>1, <1>2, <1>3, <1>8
<1>11. older' = {p \in older : p[1] # k /\ p[2] # k} \cup (Held \ {k}) \X {k}
  <2>1. \A p \in older : p[1] \in Held /\ p[2] \in Held
    BY DEF Ordered, OrderOf
  <2> QED BY <2>1 DEF Touched
<1> QED BY <1>1, <1>6, <1>7, <1>8, <1>9, <1>10, <1>11 DEF Abstract!Use

\* What removeMinFre leaves is in the order of before, and what it takes is the
\* key that EvictingCache drops: the head of the list of m_minFreq is the oldest
\* of the least used.
LEMMA RemoveMinFreStep ==
  ASSUME IInv, Ordered
  PROVE  /\ Abstract!Victims \subseteq Held
         /\ DOMAIN Kept = Held \ Abstract!Victims
         /\ \A g \in Freqs : InOrder(Lists[g], older)
<1>1. /\ Held \subseteq Keys
      /\ contains \in [Held -> ValNode]
      /\ freq2Key \in [Freqs -> Seq(Keys)]
      /\ minFreq \in Freqs
      /\ \A g \in Freqs : /\ IsInjective(freq2Key[g])
                          /\ Range(freq2Key[g]) = {j \in Held : contains[j].freq = g}
  BY DEF IInv, TypeOK, TablesAgree
<1>2. Cardinality(Held) \in Nat
  BY <1>1, KeysAssumption, FS_Subset, FS_CardinalityType
<1>3. Abstract!Held = Held
  BY HeldIsHeld DEF IInv
<1>4. CASE ~Full
  <2>1. Kept = contains /\ Lists = freq2Key /\ DOMAIN Kept = Held
    BY <1>4 DEF Kept, Lists, Held
  <2>2. Cardinality(Held) < Capacity
    BY <1>2, <1>4, SizeAssumption DEF Full
  <2>3. Abstract!Victims = {}
    BY <1>3, <2>2, SameCardinality DEF Abstract!Victims
  <2> QED BY <2>1, <2>3 DEF Ordered
<1>5. CASE Full
  <2> DEFINE s == freq2Key[minFreq]
  <2>1. ~(Cardinality(Held) < Capacity) /\ Held # {}
    BY <1>2, <1>5, FS_EmptySet, SizeAssumption DEF Full
  <2>2. s \in Seq(Keys) /\ s # <<>> /\ InOrder(s, older)
    BY <1>1, <2>1 DEF IInv, MinFreqIsLeast, Ordered
  <2>3. /\ Len(s) \in Nat \ {0} /\ DOMAIN s = 1..Len(s) /\ Victim = s[1]
        /\ Range(s) = {s[i] : i \in 1..Len(s)}
    BY <2>2, HeadTailProperties, EmptySeq DEF Victim, Range
  <2>4. Victim \in Held /\ contains[Victim].freq = minFreq
    BY <1>1, <2>3
  <2>5. \A j \in Held : minFreq <= contains[j].freq /\ contains[j].freq \in Nat
    BY <1>1, <2>1 DEF IInv, MinFreqIsLeast, ValNode, Freqs
  <2>6. ASSUME NEW j \in Held, j # Victim, contains[j].freq = minFreq
        PROVE  <<Victim, j>> \in older
    <3>1. j \in Range(s)
      BY <1>1, <2>6
    <3>2. PICK i \in 1..Len(s) : s[i] = j
      BY <2>3, <3>1
    <3>3. 1 < i /\ 1 \in 1..Len(s)
      BY <2>3, <2>6, <3>2
    <3> QED BY <2>2, <2>3, <3>2, <3>3 DEF InOrder
  <2> HIDE DEF s
  <2> DEFINE used == [j \in Keys |-> IF j \in Held THEN contains[j].freq ELSE 0]
  <2>7. \A j \in Held : used[j] = contains[j].freq
    BY <1>1
  <2> HIDE DEF used
  <2>8. \A k \in Held : Abstract!IsVictim(k)
                        <=> \A j \in Held \ {k} :
                              \/ used[k] < used[j]
                              \/ used[k] = used[j] /\ <<k, j>> \in older
    BY <1>3 DEF Abstract!IsVictim, used
  <2>9. Abstract!IsVictim(Victim)
    <3>1. ASSUME NEW j \in Held \ {Victim}
          PROVE  \/ used[Victim] < used[j]
                 \/ used[Victim] = used[j] /\ <<Victim, j>> \in older
      <4>1. minFreq \in Nat /\ minFreq <= contains[j].freq /\ contains[j].freq \in Nat
        BY <1>1, <2>5 DEF Freqs
      <4>2. CASE contains[j].freq = minFreq
        BY <2>4, <2>6, <2>7, <4>2
      <4>3. CASE contains[j].freq # minFreq
        BY <2>4, <2>7, <4>1, <4>3
      <4> QED BY <4>2, <4>3
    <3> QED BY <2>4, <2>8, <3>1
  <2>10. ASSUME NEW k \in Held, k # Victim PROVE ~Abstract!IsVictim(k)
    <3>1. SUFFICES ASSUME Abstract!IsVictim(k) PROVE FALSE
      OBVIOUS
    <3>2. \/ used[k] < used[Victim]
          \/ used[k] = used[Victim] /\ <<k, Victim>> \in older
      BY <2>4, <2>8, <2>10, <3>1
    <3>3. used[k] = contains[k].freq /\ used[Victim] = minFreq
      BY <2>4, <2>7
    <3>4. minFreq \in Nat /\ minFreq <= contains[k].freq /\ contains[k].freq \in Nat
      BY <1>1, <2>5 DEF Freqs
    <3>5. contains[k].freq = minFreq /\ <<k, Victim>> \in older
      BY <3>2, <3>3, <3>4
    <3>6. <<Victim, k>> \in older
      BY <2>6, <2>10, <3>5
    <3> QED BY <2>4, <3>5, <3>6 DEF Ordered, OrderOf
  <2>11. Abstract!Victims = {k \in Held : Abstract!IsVictim(k)}
    BY <1>3, <2>1, SameCardinality DEF Abstract!Victims
  <2>12. Abstract!Victims = {Victim}
    BY <2>4, <2>9, <2>10, <2>11
  <2>13. DOMAIN Kept = Held \ {Victim}
    BY <1>5 DEF Kept, Dropped, Held, Restrict
  <2>14. ASSUME NEW g \in Freqs PROVE InOrder(Lists[g], older)
    <3>1. Lists = [freq2Key EXCEPT ![minFreq] = Tail(s)]
      BY <1>5 DEF Lists, s
    <3>2. InOrder(Tail(s), older) /\ InOrder(freq2Key[g], older)
      BY <2>2, TailKeepsOrder DEF Ordered
    <3> QED BY <1>1, <3>1, <3>2
  <2> QED BY <2>4, <2>12, <2>13, <2>14
<1> QED BY <1>4, <1>5

\* A put of a new key is one in EvictingCache.
LEMMA InsertStep ==
  ASSUME IInv, Ordered, NEW k \in Keys, NEW v \in Values, Insert(k, v),
         older' = Touched(k, DOMAIN Kept)
  PROVE  Ordered' /\ Abstract!Put(k, v)
<1> DEFINE K == DOMAIN Kept
           V == Abstract!Victims
           a == Append(Lists[1], k)
<1>1. /\ K \subseteq Held /\ Held \subseteq Keys
      /\ \A j \in K : Kept[j] = contains[j]
      /\ Lists \in [Freqs -> Seq(Keys)]
      /\ \A g \in Freqs : Range(Lists[g]) \subseteq K
  BY RemoveMinFreFacts DEF IInv, TypeOK
<1>2. V \subseteq Held /\ K = Held \ V /\ \A g \in Freqs : InOrder(Lists[g], older)
  BY RemoveMinFreStep
<1>3. /\ freq2Key' = [Lists EXCEPT ![1] = a]
      /\ contains' = [j \in K \cup {k} |->
                        IF j = k THEN [freq |-> 1, iterator |-> 1, val |-> v] ELSE Kept[j]]
      /\ k \notin Held /\ UNCHANGED out
  BY DEF Insert, Stored
<1>4. 1 \in Freqs
  BY FreqAssumption DEF Freqs
<1>5. older' = Touched(k, K)
  OBVIOUS
<1>6. Abstract!Held = Held
  BY HeldIsHeld DEF IInv
<1>7. /\ Abstract!Put(k, v)
         <=> /\ UNCHANGED out
             /\ \/ Abstract!Use(k, v)
                \/ /\ k \notin Held
                   /\ [j \in Keys |-> IF j \in Held THEN contains[j].val ELSE MISSING]'
                        = [j \in Keys |->
                             IF j = k THEN v
                             ELSE IF j \in V THEN MISSING
                             ELSE [i \in Keys |-> IF i \in Held THEN contains[i].val
                                                  ELSE MISSING][j]]
                   /\ [j \in Keys |-> IF j \in Held THEN contains[j].freq ELSE 0]'
                        = [j \in Keys |->
                             IF j = k THEN 1
                             ELSE IF j \in V THEN 0
                             ELSE [i \in Keys |-> IF i \in Held THEN contains[i].freq
                                                  ELSE 0][j]]
                   /\ older' = {p \in older : p[1] \notin V /\ p[2] \notin V}
                               \cup (Held \ V) \X {k}
  BY <1>6 DEF Abstract!Put
<1> HIDE DEF K, V
<1>8. Held' = K \cup {k} /\ contains'[k].freq = 1 /\ contains'[k].val = v
      /\ \A j \in K : contains'[j] = contains[j]
  BY <1>1, <1>3 DEF Held
<1>9. OrderOf(older', Held')
  BY <1>1, <1>5, <1>8, TouchedFacts DEF Ordered
<1>10. ASSUME NEW g \in Freqs PROVE InOrder(freq2Key'[g], older')
  <2>1. /\ InOrder(Lists[g], older) /\ Lists[g] \in Seq(Keys)
        /\ Range(Lists[g]) \subseteq K \ {k}
    BY <1>1, <1>2, <1>3
  <2>2. CASE g = 1
    <3>1. freq2Key'[g] = Append(Lists[g], k)
      BY <1>1, <1>3, <1>4, <2>2
    <3> QED BY <1>5, <2>1, <3>1, TouchedComesLast
  <2>3. CASE g # 1
    <3>1. freq2Key'[g] = Lists[g]
      BY <1>1, <1>3, <2>3
    <3> QED BY <1>5, <2>1, <3>1, TouchedKeepsOrder
  <2> QED BY <2>2, <2>3
<1>11. Ordered'
  BY <1>9, <1>10 DEF Ordered, OrderOf, InOrder, Freqs
<1>12. [j \in Keys |-> IF j \in Held THEN contains[j].val ELSE MISSING]'
         = [j \in Keys |-> IF j = k THEN v
                           ELSE IF j \in V THEN MISSING
                           ELSE [i \in Keys |-> IF i \in Held THEN contains[i].val
                                                ELSE MISSING][j]]
  BY <1>1, <1>2, <1>8
<1>13. [j \in Keys |-> IF j \in Held THEN contains[j].freq ELSE 0]'
         = [j \in Keys |-> IF j = k THEN 1
                           ELSE IF j \in V THEN 0
                           ELSE [i \in Keys |-> IF i \in Held THEN contains[i].freq
                                                ELSE 0][j]]
  BY <1>1, <1>2, <1>8
<1>14. older' = {p \in older : p[1] \notin V /\ p[2] \notin V} \cup (Held \ V) \X {k}
  <2>1. \A p \in older : p[1] \in Held /\ p[2] \in Held
    BY DEF Ordered, OrderOf
  <2>2. K = Held \ V /\ k \notin K /\ k \notin Held
    BY <1>1, <1>2, <1>3
  <2> QED BY <1>5, <2>1, <2>2 DEF Touched
<1> QED BY <1>3, <1>7, <1>11, <1>12, <1>13, <1>14

LEMMA HistoryInitRight == HistoryInit => IInv /\ Ordered /\ Abstract!Init
<1> SUFFICES ASSUME HistoryInit PROVE IInv /\ Ordered /\ Abstract!Init
  OBVIOUS
<1>1. Held = {} /\ older = {} /\ out = MISSING /\ \A f \in Freqs : freq2Key[f] = <<>>
  BY DEF HistoryInit, Init, Held
<1>2. Ordered
  <2>1. OrderOf(older, Held)
    BY <1>1 DEF OrderOf
  <2>2. \A f \in Freqs : InOrder(freq2Key[f], older)
    BY <1>1 DEF InOrder
  <2> QED BY <2>1, <2>2 DEF Ordered
<1>3. Abstract!Init
  BY <1>1 DEF Abstract!Init
<1> QED BY <1>2, <1>3, InitIInv DEF HistoryInit

\* Every step of the cache is one that EvictingCache allows.
LEMMA HistoryStepRight ==
  IInv /\ Ordered /\ [HistoryNext]_historyVars
    => IInv' /\ Ordered' /\ [Abstract!Next]_(Abstract!abstractVars)
<1> SUFFICES ASSUME IInv, Ordered, [HistoryNext]_historyVars
             PROVE  IInv' /\ Ordered' /\ [Abstract!Next]_(Abstract!abstractVars)
  OBVIOUS
<1>1. IInv'
  <2>1. [Next]_vars
    BY DEF HistoryNext, Next, get, put, historyVars, vars
  <2> QED BY <2>1, NextIInv
<1>2. ASSUME NEW k \in Keys, Hit(k), older' = Touched(k, Held)
      PROVE  Ordered' /\ Abstract!Get(k)
  <2>1. k \in Held /\ contains[k].val \in Values /\ out' = contains[k].val
    BY <1>2 DEF Hit, IInv, TypeOK, ValNode
  <2>2. PICK v \in Values : v = contains[k].val
    BY <2>1
  <2>3. Ordered' /\ Abstract!Use(k, v)
    BY <1>2, <2>1, <2>2, UseStep DEF Hit
  <2>4. [j \in Keys |-> IF j \in Held THEN contains[j].val ELSE MISSING][k] = v
    BY <2>1, <2>2
  <2> QED BY <2>1, <2>2, <2>3, <2>4 DEF Abstract!Get, Abstract!Use
<1>3. ASSUME NEW k \in Keys, Miss(k), UNCHANGED older
      PROVE  Ordered' /\ Abstract!Get(k)
  <2>1. k \notin Abstract!Held
    BY <1>3, HeldIsHeld DEF IInv, Miss
  <2>2. /\ out' = MISSING /\ older' = older /\ Held' = Held
        /\ contains' = contains /\ freq2Key' = freq2Key
    BY <1>3 DEF Miss, Held
  <2>3. Ordered'
    BY <2>2 DEF Ordered, OrderOf, InOrder, Freqs
  <2> QED BY <2>1, <2>2, <2>3 DEF Abstract!Get
<1>4. ASSUME NEW k \in Keys, NEW v \in Values, Update(k, v), older' = Touched(k, Held)
      PROVE  Ordered' /\ Abstract!Put(k, v)
  BY <1>4, UseStep DEF Update, Abstract!Put
<1>5. ASSUME NEW k \in Keys, NEW v \in Values, Insert(k, v), older' = Touched(k, DOMAIN Kept)
      PROVE  Ordered' /\ Abstract!Put(k, v)
  BY <1>5, InsertStep
<1>6. CASE UNCHANGED historyVars
  <2>1. /\ older' = older /\ out' = out /\ Held' = Held
        /\ contains' = contains /\ freq2Key' = freq2Key
    BY <1>6 DEF historyVars, Held
  <2>2. Ordered'
    BY <2>1 DEF Ordered, OrderOf, InOrder, Freqs
  <2>3. UNCHANGED Abstract!abstractVars
    BY <2>1 DEF Abstract!abstractVars
  <2> QED BY <1>1, <2>2, <2>3
<1>7. CASE HistoryNext
  <2>1. PICK k \in Keys : \/ Hit(k) /\ older' = Touched(k, Held)
                          \/ Miss(k) /\ UNCHANGED older
                          \/ \E v \in Values : Update(k, v) /\ older' = Touched(k, Held)
                          \/ \E v \in Values : Insert(k, v) /\ older' = Touched(k, DOMAIN Kept)
    BY <1>7 DEF HistoryNext
  <2>2. Ordered' /\ (Abstract!Get(k) \/ \E v \in Values : Abstract!Put(k, v))
    BY <1>2, <1>3, <1>4, <1>5, <2>1
  <2> QED BY <1>1, <2>2 DEF Abstract!Next
<1> QED BY <1>6, <1>7

\* LFU_Cache.h:2-4: what leaves a full cache is the key used least often, and among
\* equals the oldest, and what stays answers with the value put last: LFUCache
\* implements EvictingCache.
THEOREM DropsTheLeastUsed == HistorySpec => EvictsLeastFrequent
<1>1. HistorySpec => [](IInv /\ Ordered)
  BY HistoryInitRight, HistoryStepRight, PTL DEF HistorySpec
<1> QED
  BY <1>1, HistoryInitRight, HistoryStepRight, PTL
     DEF HistorySpec, EvictsLeastFrequent, Abstract!Spec
=============================================================================
