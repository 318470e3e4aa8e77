--------------------------- MODULE Containers_proofs ---------------------------
(***************************************************************************)
(* Containers of every size.  LRUCache: the iterators in m_map stay on     *)
(* their nodes, and it keeps what EvictingCache promises, so what a full   *)
(* cache drops is the key used longest ago.  The queues, deques and        *)
(* stacks: the array and the linked class of each are one sequence.  The   *)
(* hash table is a dictionary.                                             *)
(***************************************************************************)
EXTENDS LRUCache, Containers, TLAPS, SequenceTheorems, FiniteSetTheorems

(***************************************************************************)
(* LRUCache.                                                               *)
(***************************************************************************)
Entry == [node : Nodes, key : Keys]
Place == [val : Values, node : Nodes]

NodesDiffer(s) == \A i, j \in DOMAIN s : s[i].node = s[j].node => i = j
KeysDiffer(s) == \A i, j \in DOMAIN s : s[i].key = s[j].key => i = j

\* The list s and the table m describe one cache.
Agree(s, m) ==
    /\ s \in Seq(Entry)
    /\ DOMAIN m \subseteq Keys
    /\ m \in [DOMAIN m -> Place]
    /\ Len(s) = Cardinality(DOMAIN m)
    /\ \A k \in DOMAIN m : \E i \in DOMAIN s : s[i] = [node |-> m[k].node, key |-> k]
    /\ \A i \in DOMAIN s : s[i].key \in DOMAIN m
    /\ NodesDiffer(s) /\ KeysDiffer(s)
    /\ Cardinality(DOMAIN m) <= Capacity

\* The inductive invariant.
IInv == Agree(list, map) /\ found \in Values \cup {MISSING}

(***************************************************************************)
(* The list operations.                                                    *)
(***************************************************************************)
LEMMA RemoveAtFacts ==
    ASSUME NEW S, NEW s \in Seq(S), NEW at \in 1..Len(s)
    PROVE  LET t == RemoveAt(s, at)
           IN  /\ t \in Seq(S) /\ Len(t) = Len(s) - 1
               /\ \A j \in 1..(Len(s) - 1) : t[j] = IF j < at THEN s[j] ELSE s[j + 1]
<1> DEFINE a == SubSeq(s, 1, at - 1)
           b == SubSeq(s, at + 1, Len(s))
<1>1. Len(s) \in Nat /\ at \in Nat /\ 1 <= at /\ at <= Len(s)
    OBVIOUS
<1>2. /\ a \in Seq(S) /\ Len(a) = at - 1 /\ \A i \in 1..(at - 1) : a[i] = s[i]
  <2>1. \A i \in 1..(at - 1) : s[i] \in S
    BY <1>1
  <2>2. /\ a \in Seq(S) /\ Len(a) = IF 1 <= at - 1 THEN (at - 1) - 1 + 1 ELSE 0
        /\ \A i \in 1..((at - 1) - 1 + 1) : a[i] = s[1 + i - 1]
    BY <1>1, <2>1, SubSeqProperties
  <2> HIDE DEF a
  <2>. QED
    BY <1>1, <2>2
<1>3. /\ b \in Seq(S) /\ Len(b) = Len(s) - at
      /\ \A i \in 1..(Len(s) - at) : b[i] = s[at + i]
  <2>1. \A i \in (at + 1)..Len(s) : s[i] \in S
    BY <1>1
  <2>2. /\ b \in Seq(S) /\ Len(b) = IF at + 1 <= Len(s) THEN Len(s) - (at + 1) + 1 ELSE 0
        /\ \A i \in 1..(Len(s) - (at + 1) + 1) : b[i] = s[(at + 1) + i - 1]
    BY <1>1, <2>1, SubSeqProperties
  <2> HIDE DEF b
  <2>3. (IF at + 1 <= Len(s) THEN Len(s) - (at + 1) + 1 ELSE 0) = Len(s) - at
    BY <1>1
  <2>4. \A i \in 1..(Len(s) - at) :
            i \in 1..(Len(s) - (at + 1) + 1) /\ (at + 1) + i - 1 = at + i
    BY <1>1
  <2>. QED
    BY <2>2, <2>3, <2>4
<1>4. RemoveAt(s, at) = a \o b
    BY DEF RemoveAt
<1> HIDE DEF a, b
<1>5. /\ a \o b \in Seq(S) /\ Len(a \o b) = (at - 1) + (Len(s) - at)
      /\ \A i \in 1..((at - 1) + (Len(s) - at)) :
            (a \o b)[i] = IF i <= at - 1 THEN a[i] ELSE b[i - (at - 1)]
  <2>1. /\ a \o b \in Seq(S) /\ Len(a \o b) = Len(a) + Len(b)
        /\ \A i \in 1..(Len(a) + Len(b)) :
              (a \o b)[i] = IF i <= Len(a) THEN a[i] ELSE b[i - Len(a)]
    BY <1>2, <1>3, ConcatProperties
  <2>2. Len(a) = at - 1 /\ Len(b) = Len(s) - at
    BY <1>2, <1>3
  <2>. QED
    BY <2>1, <2>2, Zenon
<1>6. ASSUME NEW j \in 1..(Len(s) - 1)
      PROVE  (a \o b)[j] = IF j < at THEN s[j] ELSE s[j + 1]
  <2>1. (a \o b)[j] = IF j <= at - 1 THEN a[j] ELSE b[j - (at - 1)]
    BY <1>1, <1>5
  <2>2. CASE j < at
    BY <1>1, <1>2, <2>1, <2>2
  <2>3. CASE ~(j < at)
    <3>1. j - (at - 1) \in 1..(Len(s) - at) /\ at + (j - (at - 1)) = j + 1
        BY <1>1, <2>3
    <3>. QED
        BY <1>1, <1>3, <2>1, <2>3, <3>1
  <2>. QED
    BY <2>2, <2>3
<1>. QED
    BY <1>1, <1>4, <1>5, <1>6

LEMMA PushedFacts ==
    ASSUME NEW S, NEW s \in Seq(S), NEW e \in S
    PROVE  LET t == <<e>> \o s
           IN  /\ t \in Seq(S) /\ Len(t) = Len(s) + 1 /\ t[1] = e /\ Head(t) = e
               /\ \A j \in 1..Len(s) : t[j + 1] = s[j]
<1> DEFINE t == <<e>> \o s
<1>1. <<e>> \in Seq(S) /\ Len(<<e>>) = 1 /\ <<e>>[1] = e /\ Len(s) \in Nat
    OBVIOUS
<1>2. /\ t \in Seq(S) /\ Len(t) = 1 + Len(s)
      /\ \A i \in 1..(1 + Len(s)) : t[i] = IF i <= 1 THEN <<e>>[i] ELSE s[i - 1]
    BY <1>1, ConcatProperties
<1> HIDE DEF t
<1>3. t[1] = e
    BY <1>1, <1>2
<1>4. ASSUME NEW j \in 1..Len(s) PROVE t[j + 1] = s[j]
  <2>1. j + 1 \in 1..(1 + Len(s)) /\ ~(j + 1 <= 1) /\ (j + 1) - 1 = j
    BY <1>1
  <2>. QED
    BY <1>2, <2>1
<1>5. Head(t) = t[1]
    BY <1>1, <1>2
<1>. QED
    BY <1>1, <1>2, <1>3, <1>4, <1>5 DEF t

\* A list is its first node and the rest.
LEMMA FirstAndRest ==
    ASSUME NEW S, NEW s \in Seq(S), s # <<>>
    PROVE  s = <<s[1]>> \o RemoveAt(s, 1)
<1>1. Len(s) \in Nat \ {0} /\ 1 \in 1..Len(s) /\ s[1] \in S
    OBVIOUS
<1> DEFINE r == RemoveAt(s, 1)
           t == <<s[1]>> \o r
<1>2. r \in Seq(S) /\ Len(r) = Len(s) - 1 /\ \A j \in 1..(Len(s) - 1) : r[j] = s[j + 1]
  <2>1. LET q == RemoveAt(s, 1)
        IN  /\ q \in Seq(S) /\ Len(q) = Len(s) - 1
            /\ \A j \in 1..(Len(s) - 1) : q[j] = IF j < 1 THEN s[j] ELSE s[j + 1]
    BY <1>1, RemoveAtFacts
  <2>. QED
    BY <2>1
<1> HIDE DEF r
<1>3. LET q == <<s[1]>> \o r
      IN  /\ q \in Seq(S) /\ Len(q) = Len(r) + 1 /\ q[1] = s[1] /\ Head(q) = s[1]
          /\ \A j \in 1..Len(r) : q[j + 1] = r[j]
    BY <1>1, <1>2, PushedFacts
<1>4. /\ t \in Seq(S) /\ Len(t) = Len(s) /\ t[1] = s[1]
      /\ \A j \in 1..(Len(s) - 1) : t[j + 1] = s[j + 1]
    BY <1>1, <1>2, <1>3
<1> HIDE DEF t
<1>5. ASSUME NEW i \in 1..Len(s) PROVE t[i] = s[i]
  <2>1. i = 1 \/ (i - 1 \in 1..(Len(s) - 1) /\ (i - 1) + 1 = i)
    BY <1>1
  <2>. QED
    BY <1>4, <2>1
<1>. QED
    BY <1>4, <1>5, SeqEqual DEF r, t

LEMMA FrontIsRemoveAt ==
    ASSUME NEW S, NEW s \in Seq(S), s # <<>>
    PROVE  Front(s) = RemoveAt(s, Len(s))
<1>1. Len(s) \in Nat \ {0}
    OBVIOUS
<1>2. SubSeq(s, Len(s) + 1, Len(s)) = <<>>
    BY <1>1, SubSeqEmpty
<1>3. \A i \in 1..(Len(s) - 1) : s[i] \in S
    BY <1>1
<1>4. SubSeq(s, 1, Len(s) - 1) \in Seq(S)
    BY <1>1, <1>3, SubSeqProperties
<1>. QED
    BY <1>2, <1>4, ConcatEmptySeq DEF Front, RemoveAt

(***************************************************************************)
(* The nodes.                                                              *)
(***************************************************************************)
\* There is a node that the list does not hold among any Len(s) + 1 of them.
LEMMA FreshFacts ==
    ASSUME NEW s \in Seq(Entry)
    PROVE  Fresh(s) \in 1..(Len(s) + 1) /\ \A i \in DOMAIN s : s[i].node # Fresh(s)
<1>1. Len(s) \in Nat /\ DOMAIN s = 1..Len(s)
    OBVIOUS
<1>2. \E n \in 1..(Len(s) + 1) : \A i \in DOMAIN s : s[i].node # n
  <2> SUFFICES ASSUME \A n \in 1..(Len(s) + 1) : \E i \in DOMAIN s : s[i].node = n
               PROVE  FALSE
    OBVIOUS
  <2> DEFINE f == [n \in 1..(Len(s) + 1) |-> CHOOSE i \in DOMAIN s : s[i].node = n]
  <2>1. \A n \in 1..(Len(s) + 1) : f[n] \in 1..Len(s) /\ s[f[n]].node = n
    BY <1>1
  <2>2. f \in [1..(Len(s) + 1) -> 1..Len(s)]
    BY <2>1
  <2> HIDE DEF f
  <2>3. \A n \in Nat : IsFiniteSet(1..n) /\ Cardinality(1..n) = n
    <3> SUFFICES ASSUME NEW n \in Nat PROVE IsFiniteSet(1..n) /\ Cardinality(1..n) = n
        OBVIOUS
    <3>1. IsFiniteSet(1..n) /\ Cardinality(1..n) = IF 1 > n THEN 0 ELSE n - 1 + 1
        BY FS_Interval
    <3>. QED
        BY <3>1
  <2>4. Cardinality(1..Len(s)) < Cardinality(1..(Len(s) + 1))
    BY <1>1, <2>3
  <2>5. IsFiniteSet(1..Len(s)) /\ IsFiniteSet(1..(Len(s) + 1))
    BY <1>1, <2>3
  <2>6. \E x, y \in 1..(Len(s) + 1) : x # y /\ f[x] = f[y]
    <3> DEFINE S == 1..(Len(s) + 1)
               T == 1..Len(s)
    <3>1. /\ IsFiniteSet(S) /\ IsFiniteSet(T) /\ Cardinality(T) < Cardinality(S)
          /\ f \in [S -> T]
        BY <2>2, <2>4, <2>5
    <3> HIDE DEF S, T
    <3>2. \E x, y \in S : x # y /\ f[x] = f[y]
        BY <3>1, FS_PigeonHole
    <3>. QED
        BY <3>2 DEF S
  <2>7. PICK x \in 1..(Len(s) + 1), y \in 1..(Len(s) + 1) : x # y /\ f[x] = f[y]
    BY <2>6
  <2>8. s[f[x]].node = x /\ s[f[y]].node = y
    BY <2>1
  <2>. QED
    BY <2>7, <2>8
<1>. QED
    BY <1>2 DEF Fresh

LEMMA EraseFacts ==
    ASSUME NEW s \in Seq(Entry), NodesDiffer(s), NEW at \in 1..Len(s)
    PROVE  Erase(s, s[at].node) = RemoveAt(s, at)
<1>1. at \in DOMAIN s
    OBVIOUS
<1>2. (CHOOSE i \in DOMAIN s : s[i].node = s[at].node) = at
    BY <1>1 DEF NodesDiffer
<1>. QED
    BY <1>2 DEF Erase

\* Pushing the new node before the old one is erased makes no difference.
LEMMA EraseBehind ==
    ASSUME NEW s \in Seq(Entry), NodesDiffer(s), NEW at \in 1..Len(s), NEW e \in Entry,
           \A i \in DOMAIN s : s[i].node # e.node
    PROVE  Erase(<<e>> \o s, s[at].node) = <<e>> \o RemoveAt(s, at)
<1> DEFINE t == <<e>> \o s
           r == RemoveAt(s, at)
           u == <<e>> \o r
<1>1. Len(s) \in Nat /\ DOMAIN s = 1..Len(s) /\ at \in Nat /\ 1 <= at /\ at <= Len(s)
    OBVIOUS
<1>2. /\ t \in Seq(Entry) /\ Len(t) = Len(s) + 1 /\ t[1] = e
      /\ \A j \in 1..Len(s) : t[j + 1] = s[j]
  <2>1. LET q == <<e>> \o s
        IN  /\ q \in Seq(Entry) /\ Len(q) = Len(s) + 1 /\ q[1] = e /\ Head(q) = e
            /\ \A j \in 1..Len(s) : q[j + 1] = s[j]
    BY PushedFacts
  <2>. QED
    BY <2>1
<1>3. /\ r \in Seq(Entry) /\ Len(r) = Len(s) - 1
      /\ \A j \in 1..(Len(s) - 1) : r[j] = IF j < at THEN s[j] ELSE s[j + 1]
  <2>1. LET q == RemoveAt(s, at)
        IN  /\ q \in Seq(Entry) /\ Len(q) = Len(s) - 1
            /\ \A j \in 1..(Len(s) - 1) : q[j] = IF j < at THEN s[j] ELSE s[j + 1]
    BY RemoveAtFacts
  <2>. QED
    BY <2>1
<1> HIDE DEF t, r
<1>4. /\ u \in Seq(Entry) /\ Len(u) = Len(s) /\ u[1] = e
      /\ \A j \in 1..(Len(s) - 1) : u[j + 1] = r[j]
  <2>1. LET q == <<e>> \o r
        IN  /\ q \in Seq(Entry) /\ Len(q) = Len(r) + 1 /\ q[1] = e /\ Head(q) = e
            /\ \A j \in 1..Len(r) : q[j + 1] = r[j]
    BY <1>3, PushedFacts
  <2>2. Len(r) = Len(s) - 1 /\ Len(r) + 1 = Len(s)
    BY <1>1, <1>3
  <2>. QED
    BY <2>1, <2>2
<1> HIDE DEF u
<1>5. NodesDiffer(t)
  <2>1. \A i \in DOMAIN t : i = 1 \/ (i - 1 \in 1..Len(s) /\ t[i] = s[i - 1])
    <3> SUFFICES ASSUME NEW i \in DOMAIN t, i # 1
                 PROVE  i - 1 \in 1..Len(s) /\ t[i] = s[i - 1]
        OBVIOUS
    <3>1. i - 1 \in 1..Len(s) /\ (i - 1) + 1 = i
        BY <1>1, <1>2
    <3>. QED
        BY <1>2, <3>1
  <2> SUFFICES ASSUME NEW i \in DOMAIN t, NEW j \in DOMAIN t, t[i].node = t[j].node
               PROVE  i = j
    BY DEF NodesDiffer
  <2>2. i \in Int /\ j \in Int
    BY <1>2
  <2>3. CASE i = 1 \/ j = 1
    BY <1>1, <1>2, <2>1, <2>3
  <2>4. CASE i # 1 /\ j # 1
    <3>1. i - 1 = j - 1
        BY <1>1, <2>1, <2>4 DEF NodesDiffer
    <3>. QED
        BY <2>2, <3>1
  <2>. QED
    BY <2>3, <2>4
<1>6. at + 1 \in 1..Len(t) /\ t[at + 1] = s[at]
    BY <1>1, <1>2
<1>7. Erase(t, s[at].node) = RemoveAt(t, at + 1)
    BY <1>2, <1>5, <1>6, EraseFacts
<1> DEFINE w == RemoveAt(t, at + 1)
<1>8. /\ w \in Seq(Entry) /\ Len(w) = Len(s)
      /\ \A j \in 1..Len(s) : w[j] = IF j < at + 1 THEN t[j] ELSE t[j + 1]
  <2>1. LET q == RemoveAt(t, at + 1)
        IN  /\ q \in Seq(Entry) /\ Len(q) = Len(t) - 1
            /\ \A j \in 1..(Len(t) - 1) : q[j] = IF j < at + 1 THEN t[j] ELSE t[j + 1]
    BY <1>2, <1>6, RemoveAtFacts
  <2>2. Len(t) - 1 = Len(s)
    BY <1>1, <1>2
  <2>. QED
    BY <2>1, <2>2
<1> HIDE DEF w
<1>9. ASSUME NEW j \in 1..Len(s) PROVE w[j] = u[j]
  <2>1. CASE j = 1
    BY <1>1, <1>2, <1>4, <1>8, <2>1
  <2>2. CASE j # 1
    <3> DEFINE i == j - 1
    <3>1. i \in 1..(Len(s) - 1) /\ j = i + 1 /\ i \in 1..Len(s)
        BY <1>1, <2>2
    <3> HIDE DEF i
    <3>2. u[j] = r[i] /\ t[j] = s[i] /\ t[j + 1] = s[j]
        BY <1>2, <1>4, <3>1
    <3>3. j < at + 1 <=> i < at
        BY <1>1, <3>1
    <3>. QED
        BY <1>3, <1>8, <3>1, <3>2, <3>3
  <2>. QED
    BY <2>1, <2>2
<1>10. w = u
    BY <1>4, <1>8, <1>9, SeqEqual
<1>. QED
    BY <1>7, <1>10 DEF t, u, r, w

(***************************************************************************)
(* One entry leaves, or comes.                                             *)
(***************************************************************************)
Without(m, k) == [j \in DOMAIN m \ {k} |-> m[j]]
With(m, k, p) == [j \in DOMAIN m \cup {k} |-> IF j = k THEN p ELSE m[j]]

LEMMA HeldIsFinite ==
    ASSUME NEW m, DOMAIN m \subseteq Keys
    PROVE  IsFiniteSet(DOMAIN m) /\ Cardinality(DOMAIN m) \in Nat
<1>1. IsFiniteSet(DOMAIN m)
    BY KeysAssumption, FS_Subset
<1>. QED
    BY <1>1, FS_CardinalityType

LEMMA RemoveAgrees ==
    ASSUME NEW s, NEW m, Agree(s, m), NEW at \in 1..Len(s)
    PROVE  /\ s[at].key \in DOMAIN m
           /\ Agree(RemoveAt(s, at), Without(m, s[at].key))
           /\ DOMAIN Without(m, s[at].key) = DOMAIN m \ {s[at].key}
           /\ Cardinality(DOMAIN m \ {s[at].key}) = Cardinality(DOMAIN m) - 1
<1> DEFINE r == RemoveAt(s, at)
           k == s[at].key
           n == Without(m, k)
<1>1. /\ s \in Seq(Entry) /\ DOMAIN m \subseteq Keys /\ m \in [DOMAIN m -> Place]
      /\ Len(s) = Cardinality(DOMAIN m) /\ Cardinality(DOMAIN m) <= Capacity
      /\ NodesDiffer(s) /\ KeysDiffer(s)
      /\ \A j \in DOMAIN m : \E i \in DOMAIN s : s[i] = [node |-> m[j].node, key |-> j]
      /\ \A i \in DOMAIN s : s[i].key \in DOMAIN m
    BY DEF Agree
<1>2. Len(s) \in Nat /\ DOMAIN s = 1..Len(s) /\ Capacity \in Nat
    BY <1>1, SizeAssumption
<1>3. /\ r \in Seq(Entry) /\ Len(r) = Len(s) - 1
      /\ \A j \in 1..(Len(s) - 1) : r[j] = IF j < at THEN s[j] ELSE s[j + 1]
  <2>1. LET q == RemoveAt(s, at)
        IN  /\ q \in Seq(Entry) /\ Len(q) = Len(s) - 1
            /\ \A j \in 1..(Len(s) - 1) : q[j] = IF j < at THEN s[j] ELSE s[j + 1]
    BY <1>1, RemoveAtFacts
  <2>. QED
    BY <2>1
<1> HIDE DEF r
<1>4. DOMAIN r = 1..(Len(s) - 1)
    BY <1>2, <1>3
<1> DEFINE from(j) == IF j < at THEN j ELSE j + 1
<1>5. \A j \in DOMAIN r : from(j) \in DOMAIN s /\ from(j) # at /\ r[j] = s[from(j)]
    BY <1>2, <1>3, <1>4
<1>6. \A i, j \in DOMAIN r : from(i) = from(j) => i = j
    BY <1>2, <1>4
<1>7. \A i \in DOMAIN s : i # at => \E j \in DOMAIN r : from(j) = i
  <2> SUFFICES ASSUME NEW i \in DOMAIN s, i # at PROVE \E j \in DOMAIN r : from(j) = i
    OBVIOUS
  <2>1. CASE i < at
    <3>1. i \in DOMAIN r /\ from(i) = i
        BY <1>2, <1>4, <2>1
    <3>. QED
        BY <3>1
  <2>2. CASE i > at
    <3>1. i - 1 \in DOMAIN r /\ from(i - 1) = i
        BY <1>2, <1>4, <2>2
    <3>. QED
        BY <3>1
  <2>. QED
    BY <1>2, <2>1, <2>2
<1> HIDE DEF from
<1>8. k \in DOMAIN m
    BY <1>1, <1>2
<1>9. DOMAIN n = DOMAIN m \ {k} /\ \A j \in DOMAIN n : n[j] = m[j]
    BY DEF Without
<1>10. n \in [DOMAIN n -> Place]
    BY <1>1, <1>9 DEF Without
<1> HIDE DEF n
<1>11. Cardinality(DOMAIN n) = Cardinality(DOMAIN m) - 1
  <2>1. IsFiniteSet(DOMAIN m)
    BY <1>1, HeldIsFinite
  <2>. QED
    BY <1>8, <1>9, <2>1, FS_RemoveElement
<1>12. \A i \in DOMAIN s : s[i].key = k => i = at
    BY <1>1, <1>2 DEF KeysDiffer
<1> HIDE DEF k
<1>13. \A j \in DOMAIN n : \E i \in DOMAIN r : r[i] = [node |-> n[j].node, key |-> j]
  <2> SUFFICES ASSUME NEW j \in DOMAIN n
               PROVE  \E i \in DOMAIN r : r[i] = [node |-> n[j].node, key |-> j]
    OBVIOUS
  <2>1. PICK i \in DOMAIN s : s[i] = [node |-> m[j].node, key |-> j]
    BY <1>1, <1>9
  <2>2. i # at
    BY <1>9, <2>1 DEF k
  <2>3. PICK l \in DOMAIN r : from(l) = i
    BY <1>7, <2>2
  <2>. QED
    BY <1>5, <1>9, <2>1, <2>3
<1>14. \A i \in DOMAIN r : r[i].key \in DOMAIN n
    BY <1>1, <1>5, <1>9, <1>12
<1>15. NodesDiffer(r) /\ KeysDiffer(r)
    BY <1>1, <1>5, <1>6 DEF NodesDiffer, KeysDiffer
<1>16. Agree(r, n)
  <2>1. Len(r) = Cardinality(DOMAIN n) /\ Cardinality(DOMAIN n) <= Capacity
    BY <1>1, <1>2, <1>3, <1>11
  <2>2. DOMAIN n \subseteq Keys
    BY <1>1, <1>9
  <2>. QED
    BY <1>3, <1>10, <1>13, <1>14, <1>15, <2>1, <2>2 DEF Agree
<1>. QED
    BY <1>8, <1>9, <1>11, <1>16 DEF r, k, n

LEMMA PushAgrees ==
    ASSUME NEW s, NEW m, Agree(s, m), NEW k \in Keys, k \notin DOMAIN m, NEW v \in Values,
           Cardinality(DOMAIN m) < Capacity, NEW e \in Entry, e.key = k,
           \A i \in DOMAIN s : s[i].node # e.node
    PROVE  Agree(<<e>> \o s, With(m, k, [val |-> v, node |-> e.node]))
<1> DEFINE t == <<e>> \o s
           p == [val |-> v, node |-> e.node]
           n == With(m, k, p)
<1>1. /\ s \in Seq(Entry) /\ DOMAIN m \subseteq Keys /\ m \in [DOMAIN m -> Place]
      /\ Len(s) = Cardinality(DOMAIN m) /\ NodesDiffer(s) /\ KeysDiffer(s)
      /\ \A j \in DOMAIN m : \E i \in DOMAIN s : s[i] = [node |-> m[j].node, key |-> j]
      /\ \A i \in DOMAIN s : s[i].key \in DOMAIN m
    BY DEF Agree
<1>2. Len(s) \in Nat /\ DOMAIN s = 1..Len(s) /\ Capacity \in Nat
    BY <1>1, SizeAssumption
<1>3. /\ t \in Seq(Entry) /\ Len(t) = Len(s) + 1 /\ t[1] = e
      /\ \A j \in 1..Len(s) : t[j + 1] = s[j]
  <2>1. LET q == <<e>> \o s
        IN  /\ q \in Seq(Entry) /\ Len(q) = Len(s) + 1 /\ q[1] = e /\ Head(q) = e
            /\ \A j \in 1..Len(s) : q[j + 1] = s[j]
    BY <1>1, PushedFacts
  <2>. QED
    BY <2>1
<1> HIDE DEF t
<1>4. DOMAIN t = 1..(Len(s) + 1)
    BY <1>2, <1>3
<1>5. \A i \in DOMAIN t : i # 1 => i - 1 \in DOMAIN s /\ t[i] = s[i - 1] /\ i \in Int
  <2> SUFFICES ASSUME NEW i \in DOMAIN t, i # 1
               PROVE  i - 1 \in DOMAIN s /\ t[i] = s[i - 1] /\ i \in Int
    OBVIOUS
  <2>1. i - 1 \in 1..Len(s) /\ (i - 1) + 1 = i
    BY <1>2, <1>4
  <2>. QED
    BY <1>2, <1>3, <1>4, <2>1
<1>6. \A i \in DOMAIN s : i + 1 \in DOMAIN t /\ t[i + 1] = s[i]
    BY <1>2, <1>3, <1>4
<1>7. 1 \in DOMAIN t
    BY <1>2, <1>4
<1>8. p \in Place /\ p.node = e.node /\ e.node \in Nodes /\ e = [node |-> e.node, key |-> k]
    BY DEF Place, Entry
<1> HIDE DEF p
<1>9. /\ DOMAIN n = DOMAIN m \cup {k} /\ n[k] = p /\ \A j \in DOMAIN m : n[j] = m[j]
      /\ n \in [DOMAIN n -> Place]
    BY <1>1, <1>8 DEF With
<1> HIDE DEF n
<1>10. Cardinality(DOMAIN n) = Cardinality(DOMAIN m) + 1
  <2>1. IsFiniteSet(DOMAIN m)
    BY <1>1, HeldIsFinite
  <2>. QED
    BY <1>9, <2>1, FS_AddElement
<1>11. \A j \in DOMAIN n : \E i \in DOMAIN t : t[i] = [node |-> n[j].node, key |-> j]
  <2>1. \E i \in DOMAIN t : t[i] = [node |-> n[k].node, key |-> k]
    BY <1>3, <1>7, <1>8, <1>9
  <2>2. ASSUME NEW j \in DOMAIN m
        PROVE  \E i \in DOMAIN t : t[i] = [node |-> n[j].node, key |-> j]
    <3>1. PICK i \in DOMAIN s : s[i] = [node |-> m[j].node, key |-> j]
        BY <1>1
    <3>. QED
        BY <1>6, <1>9, <3>1
  <2>. QED
    BY <1>9, <2>1, <2>2
<1>12. \A i \in DOMAIN t : t[i].key \in DOMAIN n
    BY <1>1, <1>3, <1>5, <1>9
<1>13. \A i \in DOMAIN t : i # 1 => t[i].node # e.node /\ t[i].key # k
    BY <1>1, <1>5
<1>14. \A i, j \in DOMAIN t : i # 1 /\ j # 1 /\ i - 1 = j - 1 => i = j
    BY <1>5
<1>15. NodesDiffer(t)
    BY <1>1, <1>3, <1>5, <1>13, <1>14 DEF NodesDiffer
<1>16. KeysDiffer(t)
    BY <1>1, <1>3, <1>5, <1>13, <1>14 DEF KeysDiffer
<1>17. Len(t) = Cardinality(DOMAIN n) /\ Cardinality(DOMAIN n) <= Capacity
  <2>1. Cardinality(DOMAIN m) \in Nat
    BY <1>1, HeldIsFinite
  <2>. QED
    BY <1>1, <1>2, <1>3, <1>10, <2>1
<1>18. DOMAIN n \subseteq Keys
    BY <1>1, <1>9
<1>19. Agree(t, n)
    BY <1>3, <1>9, <1>11, <1>12, <1>15, <1>16, <1>17, <1>18 DEF Agree
<1>. QED
    BY <1>19 DEF t, n, p

(***************************************************************************)
(* The order of use.                                                       *)
(***************************************************************************)
LEMMA RemoveKeepsOrder ==
    ASSUME NEW s \in Seq(Entry), KeysDiffer(s), NEW at \in 1..Len(s)
    PROVE  UsedBefore(RemoveAt(s, at))
             = {p \in UsedBefore(s) : p[1] # s[at].key /\ p[2] # s[at].key}
<1> DEFINE r == RemoveAt(s, at)
           k == s[at].key
           from(j) == IF j < at THEN j ELSE j + 1
<1>1. Len(s) \in Nat /\ DOMAIN s = 1..Len(s)
    OBVIOUS
<1>2. /\ r \in Seq(Entry) /\ Len(r) = Len(s) - 1
      /\ \A j \in 1..(Len(s) - 1) : r[j] = IF j < at THEN s[j] ELSE s[j + 1]
  <2>1. LET q == RemoveAt(s, at)
        IN  /\ q \in Seq(Entry) /\ Len(q) = Len(s) - 1
            /\ \A j \in 1..(Len(s) - 1) : q[j] = IF j < at THEN s[j] ELSE s[j + 1]
    BY RemoveAtFacts
  <2>. QED
    BY <2>1
<1> HIDE DEF r
<1>3. DOMAIN r = 1..(Len(s) - 1)
    BY <1>1, <1>2
<1>4. \A j \in DOMAIN r : from(j) \in DOMAIN s /\ from(j) # at /\ r[j] = s[from(j)]
    BY <1>1, <1>2, <1>3
<1>5. \A i, j \in DOMAIN r : i < j <=> from(i) < from(j)
    BY <1>1, <1>3
<1>6. \A i \in DOMAIN s : i # at => \E j \in DOMAIN r : from(j) = i
  <2> SUFFICES ASSUME NEW i \in DOMAIN s, i # at PROVE \E j \in DOMAIN r : from(j) = i
    OBVIOUS
  <2>1. CASE i < at
    <3>1. i \in DOMAIN r /\ from(i) = i
        BY <1>1, <1>3, <2>1
    <3>. QED
        BY <3>1
  <2>2. CASE i > at
    <3>1. i - 1 \in DOMAIN r /\ from(i - 1) = i
        BY <1>1, <1>3, <2>2
    <3>. QED
        BY <3>1
  <2>. QED
    BY <1>1, <2>1, <2>2
<1> HIDE DEF from
<1>7. \A i \in DOMAIN s : s[i].key = k <=> i = at
    BY <1>1 DEF KeysDiffer
<1> HIDE DEF k
<1>8. ASSUME NEW p \in UsedBefore(r) PROVE p \in UsedBefore(s) /\ p[1] # k /\ p[2] # k
  <2>1. PICK i \in DOMAIN r, j \in DOMAIN r : i < j /\ p = <<r[j].key, r[i].key>>
    BY DEF UsedBefore
  <2>2. /\ from(i) \in DOMAIN s /\ from(j) \in DOMAIN s /\ from(i) < from(j)
        /\ p = <<s[from(j)].key, s[from(i)].key>> /\ from(i) # at /\ from(j) # at
    BY <1>4, <1>5, <2>1
  <2>3. p \in Keys \X Keys
    BY DEF UsedBefore
  <2>. QED
    BY <1>7, <2>2, <2>3 DEF UsedBefore
<1>9. ASSUME NEW p \in UsedBefore(s), p[1] # k, p[2] # k PROVE p \in UsedBefore(r)
  <2>1. PICK i \in DOMAIN s, j \in DOMAIN s : i < j /\ p = <<s[j].key, s[i].key>>
    BY DEF UsedBefore
  <2>2. i # at /\ j # at
    BY <1>7, <1>9, <2>1
  <2>3. PICK a \in DOMAIN r : from(a) = i
    BY <1>6, <2>2
  <2>4. PICK b \in DOMAIN r : from(b) = j
    BY <1>6, <2>2
  <2>5. a < b /\ p = <<r[b].key, r[a].key>>
    BY <1>4, <1>5, <2>1, <2>3, <2>4
  <2>6. p \in Keys \X Keys
    BY DEF UsedBefore
  <2>. QED
    BY <2>5, <2>6 DEF UsedBefore
<1>10. UsedBefore(r) = {p \in UsedBefore(s) : p[1] # k /\ p[2] # k}
    BY <1>8, <1>9
<1>. QED
    BY <1>10 DEF r, k

\* The keys of the list are those of the table.
LEMMA ListHoldsKeys ==
    ASSUME NEW s, NEW m, Agree(s, m)
    PROVE  /\ s \in Seq(Entry) /\ DOMAIN m \in SUBSET Keys
           /\ \A i \in DOMAIN s : s[i].key \in DOMAIN m
           /\ \A k \in DOMAIN m : \E i \in DOMAIN s : s[i].key = k
<1>1. \A k \in DOMAIN m : \E i \in DOMAIN s : s[i] = [node |-> m[k].node, key |-> k]
    BY DEF Agree
<1>2. \A k \in DOMAIN m : \E i \in DOMAIN s : s[i].key = k
  <2> SUFFICES ASSUME NEW k \in DOMAIN m PROVE \E i \in DOMAIN s : s[i].key = k
    OBVIOUS
  <2>1. PICK i \in DOMAIN s : s[i] = [node |-> m[k].node, key |-> k]
    BY <1>1
  <2>. QED
    BY <2>1
<1>. QED
    BY <1>2 DEF Agree

LEMMA PushIsNewest ==
    ASSUME NEW s, NEW m, Agree(s, m), NEW e \in Entry
    PROVE  UsedBefore(<<e>> \o s) = UsedBefore(s) \cup ((DOMAIN m) \X {e.key})
<1> DEFINE t == <<e>> \o s
           K == DOMAIN m
<1>1. /\ s \in Seq(Entry) /\ K \in SUBSET Keys
      /\ \A i \in DOMAIN s : s[i].key \in K
      /\ \A k \in K : \E i \in DOMAIN s : s[i].key = k
    BY ListHoldsKeys
<1> HIDE DEF K
<1>2. Len(s) \in Nat /\ DOMAIN s = 1..Len(s)
    BY <1>1
<1>3. /\ t \in Seq(Entry) /\ Len(t) = Len(s) + 1 /\ t[1] = e
      /\ \A j \in 1..Len(s) : t[j + 1] = s[j]
  <2>1. LET q == <<e>> \o s
        IN  /\ q \in Seq(Entry) /\ Len(q) = Len(s) + 1 /\ q[1] = e /\ Head(q) = e
            /\ \A j \in 1..Len(s) : q[j + 1] = s[j]
    BY <1>1, PushedFacts
  <2>. QED
    BY <2>1
<1> HIDE DEF t
<1>4. DOMAIN t = 1..(Len(s) + 1) /\ 1 \in DOMAIN t
    BY <1>2, <1>3
<1>5. \A i \in DOMAIN s : i + 1 \in DOMAIN t /\ t[i + 1] = s[i] /\ 1 < i + 1
    BY <1>2, <1>3, <1>4
<1>6. \A i \in DOMAIN t : i # 1 => i - 1 \in DOMAIN s /\ t[i] = s[i - 1]
  <2> SUFFICES ASSUME NEW i \in DOMAIN t, i # 1 PROVE i - 1 \in DOMAIN s /\ t[i] = s[i - 1]
    OBVIOUS
  <2>1. i - 1 \in 1..Len(s) /\ (i - 1) + 1 = i
    BY <1>2, <1>4
  <2>. QED
    BY <1>2, <1>3, <2>1
<1>7. e.key \in Keys
    BY DEF Entry
<1>8. ASSUME NEW p \in UsedBefore(t) PROVE p \in UsedBefore(s) \cup K \X {e.key}
  <2>1. PICK i \in DOMAIN t, j \in DOMAIN t : i < j /\ p = <<t[j].key, t[i].key>>
    BY DEF UsedBefore
  <2>2. j # 1 /\ j - 1 \in DOMAIN s /\ t[j] = s[j - 1]
    BY <1>2, <1>4, <1>6, <2>1
  <2>3. CASE i = 1
    <3>1. p = <<s[j - 1].key, e.key>>
        BY <1>3, <2>1, <2>2, <2>3
    <3>. QED
        BY <1>1, <2>2, <3>1
  <2>4. CASE i # 1
    <3>1. i - 1 \in DOMAIN s /\ t[i] = s[i - 1] /\ i - 1 < j - 1
        BY <1>2, <1>4, <1>6, <2>1, <2>4
    <3>2. p \in Keys \X Keys /\ p = <<s[j - 1].key, s[i - 1].key>>
        BY <2>1, <2>2, <3>1 DEF UsedBefore
    <3>. QED
        BY <2>2, <3>1, <3>2 DEF UsedBefore
  <2>. QED
    BY <2>3, <2>4
<1>9. ASSUME NEW p \in UsedBefore(s) PROVE p \in UsedBefore(t)
  <2>1. PICK i \in DOMAIN s, j \in DOMAIN s : i < j /\ p = <<s[j].key, s[i].key>>
    BY DEF UsedBefore
  <2>2. i + 1 < j + 1
    BY <1>2, <2>1
  <2>3. p \in Keys \X Keys
    BY DEF UsedBefore
  <2>. QED
    BY <1>5, <2>1, <2>2, <2>3 DEF UsedBefore
<1>10. ASSUME NEW p \in K \X {e.key} PROVE p \in UsedBefore(t)
  <2>1. PICK k \in K : p = <<k, e.key>>
    OBVIOUS
  <2>2. PICK i \in DOMAIN s : s[i].key = k
    BY <1>1
  <2>3. 1 < i + 1 /\ i + 1 \in DOMAIN t /\ p = <<t[i + 1].key, t[1].key>>
    BY <1>3, <1>5, <2>1, <2>2
  <2>4. p \in Keys \X Keys
    BY <1>1, <1>7, <2>1
  <2>. QED
    BY <1>4, <2>3, <2>4 DEF UsedBefore
<1>11. UsedBefore(t) = UsedBefore(s) \cup K \X {e.key}
    BY <1>8, <1>9, <1>10
<1>. QED
    BY <1>11 DEF t, K

\* The pairs in order of use when k, one of K, is used.
Renewed(pairs, K, k) == {p \in pairs : p[1] # k /\ p[2] # k} \cup ((K \ {k}) \X {k})

\* A held key goes to the front, as it is or with another value.
LEMMA UseFacts ==
    ASSUME NEW s, NEW m, Agree(s, m), NEW at \in 1..Len(s), NEW v \in Values, NEW e \in Entry,
           e.key = s[at].key, \A i \in DOMAIN RemoveAt(s, at) : RemoveAt(s, at)[i].node # e.node
    PROVE  /\ Agree(<<e>> \o RemoveAt(s, at),
                    With(m, s[at].key, [val |-> v, node |-> e.node]))
           /\ UsedBefore(<<e>> \o RemoveAt(s, at))
                = Renewed(UsedBefore(s), DOMAIN m, s[at].key)
<1> DEFINE r == RemoveAt(s, at)
           k == s[at].key
           n == Without(m, k)
           p == [val |-> v, node |-> e.node]
<1>1. /\ k \in DOMAIN m /\ Agree(r, n) /\ DOMAIN n = DOMAIN m \ {k}
      /\ Cardinality(DOMAIN n) = Cardinality(DOMAIN m) - 1
  <2>1. /\ s[at].key \in DOMAIN m
        /\ Agree(RemoveAt(s, at), Without(m, s[at].key))
        /\ DOMAIN Without(m, s[at].key) = DOMAIN m \ {s[at].key}
        /\ Cardinality(DOMAIN m \ {s[at].key}) = Cardinality(DOMAIN m) - 1
    BY RemoveAgrees
  <2>. QED
    BY <2>1
<1>2. With(n, k, p) = With(m, k, p)
  <2>1. DOMAIN n \cup {k} = DOMAIN m \cup {k} /\ \A j \in DOMAIN m \ {k} : n[j] = m[j]
    BY <1>1 DEF Without
  <2> HIDE DEF n
  <2>. QED
    BY <2>1 DEF With
<1>3. k \in Keys /\ k \notin DOMAIN n
    BY <1>1 DEF Agree
<1>4. Cardinality(DOMAIN n) < Capacity
  <2>1. Cardinality(DOMAIN m) \in Nat /\ Cardinality(DOMAIN m) <= Capacity
    BY HeldIsFinite DEF Agree
  <2>. QED
    BY <1>1, <2>1, SizeAssumption
<1>5. r \in Seq(Entry) /\ s \in Seq(Entry) /\ KeysDiffer(s)
    BY <1>1 DEF Agree
<1>6. UsedBefore(r) = {q \in UsedBefore(s) : q[1] # k /\ q[2] # k}
    BY <1>5, RemoveKeepsOrder
<1> HIDE DEF n, r, k
<1>7. Agree(<<e>> \o r, With(n, k, [val |-> v, node |-> e.node]))
  <2>1. e.key = k /\ \A i \in DOMAIN r : r[i].node # e.node
    BY DEF r, k
  <2>. QED
    BY <1>1, <1>3, <1>4, <2>1, PushAgrees
<1>8. UsedBefore(<<e>> \o r) = UsedBefore(r) \cup ((DOMAIN n) \X {e.key})
    BY <1>1, PushIsNewest
<1>9. e.key = k
    BY DEF k
<1>10. Agree(<<e>> \o r, With(m, k, p))
    BY <1>2, <1>7
<1>11. UsedBefore(<<e>> \o r) = {q \in UsedBefore(s) : q[1] # k /\ q[2] # k}
                               \cup (DOMAIN m \ {k}) \X {k}
  <2> DEFINE Others == (DOMAIN m \ {k}) \X {k}
  <2>1. (DOMAIN n) \X {e.key} = Others
    BY <1>1, <1>9
  <2> HIDE DEF Others
  <2>2. UsedBefore(<<e>> \o r) = UsedBefore(r) \cup Others
    BY <1>8, <2>1
  <2>. QED
    BY <1>6, <2>2 DEF Others
<1>. QED
    BY <1>10, <1>11 DEF r, k, Renewed

(***************************************************************************)
(* The calls.  Each keeps the list and the table in agreement and is a     *)
(* step of EvictingCache.                                                  *)
(***************************************************************************)
LEMMA HeldIsDomain ==
    ASSUME Agree(list, map)
    PROVE  Abstract!Held = DOMAIN map
<1>1. DOMAIN map \subseteq Keys /\ \A k \in DOMAIN map : map[k].val \in Values
    BY DEF Agree, Place
<1>. QED
    BY <1>1, MissingAssumption DEF Abstract!Held, Contain

\* The instance counts as this module does.
LEMMA SameCardinality ==
    ASSUME NEW S
    PROVE  Abstract!Cardinality(S) = Cardinality(S)
BY DEF Abstract!Cardinality, Cardinality

LEMMA PushFrontFacts ==
    ASSUME NEW s \in Seq(Entry), Len(s) <= Capacity, NEW k \in Keys
    PROVE  /\ Head(PushFront(s, k)) \in Entry /\ Head(PushFront(s, k)).key = k
           /\ PushFront(s, k) = <<Head(PushFront(s, k))>> \o s
           /\ \A i \in DOMAIN s : s[i].node # Head(PushFront(s, k)).node
<1> DEFINE e == [node |-> Fresh(s), key |-> k]
<1>1. Fresh(s) \in 1..(Len(s) + 1) /\ \A i \in DOMAIN s : s[i].node # Fresh(s)
    BY FreshFacts
<1>2. Fresh(s) \in Nodes
    BY <1>1, SizeAssumption DEF Nodes
<1>3. e \in Entry /\ e.key = k /\ e.node = Fresh(s)
    BY <1>2 DEF Entry
<1>4. PushFront(s, k) = <<e>> \o s
    BY DEF PushFront
<1> HIDE DEF e
<1>5. Head(<<e>> \o s) = e
  <2>1. LET t == <<e>> \o s
        IN  /\ t \in Seq(Entry) /\ Len(t) = Len(s) + 1 /\ t[1] = e /\ Head(t) = e
            /\ \A j \in 1..Len(s) : t[j + 1] = s[j]
    BY <1>3, PushedFacts
  <2>. QED
    BY <2>1
<1>. QED
    BY <1>1, <1>3, <1>4, <1>5

LEMMA RestAvoids ==
    ASSUME NEW s \in Seq(Entry), NEW at \in 1..Len(s), NEW n,
           \A i \in DOMAIN s : i # at => s[i].node # n
    PROVE  \A i \in DOMAIN RemoveAt(s, at) : RemoveAt(s, at)[i].node # n
<1> DEFINE r == RemoveAt(s, at)
<1>1. Len(s) \in Nat /\ DOMAIN s = 1..Len(s)
    OBVIOUS
<1>2. /\ r \in Seq(Entry) /\ Len(r) = Len(s) - 1
      /\ \A j \in 1..(Len(s) - 1) : r[j] = IF j < at THEN s[j] ELSE s[j + 1]
  <2>1. LET q == RemoveAt(s, at)
        IN  /\ q \in Seq(Entry) /\ Len(q) = Len(s) - 1
            /\ \A j \in 1..(Len(s) - 1) : q[j] = IF j < at THEN s[j] ELSE s[j + 1]
    BY RemoveAtFacts
  <2>. QED
    BY <2>1
<1> HIDE DEF r
<1>3. \A j \in 1..(Len(s) - 1) :
         j \in DOMAIN s /\ j + 1 \in DOMAIN s /\ (j < at => j # at) /\ (~(j < at) => j + 1 # at)
    BY <1>1
<1>4. DOMAIN r = 1..(Len(s) - 1)
    BY <1>1, <1>2
<1>5. \A i \in DOMAIN r : r[i].node # n
    BY <1>2, <1>3, <1>4
<1>. QED
    BY <1>5 DEF r

LEMMA HeldHasNode ==
    ASSUME NEW s, NEW m, Agree(s, m), NEW k \in DOMAIN m
    PROVE  \E at \in 1..Len(s) : s[at].node = m[k].node /\ s[at].key = k
<1>1. \E i \in DOMAIN s : s[i] = [node |-> m[k].node, key |-> k]
    BY DEF Agree
<1>2. DOMAIN s = 1..Len(s)
    BY DEF Agree
<1>. QED
    BY <1>1, <1>2

\* A held key comes to the front, with v.
LEMMA UseStep ==
    ASSUME Agree(list, map), NEW k \in Keys, NEW v \in Values, NEW e \in Entry, e.key = k,
           NEW at \in 1..Len(list), list[at].key = k,
           \A i \in DOMAIN RemoveAt(list, at) : RemoveAt(list, at)[i].node # e.node,
           list' = <<e>> \o RemoveAt(list, at), map' = With(map, k, [val |-> v, node |-> e.node])
    PROVE  Agree(list, map)' /\ Abstract!Use(k, v)
<1>1. /\ Agree(<<e>> \o RemoveAt(list, at),
               With(map, list[at].key, [val |-> v, node |-> e.node]))
      /\ UsedBefore(<<e>> \o RemoveAt(list, at))
           = Renewed(UsedBefore(list), DOMAIN map, list[at].key)
  <2>1. e.key = list[at].key
    OBVIOUS
  <2>. QED
    BY <2>1, UseFacts
<1>2. /\ Agree(list', map')
      /\ UsedBefore(list') = Renewed(UsedBefore(list), DOMAIN map, k)
    BY <1>1
<1>3. Agree(list, map)'
    BY <1>2 DEF Agree, NodesDiffer, KeysDiffer
<1>4. k \in DOMAIN map
  <2>1. list[at].key \in DOMAIN map
    BY RemoveAgrees
  <2>. QED
    BY <2>1
<1>5. /\ DOMAIN map' = DOMAIN map /\ map'[k].val = v
      /\ \A j \in DOMAIN map \ {k} : map'[j] = map[j]
    BY <1>4 DEF With
<1>6. [j \in Keys |-> IF Contain(j) THEN map[j].val ELSE MISSING]'
        = [[j \in Keys |-> IF Contain(j) THEN map[j].val ELSE MISSING] EXCEPT ![k] = v]
    BY <1>4, <1>5 DEF Contain
<1>7. [j \in Keys |-> IF Contain(j) THEN 1 ELSE 0]'
        = [[j \in Keys |-> IF Contain(j) THEN 1 ELSE 0]
              EXCEPT ![k] = IF FALSE THEN @ + 1 ELSE @]
    BY <1>4, <1>5 DEF Contain
<1>8. UsedBefore(list)' = {p \in UsedBefore(list) : p[1] # k /\ p[2] # k}
                          \cup (DOMAIN map \ {k}) \X {k}
    BY <1>2 DEF UsedBefore, Renewed
<1>9. Abstract!Held = DOMAIN map
    BY HeldIsDomain
<1>10. Abstract!Use(k, v)
    BY <1>4, <1>6, <1>7, <1>8, <1>9 DEF Abstract!Use
<1>. QED
    BY <1>3, <1>10

LEMMA HitStep ==
    ASSUME Agree(list, map), NEW k \in Keys, Contain(k), MoveToFront(k)
    PROVE  Agree(list, map)' /\ Abstract!Use(k, map[k].val) /\ map[k].val \in Values
<1>1. list \in Seq(Entry) /\ k \in DOMAIN map /\ map \in [DOMAIN map -> Place] /\ NodesDiffer(list)
    BY DEF Agree, Contain
<1>2. PICK at \in 1..Len(list) : list[at].node = map[k].node /\ list[at].key = k
    BY <1>1, HeldHasNode
<1>3. DOMAIN list = 1..Len(list) /\ list # <<>> /\ Head(list) = list[1] /\ 1 \in 1..Len(list)
    BY <1>1, <1>2
<1>4. map[k].val \in Values /\ map[k] \in Place
    BY <1>1 DEF Place
<1>5. PICK v \in Values : v = map[k].val
    BY <1>4
<1>6. CASE map[k].node = Head(list).node
  <2>1. at = 1
    BY <1>1, <1>2, <1>3, <1>6 DEF NodesDiffer
  <2>2. UNCHANGED <<list, map>>
    BY <1>6 DEF MoveToFront
  <2>3. list' = <<list[1]>> \o RemoveAt(list, 1)
    BY <1>1, <1>3, <2>2, FirstAndRest
  <2>4. list[1] \in Entry /\ list[1].key = k
    BY <1>1, <1>2, <1>3, <2>1
  <2>5. \A i \in DOMAIN list : i # 1 => list[i].node # list[1].node
    BY <1>1, <1>3 DEF NodesDiffer
  <2>6. \A i \in DOMAIN RemoveAt(list, 1) : RemoveAt(list, 1)[i].node # list[1].node
    BY <1>1, <1>3, <2>5, RestAvoids
  <2>7. PICK e \in Entry : e = list[1]
    BY <2>4
  <2>8. map[k] = [val |-> v, node |-> e.node]
    BY <1>2, <1>4, <1>5, <2>1, <2>7 DEF Place
  <2>9. map' = With(map, k, [val |-> v, node |-> e.node])
    BY <1>1, <2>2, <2>8 DEF With
  <2>10. /\ e.key = k /\ 1 \in 1..Len(list) /\ list[1].key = k
         /\ list' = <<e>> \o RemoveAt(list, 1)
         /\ \A i \in DOMAIN RemoveAt(list, 1) : RemoveAt(list, 1)[i].node # e.node
    BY <1>3, <2>3, <2>4, <2>6, <2>7
  <2>11. Agree(list, map)' /\ Abstract!Use(k, v)
    BY <2>9, <2>10, UseStep
  <2>. QED
    BY <1>5, <2>11 DEF Abstract!Use
<1>7. CASE map[k].node # Head(list).node
  <2>1. Len(list) <= Capacity
    BY DEF Agree
  <2>2. /\ Head(PushFront(list, k)) \in Entry /\ Head(PushFront(list, k)).key = k
        /\ PushFront(list, k) = <<Head(PushFront(list, k))>> \o list
        /\ \A i \in DOMAIN list : list[i].node # Head(PushFront(list, k)).node
    BY <1>1, <2>1, PushFrontFacts
  <2>3. PICK e \in Entry : e = Head(PushFront(list, k))
    BY <2>2
  <2>4. /\ PushFront(list, k) = <<e>> \o list /\ e.key = k
        /\ \A i \in DOMAIN list : list[i].node # e.node
    BY <2>2, <2>3
  <2>5. list' = Erase(<<e>> \o list, list[at].node)
    BY <1>2, <1>7, <2>4 DEF MoveToFront
  <2>6. map' = [map EXCEPT ![k].node = e.node]
    BY <1>7, <2>3 DEF MoveToFront
  <2>7. list' = <<e>> \o RemoveAt(list, at)
    BY <1>1, <2>4, <2>5, EraseBehind
  <2>8. map' = With(map, k, [val |-> v, node |-> e.node])
    <3>1. [map[k] EXCEPT !.node = e.node] = [val |-> v, node |-> e.node]
        BY <1>4, <1>5 DEF Place
    <3>2. DOMAIN map \cup {k} = DOMAIN map
        BY <1>1
    <3>. QED
        BY <1>1, <2>6, <3>1, <3>2 DEF With
  <2>9. \A i \in DOMAIN RemoveAt(list, at) : RemoveAt(list, at)[i].node # e.node
    BY <1>1, <2>4, RestAvoids
  <2>10. Agree(list, map)' /\ Abstract!Use(k, v)
    BY <1>2, <2>4, <2>7, <2>8, <2>9, UseStep
  <2>. QED
    BY <1>5, <2>10 DEF Abstract!Use
<1>. QED
    BY <1>6, <1>7

LEMMA AddKnownStep ==
    ASSUME Agree(list, map), NEW k \in Keys, NEW v \in Values, AddKnown(k, v)
    PROVE  Agree(list, map)' /\ Abstract!Use(k, v)
<1>1. list \in Seq(Entry) /\ k \in DOMAIN map /\ NodesDiffer(list)
    BY DEF Agree, Contain, AddKnown
<1>2. PICK at \in 1..Len(list) : list[at].node = map[k].node /\ list[at].key = k
    BY <1>1, HeldHasNode
<1>3. Erase(list, map[k].node) = RemoveAt(list, at)
    BY <1>1, <1>2, EraseFacts
<1>4. RemoveAt(list, at) \in Seq(Entry) /\ Len(RemoveAt(list, at)) <= Capacity
  <2>1. Agree(RemoveAt(list, at), Without(map, list[at].key))
    BY RemoveAgrees
  <2>. QED
    BY <2>1 DEF Agree
<1>5. PICK e \in Entry :
        /\ e = Head(PushFront(RemoveAt(list, at), k)) /\ e.key = k
        /\ PushFront(RemoveAt(list, at), k) = <<e>> \o RemoveAt(list, at)
        /\ \A i \in DOMAIN RemoveAt(list, at) : RemoveAt(list, at)[i].node # e.node
  <2> DEFINE r == RemoveAt(list, at)
  <2>1. r \in Seq(Entry) /\ Len(r) <= Capacity
    BY <1>4
  <2> HIDE DEF r
  <2>2. /\ Head(PushFront(r, k)) \in Entry /\ Head(PushFront(r, k)).key = k
        /\ PushFront(r, k) = <<Head(PushFront(r, k))>> \o r
        /\ \A i \in DOMAIN r : r[i].node # Head(PushFront(r, k)).node
    BY <2>1, PushFrontFacts
  <2>. QED
    BY <2>2 DEF r
<1>6. Insert(RemoveAt(list, at), map, k, v)
    BY <1>3 DEF AddKnown
<1>7. list' = <<e>> \o RemoveAt(list, at) /\ Head(list') = e
    BY <1>5, <1>6 DEF Insert
<1>8. map' = With(map, k, [val |-> v, node |-> e.node])
    BY <1>6, <1>7 DEF Insert, With
<1>. QED
    BY <1>2, <1>5, <1>7, <1>8, UseStep

\* A new key, with the entries that an eviction has left.
LEMMA InsertStep ==
    ASSUME NEW s, NEW m, Agree(s, m), NEW k \in Keys, k \notin DOMAIN m, NEW v \in Values,
           Cardinality(DOMAIN m) < Capacity, Insert(s, m, k, v)
    PROVE  /\ Agree(list, map)'
           /\ UsedBefore(list)' = UsedBefore(s) \cup ((DOMAIN m) \X {k})
           /\ DOMAIN map' = DOMAIN m \cup {k} /\ map'[k].val = v
           /\ \A j \in DOMAIN m : map'[j] = m[j]
<1>1. s \in Seq(Entry) /\ Len(s) <= Capacity
    BY DEF Agree
<1>2. /\ Head(PushFront(s, k)) \in Entry /\ Head(PushFront(s, k)).key = k
      /\ PushFront(s, k) = <<Head(PushFront(s, k))>> \o s
      /\ \A i \in DOMAIN s : s[i].node # Head(PushFront(s, k)).node
    BY <1>1, PushFrontFacts
<1>3. PICK e \in Entry : e = Head(PushFront(s, k))
    BY <1>2
<1>4. list' = <<e>> \o s /\ Head(list') = e
    BY <1>2, <1>3 DEF Insert
<1>5. map' = With(m, k, [val |-> v, node |-> e.node])
    BY <1>4 DEF Insert, With
<1>6. e.key = k /\ \A i \in DOMAIN s : s[i].node # e.node
    BY <1>2, <1>3
<1>7. Agree(list', map')
    BY <1>4, <1>5, <1>6, PushAgrees
<1>8. UsedBefore(list') = UsedBefore(s) \cup ((DOMAIN m) \X {k})
    BY <1>4, <1>6, PushIsNewest
<1>9. Agree(list, map)'
    BY <1>7 DEF Agree, NodesDiffer, KeysDiffer
<1>10. UsedBefore(list)' = UsedBefore(list')
    BY DEF UsedBefore
<1>11. /\ DOMAIN map' = DOMAIN m \cup {k} /\ map'[k].val = v
       /\ \A j \in DOMAIN m : map'[j] = m[j]
    BY <1>5 DEF With
<1>. QED
    BY <1>8, <1>9, <1>10, <1>11

\* The key at the end of the list is the one that EvictingCache drops.
LEMMA LastIsVictim ==
    ASSUME Agree(list, map), ~(Cardinality(DOMAIN map) < Capacity)
    PROVE  /\ list # <<>> /\ Len(list) \in 1..Len(list)
           /\ Abstract!Victims = {list[Len(list)].key}
<1>1. /\ list \in Seq(Entry) /\ Len(list) = Cardinality(DOMAIN map) /\ KeysDiffer(list)
      /\ \A i \in DOMAIN list : list[i].key \in DOMAIN map
      /\ DOMAIN map \subseteq Keys
    BY DEF Agree
<1>2. Len(list) \in Nat \ {0} /\ Len(list) \in 1..Len(list) /\ DOMAIN list = 1..Len(list)
    BY <1>1, SizeAssumption
<1> DEFINE z == list[Len(list)].key
<1>3. z \in DOMAIN map /\ \A i \in DOMAIN list : list[i].key = z => i = Len(list)
    BY <1>1, <1>2 DEF KeysDiffer
<1>4. \A j \in DOMAIN map \ {z} : <<z, j>> \in UsedBefore(list)
  <2> SUFFICES ASSUME NEW j \in DOMAIN map \ {z} PROVE <<z, j>> \in UsedBefore(list)
    OBVIOUS
  <2>1. PICK i \in DOMAIN list : list[i].key = j
    BY ListHoldsKeys
  <2>2. i < Len(list)
    BY <1>2, <2>1
  <2>3. <<z, j>> \in Keys \X Keys
    BY <1>1, <1>3
  <2>. QED
    BY <1>2, <2>1, <2>2, <2>3 DEF UsedBefore
<1> HIDE DEF z
<1>5. \A k \in DOMAIN map : <<k, z>> \notin UsedBefore(list)
  <2> SUFFICES ASSUME NEW k \in DOMAIN map, <<k, z>> \in UsedBefore(list) PROVE FALSE
    OBVIOUS
  <2>1. PICK i \in DOMAIN list, j \in DOMAIN list :
            i < j /\ <<k, z>> = <<list[j].key, list[i].key>>
    BY DEF UsedBefore
  <2>2. list[i].key = z
    BY <2>1
  <2>3. i = Len(list)
    BY <1>3, <2>2
  <2>. QED
    BY <1>2, <2>1, <2>3
<1>6. Abstract!Held = DOMAIN map
    BY HeldIsDomain
<1>7. \A k \in DOMAIN map : [j \in Keys |-> IF Contain(j) THEN 1 ELSE 0][k] = 1
    BY <1>1 DEF Contain
<1>8. \A k \in DOMAIN map : Abstract!IsVictim(k) <=> k = z
  <2>1. Abstract!IsVictim(z)
    BY <1>3, <1>4, <1>6, <1>7 DEF Abstract!IsVictim
  <2>2. ASSUME NEW k \in DOMAIN map, k # z PROVE ~Abstract!IsVictim(k)
    <3> DEFINE one == [j \in Keys |-> IF Contain(j) THEN 1 ELSE 0]
    <3>1. one[k] = 1 /\ one[z] = 1
        BY <1>3, <1>7
    <3>2. z \in Abstract!Held \ {k}
        BY <1>3, <1>6, <2>2
    <3>3. Abstract!IsVictim(k)
             => one[k] < one[z] \/ (one[k] = one[z] /\ <<k, z>> \in UsedBefore(list))
        BY <3>2 DEF Abstract!IsVictim
    <3> HIDE DEF one
    <3>. QED
        BY <1>5, <3>1, <3>3
  <2>. QED
    BY <2>1, <2>2
<1>9. Abstract!Victims = {z}
    BY <1>3, <1>6, <1>8, SameCardinality DEF Abstract!Victims
<1>. QED
    BY <1>2, <1>9 DEF z

LEMMA AddNewStep ==
    ASSUME Agree(list, map), NEW k \in Keys, NEW v \in Values, AddNew(k, v), UNCHANGED found
    PROVE  Agree(list, map)' /\ Abstract!Put(k, v)
<1>1. k \notin DOMAIN map /\ DOMAIN map \subseteq Keys
    BY DEF AddNew, Contain, Agree
<1>2. Abstract!Held = DOMAIN map
    BY HeldIsDomain
<1>3. ASSUME NEW V \in SUBSET (DOMAIN map), Abstract!Victims = V,
             DOMAIN map' = (DOMAIN map \ V) \cup {k}, map'[k].val = v,
             \A j \in DOMAIN map \ V : map'[j] = map[j],
             UsedBefore(list)' = {p \in UsedBefore(list) : p[1] \notin V /\ p[2] \notin V}
                                 \cup ((DOMAIN map \ V) \X {k})
      PROVE  Abstract!Put(k, v)
  <2>1. [j \in Keys |-> IF Contain(j) THEN map[j].val ELSE MISSING]'
          = [j \in Keys |-> IF j = k THEN v
                            ELSE IF j \in V THEN MISSING
                            ELSE [i \in Keys |-> IF Contain(i) THEN map[i].val ELSE MISSING][j]]
    BY <1>1, <1>3 DEF Contain
  <2>2. [j \in Keys |-> IF Contain(j) THEN 1 ELSE 0]'
          = [j \in Keys |-> IF j = k THEN 1
                            ELSE IF j \in V THEN 0
                            ELSE [i \in Keys |-> IF Contain(i) THEN 1 ELSE 0][j]]
    BY <1>1, <1>3 DEF Contain
  <2>. QED
    BY <1>1, <1>2, <1>3, <2>1, <2>2 DEF Abstract!Put
<1>4. CASE Cardinality(DOMAIN map) < Capacity
  <2>1. Insert(list, map, k, v)
    BY <1>4 DEF AddNew
  <2>2. /\ Agree(list, map)'
        /\ UsedBefore(list)' = UsedBefore(list) \cup ((DOMAIN map) \X {k})
        /\ DOMAIN map' = DOMAIN map \cup {k} /\ map'[k].val = v
        /\ \A j \in DOMAIN map : map'[j] = map[j]
    BY <1>1, <1>4, <2>1, InsertStep
  <2>3. Abstract!Victims = {}
    BY <1>2, <1>4, SameCardinality DEF Abstract!Victims
  <2>. QED
    BY <1>3, <2>2, <2>3
<1>5. CASE ~(Cardinality(DOMAIN map) < Capacity)
  <2> DEFINE z == list[Len(list)].key
             r == RemoveAt(list, Len(list))
             m == Without(map, z)
  <2>1. list # <<>> /\ Len(list) \in 1..Len(list) /\ Abstract!Victims = {z}
    BY <1>5, LastIsVictim
  <2>2. list \in Seq(Entry) /\ KeysDiffer(list) /\ Cardinality(DOMAIN map) <= Capacity
    BY DEF Agree
  <2>3. /\ z \in DOMAIN map /\ Agree(r, m) /\ DOMAIN m = DOMAIN map \ {z}
        /\ Cardinality(DOMAIN map \ {z}) = Cardinality(DOMAIN map) - 1
    BY <2>1, RemoveAgrees
  <2>4. UsedBefore(r) = {p \in UsedBefore(list) : p[1] # z /\ p[2] # z}
    BY <2>1, <2>2, RemoveKeepsOrder
  <2>5. Insert(r, m, k, v)
    BY <1>5, <2>1, <2>2, FrontIsRemoveAt DEF AddNew, Without, Last
  <2>6. \A j \in DOMAIN map \ {z} : m[j] = map[j]
    BY DEF Without
  <2>7. Cardinality(DOMAIN m) < Capacity
  <3>1. Cardinality(DOMAIN map) \in Nat
    BY <1>1, HeldIsFinite
  <3>. QED
    BY <2>2, <2>3, <3>1, SizeAssumption
  <2> HIDE DEF r, m, z
  <2>8. /\ Agree(list, map)'
        /\ UsedBefore(list)' = UsedBefore(r) \cup ((DOMAIN m) \X {k})
        /\ DOMAIN map' = DOMAIN m \cup {k} /\ map'[k].val = v
        /\ \A j \in DOMAIN m : map'[j] = m[j]
    BY <1>1, <2>3, <2>5, <2>7, InsertStep
  <2>9. /\ {z} \in SUBSET (DOMAIN map) /\ DOMAIN map' = (DOMAIN map \ {z}) \cup {k}
        /\ \A j \in DOMAIN map \ {z} : map'[j] = map[j]
    BY <2>3, <2>6, <2>8
  <2>10. UsedBefore(list)' = {p \in UsedBefore(list) : p[1] \notin {z} /\ p[2] \notin {z}}
                             \cup ((DOMAIN map \ {z}) \X {k})
    BY <2>3, <2>4, <2>8
  <2>11. Abstract!Put(k, v)
    BY <1>3, <2>1, <2>8, <2>9, <2>10, Zenon
  <2>. QED
    BY <2>8, <2>11
<1>. QED
    BY <1>4, <1>5

LEMMA EmptyAgrees ==
    /\ Agree(<<>>, <<>>) /\ UsedBefore(<<>>) = {} /\ DOMAIN <<>> = {}
<1>1. <<>> \in Seq(Entry) /\ Len(<<>>) = 0 /\ DOMAIN <<>> = {}
    OBVIOUS
<1>2. Cardinality({}) = 0
    BY FS_EmptySet
<1>3. <<>> \in [{} -> Place]
    BY <1>1
<1>4. NodesDiffer(<<>>) /\ KeysDiffer(<<>>)
    BY <1>1 DEF NodesDiffer, KeysDiffer
<1>5. UsedBefore(<<>>) = {}
    BY <1>1 DEF UsedBefore
<1>. QED
    BY <1>1, <1>2, <1>3, <1>4, <1>5, SizeAssumption DEF Agree

LEMMA InitRight == Init => IInv /\ Abstract!Init
<1> SUFFICES ASSUME Init PROVE IInv /\ Abstract!Init
    OBVIOUS
<1>1. list = <<>> /\ map = <<>> /\ found = MISSING
    BY DEF Init
<1>2. UsedBefore(list) = {} /\ \A k \in Keys : ~Contain(k)
    BY <1>1, EmptyAgrees DEF Contain
<1>. QED
    BY <1>1, <1>2, EmptyAgrees DEF IInv, Abstract!Init

LEMMA ClearStep ==
    ASSUME Clear
    PROVE  Agree(list, map)' /\ Abstract!Clear
<1>1. list' = <<>> /\ map' = <<>> /\ UNCHANGED found
    BY DEF Clear
<1>2. Agree(list', map') /\ UsedBefore(list') = {} /\ DOMAIN map' = {}
    BY <1>1, EmptyAgrees
<1>3. Agree(list, map)'
    BY <1>2 DEF Agree, NodesDiffer, KeysDiffer
<1>4. UsedBefore(list)' = {}
    BY <1>2 DEF UsedBefore
<1>5. \A k \in Keys : ~Contain(k)'
    BY <1>2 DEF Contain
<1>. QED
    BY <1>1, <1>3, <1>4, <1>5 DEF Abstract!Clear

LEMMA GetValStep ==
    ASSUME IInv, NEW k \in Keys, GetVal(k)
    PROVE  IInv' /\ Abstract!Get(k)
<1>1. CASE Contain(k) /\ MoveToFront(k) /\ found' = map[k].val
  <2>1. Agree(list, map)' /\ Abstract!Use(k, map[k].val) /\ map[k].val \in Values
    BY <1>1, HitStep DEF IInv
  <2>2. [j \in Keys |-> IF Contain(j) THEN map[j].val ELSE MISSING][k] = map[k].val
    BY <1>1
  <2>. QED
    BY <1>1, <2>1, <2>2 DEF IInv, Abstract!Get, Abstract!Use
<1>2. CASE ~Contain(k) /\ found' = MISSING /\ UNCHANGED <<list, map>>
  <2>1. k \notin Abstract!Held
    BY <1>2, HeldIsDomain DEF IInv, Contain
  <2>2. Agree(list, map)' /\ UsedBefore(list)' = UsedBefore(list)
    BY <1>2 DEF IInv, Agree, NodesDiffer, KeysDiffer, UsedBefore
  <2>3. \A j \in Keys : Contain(j)' <=> Contain(j)
    BY <1>2 DEF Contain
  <2>. QED
    BY <1>2, <2>1, <2>2, <2>3 DEF IInv, Abstract!Get
<1>. QED
    BY <1>1, <1>2 DEF GetVal

LEMMA AddStep ==
    ASSUME IInv, NEW k \in Keys, NEW v \in Values, Add(k, v)
    PROVE  IInv' /\ Abstract!Put(k, v)
<1>1. UNCHANGED found
    BY DEF Add
<1>2. CASE AddKnown(k, v)
  <2>1. Agree(list, map)' /\ Abstract!Use(k, v)
    BY <1>2, AddKnownStep DEF IInv
  <2>. QED
    BY <1>1, <2>1 DEF IInv, Abstract!Put
<1>3. CASE AddNew(k, v)
  <2>1. Agree(list, map)' /\ Abstract!Put(k, v)
    BY <1>1, <1>3, AddNewStep DEF IInv
  <2>. QED
    BY <1>1, <2>1 DEF IInv
<1>. QED
    BY <1>2, <1>3 DEF Add

LEMMA StepRight ==
    IInv /\ [Next]_lruVars => IInv' /\ [Abstract!Next]_(Abstract!abstractVars)
<1> SUFFICES ASSUME IInv, [Next]_lruVars
             PROVE  IInv' /\ [Abstract!Next]_(Abstract!abstractVars)
    OBVIOUS
<1>1. CASE UNCHANGED lruVars
  <2>1. list' = list /\ map' = map /\ found' = found
    BY <1>1 DEF lruVars
  <2>2. Agree(list, map)' /\ UsedBefore(list)' = UsedBefore(list)
    BY <2>1 DEF IInv, Agree, NodesDiffer, KeysDiffer, UsedBefore
  <2>3. \A j \in Keys : Contain(j)' <=> Contain(j)
    BY <2>1 DEF Contain
  <2>. QED
    BY <2>1, <2>2, <2>3 DEF IInv, Abstract!abstractVars
<1>2. ASSUME NEW k \in Keys, GetVal(k) PROVE IInv' /\ Abstract!Next
    BY <1>2, GetValStep DEF Abstract!Next
<1>3. ASSUME NEW k \in Keys, NEW v \in Values, Add(k, v) PROVE IInv' /\ Abstract!Next
    BY <1>3, AddStep DEF Abstract!Next
<1>4. CASE Clear
  <2>1. Agree(list, map)' /\ Abstract!Clear
    BY <1>4, ClearStep
  <2>2. UNCHANGED found
    BY <1>4 DEF Clear
  <2>. QED
    BY <2>1, <2>2 DEF IInv, Abstract!Next
<1>. QED
    BY <1>1, <1>2, <1>3, <1>4 DEF Next

(***************************************************************************)
(* The theorems.                                                           *)
(***************************************************************************)
\* The list and the table of every reachable cache describe one set of entries.
THEOREM Invariant == Spec => []IInv
<1>. QED
    BY InitRight, StepRight, PTL DEF Spec

\* LRU_Cache.h:93-96: list nodes, entries and values keep their kinds, and there are never
\* more nodes than the capacity and the one that a hit adds.
THEOREM TypeCorrect == Spec => []TypeOK
<1>1. IInv => TypeOK
    BY DEF IInv, Agree, TypeOK, Entry, Place
<1>. QED
    BY <1>1, Invariant, PTL

\* LRU_Cache.h:29-33, 44-46, 61-63: no call leaves an iterator at an erased node or at
\* another key's, or a node that no entry knows.
THEOREM IteratorsStayLive == Spec => []IteratorsLive
<1>1. IInv => IteratorsLive
    BY DEF IInv, Agree, IteratorsLive
<1>. QED
    BY <1>1, Invariant, PTL

\* LRU_Cache.h:2-3: what leaves a full cache is the key used longest ago, and what stays
\* answers with the value put last: LRUCache implements EvictingCache.
THEOREM DropsTheLongestUnused == Spec => Abstract!Spec
<1>. QED
    BY InitRight, StepRight, PTL DEF Spec, Abstract!Spec

(***************************************************************************)
(* The arrays and the chains of the queues, deques and stacks.             *)
(***************************************************************************)
Wrap(i, c) == IF i < c THEN i ELSE i - c

\* The arrays of c places.
Array(c, V) == [0..(c - 1) -> V]

\* The n values of the ring d of c places, from place s on.
Along(d, c, s, n) == [i \in 1..n |-> d[Wrap(s + i - 1, c)]]

LEMMA ModIsWrap ==
    ASSUME NEW c \in Nat \ {0}, NEW i \in 0..(2 * c - 1)
    PROVE  i % c = Wrap(i, c)
<1> DEFINE q == i \div c
           r == i % c
<1>1. q \in Int /\ r \in 0..(c - 1) /\ i = c * q + r
    OBVIOUS
<1> HIDE DEF q, r
<1>2. CASE q = 0
    BY <1>1, <1>2 DEF Wrap, r
<1>3. CASE q = 1
    BY <1>1, <1>3 DEF Wrap, r
<1>4. CASE q >= 2
  <2>1. \A k \in Int : k >= 2 => c * k >= 2 * c
    OBVIOUS
  <2>2. c * q >= 2 * c
    BY <1>1, <1>4, <2>1
  <2>. QED
    BY <1>1, <2>2
<1>5. CASE q <= -1
  <2>1. \A k \in Int : k <= -1 => c * k <= -c
    OBVIOUS
  <2>2. c * q <= -c
    BY <1>1, <1>5, <2>1
  <2>. QED
    BY <1>1, <2>2
<1>. QED
    BY <1>1, <1>2, <1>3, <1>4, <1>5

(***************************************************************************)
(* A sequence that differs from another at one end.                        *)
(***************************************************************************)
LEMMA SeqIs ==
    ASSUME NEW V, NEW n \in Nat, NEW s \in [1..n -> V]
    PROVE  s \in Seq(V) /\ Len(s) = n /\ DOMAIN s = 1..n
OBVIOUS

LEMMA SameSeq ==
    ASSUME NEW V, NEW n \in Nat, NEW s \in Seq(V), Len(s) = n, NEW t \in [1..n -> V],
           \A i \in 1..n : t[i] = s[i]
    PROVE  t = s
<1>1. t \in Seq(V) /\ Len(t) = n
    BY SeqIs
<1>. QED
    BY <1>1, SeqEqual

\* What the four calls of Sequence make of its items, under names that no prover expands.
WithLast(s, v) == Append(s, v)
WithFirst(v, s) == <<v>> \o s
WithoutFirst(s) == Tail(s)
WithoutLast(s) == SubSeq(s, 1, Len(s) - 1)

LEMMA IsAppend ==
    ASSUME NEW V, NEW n \in Nat, NEW s \in Seq(V), Len(s) = n, NEW v \in V,
           NEW t \in [1..(n + 1) -> V], \A i \in 1..n : t[i] = s[i], t[n + 1] = v
    PROVE  t = WithLast(s, v)
<1> DEFINE u == Append(s, v)
<1>1. /\ u \in Seq(V) /\ Len(u) = n + 1 /\ u[n + 1] = v
      /\ \A i \in 1..n : u[i] = s[i]
    OBVIOUS
<1>2. \A i \in 1..(n + 1) : i \in 1..n \/ i = n + 1
    OBVIOUS
<1> HIDE DEF u
<1>3. n + 1 \in Nat /\ \A i \in 1..(n + 1) : t[i] = u[i]
    BY <1>1, <1>2
<1>4. t = u
    BY <1>1, <1>3, SameSeq
<1>. QED
    BY <1>4 DEF u, WithLast

LEMMA IsPrepend ==
    ASSUME NEW V, NEW n \in Nat, NEW s \in Seq(V), Len(s) = n, NEW v \in V,
           NEW t \in [1..(n + 1) -> V], \A i \in 1..n : t[i + 1] = s[i], t[1] = v
    PROVE  t = WithFirst(v, s)
<1> DEFINE u == <<v>> \o s
<1>1. <<v>> \in Seq(V) /\ Len(<<v>>) = 1 /\ <<v>>[1] = v
    OBVIOUS
<1>2. /\ u \in Seq(V) /\ Len(u) = n + 1
      /\ \A i \in 1..(n + 1) : u[i] = IF i <= 1 THEN <<v>>[i] ELSE s[i - 1]
    BY <1>1, ConcatProperties
<1>3. \A i \in 1..(n + 1) : i = 1 \/ (i > 1 /\ i - 1 \in 1..n /\ (i - 1) + 1 = i)
    OBVIOUS
<1> HIDE DEF u
<1>4. n + 1 \in Nat /\ \A i \in 1..(n + 1) : t[i] = u[i]
    BY <1>1, <1>2, <1>3
<1>5. t = u
    BY <1>2, <1>4, SameSeq
<1>. QED
    BY <1>5 DEF u, WithFirst

LEMMA IsTail ==
    ASSUME NEW V, NEW n \in Nat, NEW s \in Seq(V), Len(s) = n + 1,
           NEW t \in [1..n -> V], \A i \in 1..n : t[i] = s[i + 1]
    PROVE  t = WithoutFirst(s)
<1> DEFINE u == Tail(s)
<1>1. s # <<>>
    OBVIOUS
<1>2. u \in Seq(V) /\ Len(u) = Len(s) - 1 /\ \A i \in 1..Len(u) : u[i] = s[i + 1]
    BY <1>1, HeadTailProperties
<1> HIDE DEF u
<1>3. Len(u) = n /\ \A i \in 1..n : t[i] = u[i]
    BY <1>2
<1>4. t = u
    BY <1>2, <1>3, SameSeq
<1>. QED
    BY <1>4 DEF u, WithoutFirst

LEMMA IsFront ==
    ASSUME NEW V, NEW n \in Nat, NEW s \in Seq(V), Len(s) = n + 1,
           NEW t \in [1..n -> V], \A i \in 1..n : t[i] = s[i]
    PROVE  t = WithoutLast(s)
<1> DEFINE u == SubSeq(s, 1, n)
<1>1. \A i \in 1..n : s[i] \in V
    OBVIOUS
<1>2. /\ u \in Seq(V) /\ Len(u) = IF 1 <= n THEN n - 1 + 1 ELSE 0
      /\ \A i \in 1..(n - 1 + 1) : u[i] = s[1 + i - 1]
    BY <1>1, SubSeqProperties
<1>3. WithoutLast(s) = u
  <2>1. Len(s) - 1 = n
    OBVIOUS
  <2>. QED
    BY <2>1 DEF WithoutLast
<1> HIDE DEF u
<1>4. Len(u) = n /\ \A i \in 1..n : t[i] = u[i]
    BY <1>2
<1>5. t = u
    BY <1>2, <1>4, SameSeq
<1>. QED
    BY <1>3, <1>5

(***************************************************************************)
(* Rings.                                                                  *)
(***************************************************************************)
LEMMA AlongIs ==
    ASSUME NEW V, NEW c \in Nat \ {0}, NEW d \in Array(c, V), NEW s \in 0..(c - 1),
           NEW n \in 0..c
    PROVE  /\ Along(d, c, s, n) \in [1..n -> V]
           /\ Along(d, c, s, n) \in Seq(V)
           /\ Len(Along(d, c, s, n)) = n
           /\ Along(d, c, s, n) = <<>> <=> n = 0
<1>1. \A i \in 1..n : Wrap(s + i - 1, c) \in 0..(c - 1)
    BY DEF Wrap
<1>2. Along(d, c, s, n) \in [1..n -> V]
    BY <1>1 DEF Along, Array
<1>3. Along(d, c, s, n) \in Seq(V) /\ Len(Along(d, c, s, n)) = n
    BY <1>2, SeqIs
<1>. QED
    BY <1>2, <1>3, EmptySeq

\* The array e is d with v in place p.
Becomes(d, e, p, v) == e[p] = v /\ \A i \in DOMAIN d : i # p => e[i] = d[i]

LEMMA PushedBehind ==
    ASSUME NEW V, NEW c \in Nat \ {0}, NEW d \in Array(c, V), NEW s \in 0..(c - 1),
           NEW n \in 0..(c - 1), NEW v \in V,
           NEW e \in Array(c, V), Becomes(d, e, Wrap(s + n, c), v)
    PROVE  Along(e, c, s, n + 1) = WithLast(Along(d, c, s, n), v)
<1> DEFINE old == Along(d, c, s, n)
           new == Along(e, c, s, n + 1)
<1>1. n \in Nat /\ n \in 0..c /\ n + 1 \in 0..c
    OBVIOUS
<1>2. new \in [1..(n + 1) -> V]
    BY <1>1, AlongIs
<1>3. old \in Seq(V) /\ Len(old) = n
    BY <1>1, AlongIs
<1>4. new[n + 1] = v
    BY <1>1 DEF Along, Becomes
<1>5. ASSUME NEW i \in 1..n
      PROVE  new[i] = old[i]
  <2>1. Wrap(s + i - 1, c) \in 0..(c - 1) /\ Wrap(s + i - 1, c) # Wrap(s + n, c)
    BY DEF Wrap
  <2>. QED
    BY <1>1, <2>1 DEF Along, Becomes, Array
<1> HIDE DEF old, new
<1>6. new = WithLast(old, v)
    BY <1>1, <1>2, <1>3, <1>4, <1>5, IsAppend
<1>. QED
    BY <1>6 DEF old, new

LEMMA PushedBefore ==
    ASSUME NEW V, NEW c \in Nat \ {0}, NEW d \in Array(c, V), NEW s \in 0..(c - 1),
           NEW n \in 0..(c - 1), NEW v \in V,
           NEW p \in 0..(c - 1), Wrap(p + 1, c) = s,
           NEW e \in Array(c, V), Becomes(d, e, p, v)
    PROVE  Along(e, c, p, n + 1) = WithFirst(v, Along(d, c, s, n))
<1> DEFINE old == Along(d, c, s, n)
           new == Along(e, c, p, n + 1)
<1>1. n \in Nat /\ n \in 0..c /\ n + 1 \in 0..c
    OBVIOUS
<1>2. new \in [1..(n + 1) -> V]
    BY <1>1, AlongIs
<1>3. old \in Seq(V) /\ Len(old) = n
    BY <1>1, AlongIs
<1>4. new[1] = v
    BY <1>1 DEF Along, Becomes, Wrap
<1>5. ASSUME NEW i \in 1..n
      PROVE  new[i + 1] = old[i]
  <2>1. /\ Wrap(p + (i + 1) - 1, c) = Wrap(s + i - 1, c)
        /\ Wrap(s + i - 1, c) \in 0..(c - 1) /\ Wrap(s + i - 1, c) # p
    BY DEF Wrap
  <2>. QED
    BY <1>1, <2>1 DEF Along, Becomes, Array
<1> HIDE DEF old, new
<1>6. new = WithFirst(v, old)
  <2>1. n \in Nat
    OBVIOUS
  <2>. QED
    BY <2>1, <1>2, <1>3, <1>4, <1>5, IsPrepend
<1>. QED
    BY <1>6 DEF old, new

LEMMA PoppedFirst ==
    ASSUME NEW V, NEW c \in Nat \ {0}, NEW d \in Array(c, V), NEW s \in 0..(c - 1),
           NEW n \in 1..c, NEW v \in V,
           NEW e \in Array(c, V), Becomes(d, e, s, v)
    PROVE  Along(e, c, Wrap(s + 1, c), n - 1) = WithoutFirst(Along(d, c, s, n))
<1> DEFINE t == Wrap(s + 1, c)
           m == n - 1
           old == Along(d, c, s, n)
           new == Along(e, c, t, m)
<1>1. m \in Nat /\ m \in 0..c /\ n = m + 1 /\ n \in 0..c /\ t \in 0..(c - 1)
    BY DEF Wrap
<1>2. ASSUME NEW i \in 1..m
      PROVE  new[i] = old[i + 1]
  <2>1. /\ Wrap(t + i - 1, c) = Wrap(s + (i + 1) - 1, c)
        /\ Wrap(t + i - 1, c) \in 0..(c - 1) /\ Wrap(t + i - 1, c) # s
    BY DEF Wrap
  <2>2. i \in 1..(n - 1) /\ i + 1 \in 1..n
    OBVIOUS
  <2> HIDE DEF t
  <2>. QED
    BY <2>1, <2>2 DEF Along, Becomes, Array
<1> HIDE DEF t, m
<1>3. new \in [1..m -> V]
    BY <1>1, AlongIs
<1>4. old \in Seq(V) /\ Len(old) = m + 1
    BY <1>1, AlongIs
<1> HIDE DEF old, new
<1>5. new = WithoutFirst(old)
    BY <1>1, <1>2, <1>3, <1>4, IsTail
<1>. QED
    BY <1>5 DEF old, new, t, m

LEMMA PoppedLast ==
    ASSUME NEW V, NEW c \in Nat \ {0}, NEW d \in Array(c, V), NEW s \in 0..(c - 1),
           NEW n \in 1..c, NEW v \in V,
           NEW e \in Array(c, V), Becomes(d, e, Wrap(s + n - 1, c), v)
    PROVE  Along(e, c, s, n - 1) = WithoutLast(Along(d, c, s, n))
<1> DEFINE m == n - 1
           old == Along(d, c, s, n)
           new == Along(e, c, s, m)
<1>1. m \in Nat /\ m \in 0..c /\ n = m + 1 /\ n \in 0..c
    OBVIOUS
<1>2. ASSUME NEW i \in 1..m
      PROVE  new[i] = old[i]
  <2>1. Wrap(s + i - 1, c) \in 0..(c - 1) /\ Wrap(s + i - 1, c) # Wrap(s + n - 1, c)
    BY DEF Wrap
  <2>2. i \in 1..(n - 1) /\ i \in 1..n
    OBVIOUS
  <2>. QED
    BY <2>1, <2>2 DEF Along, Becomes, Array
<1> HIDE DEF m
<1>3. new \in [1..m -> V]
    BY <1>1, AlongIs
<1>4. old \in Seq(V) /\ Len(old) = m + 1
    BY <1>1, AlongIs
<1> HIDE DEF old, new
<1>5. new = WithoutLast(old)
    BY <1>1, <1>2, <1>3, <1>4, IsFront
<1>. QED
    BY <1>5 DEF old, new, m

\* A larger array with the values of the ring from its start on.
Copied(d, c, s, n, length) ==
    [i \in 0..(length - 1) |-> IF i < n THEN d[Wrap(s + i, c)] ELSE EMPTY]

LEMMA CopiedIs ==
    ASSUME NEW V, EMPTY \in V, NEW c \in Nat \ {0}, NEW d \in Array(c, V),
           NEW s \in 0..(c - 1), NEW n \in 0..c, NEW length \in Nat, n < length
    PROVE  /\ Copied(d, c, s, n, length) \in Array(length, V)
           /\ Along(Copied(d, c, s, n, length), length, 0, n) = Along(d, c, s, n)
<1> DEFINE e == Copied(d, c, s, n, length)
<1>1. ASSUME NEW i \in 0..(length - 1)
      PROVE  (IF i < n THEN d[Wrap(s + i, c)] ELSE EMPTY) \in V
  <2>1. i < n => Wrap(s + i, c) \in 0..(c - 1)
    BY DEF Wrap
  <2>. QED
    BY <2>1 DEF Array
<1>2. e \in Array(length, V)
    BY <1>1 DEF Copied, Array
<1>3. ASSUME NEW i \in 1..n
      PROVE  e[Wrap(0 + i - 1, length)] = d[Wrap(s + i - 1, c)]
  <2>1. Wrap(0 + i - 1, length) = i - 1 /\ i - 1 \in 0..(length - 1) /\ i - 1 < n
    BY DEF Wrap
  <2>2. e[i - 1] = d[Wrap(s + (i - 1), c)]
    BY <2>1 DEF Copied
  <2>3. s + (i - 1) = s + i - 1
    OBVIOUS
  <2>. QED
    BY <2>1, <2>2, <2>3
<1>4. Along(e, length, 0, n) = Along(d, c, s, n)
    BY <1>3 DEF Along
<1>. QED
    BY <1>2, <1>4

\* What a place of an array holds.
Held == Pushed \cup {EMPTY}

LengthOf(c) == IF c > ResizeLimit THEN c + ResizeLimit ELSE 2 * c

LEMMA Grows ==
    ASSUME NEW c \in Nat \ {0}
    PROVE  LengthOf(c) \in Nat \ {0} /\ LengthOf(c) > c
BY SizesAssumption DEF LengthOf

(***************************************************************************)
(* ArrayQueue.                                                             *)
(***************************************************************************)
QueueRingOK(r) ==
    r \in [data : Array(r.capacity, Held), front : 0..(r.capacity - 1),
           rear : 0..(r.capacity - 1), capacity : Nat \ {0}]

QueueSize(r) == IF r.rear >= r.front THEN r.rear - r.front ELSE r.rear - r.front + r.capacity

QueueItems(r) == Along(r.data, r.capacity, r.front, QueueSize(r))

LEMMA QueueSizeIs ==
    ASSUME NEW r, QueueRingOK(r)
    PROVE  /\ QueueSize(r) \in 0..(r.capacity - 1)
           /\ r.rear = Wrap(r.front + QueueSize(r), r.capacity)
           /\ QueueSize(r) = 0 <=> r.rear = r.front
           /\ QueueItems(r) \in Seq(Held) /\ Len(QueueItems(r)) = QueueSize(r)
           /\ QueueItems(r) = <<>> <=> QueueSize(r) = 0
<1>1. /\ r.data \in Array(r.capacity, Held) /\ r.front \in 0..(r.capacity - 1)
      /\ r.rear \in 0..(r.capacity - 1) /\ r.capacity \in Nat \ {0}
    BY DEF QueueRingOK
<1>2. /\ QueueSize(r) \in 0..(r.capacity - 1)
      /\ r.rear = Wrap(r.front + QueueSize(r), r.capacity)
      /\ QueueSize(r) = 0 <=> r.rear = r.front
    BY <1>1 DEF QueueSize, Wrap
<1>3. QueueSize(r) \in 0..r.capacity
    BY <1>1, <1>2
<1>4. /\ QueueItems(r) \in Seq(Held) /\ Len(QueueItems(r)) = QueueSize(r)
      /\ QueueItems(r) = <<>> <=> QueueSize(r) = 0
  <2> DEFINE c == r.capacity
             d == r.data
             f == r.front
             n == QueueSize(r)
  <2>1. n \in 0..c /\ c \in Nat \ {0} /\ f \in 0..(c - 1) /\ d \in Array(c, Held)
    BY <1>1, <1>3
  <2> HIDE DEF c, d, f, n
  <2>2. Along(d, c, f, n) \in Seq(Held) /\ Len(Along(d, c, f, n)) = n
    BY <2>1, AlongIs
  <2>3. Along(d, c, f, n) = <<>> <=> n = 0
    BY <2>1, AlongIs
  <2>. QED
    BY <2>2, <2>3 DEF QueueItems, c, d, f, n
<1>. QED
    BY <1>2, <1>4

LEMMA QueueRingIs ==
    QueueRingOK(queueRing) => /\ Queues!size = QueueSize(queueRing)
                              /\ Queues!RingItems = QueueItems(queueRing)
                              /\ Queues!full <=> QueueSize(queueRing) = queueRing.capacity - 1
<1> SUFFICES ASSUME QueueRingOK(queueRing)
             PROVE  /\ Queues!size = QueueSize(queueRing)
                    /\ Queues!RingItems = QueueItems(queueRing)
                    /\ Queues!full <=> QueueSize(queueRing) = queueRing.capacity - 1
    OBVIOUS
<1> DEFINE c == queueRing.capacity
           f == queueRing.front
           e == queueRing.rear
           n == QueueSize(queueRing)
<1>1. c \in Nat \ {0} /\ f \in 0..(c - 1) /\ e \in 0..(c - 1)
    BY DEF QueueRingOK
<1>2. n \in 0..(c - 1)
    BY QueueSizeIs
<1>3. Queues!size = n
  <2>1. e - f + c \in 0..(2 * c - 1)
    BY <1>1
  <2>2. (e - f + c) % c = Wrap(e - f + c, c)
    BY <1>1, <2>1, ModIsWrap
  <2>3. Wrap(e - f + c, c) = n
    BY <1>1 DEF Wrap, QueueSize
  <2>. QED
    BY <2>2, <2>3 DEF Queues!size
<1>4. Queues!RingItems = QueueItems(queueRing)
  <2>1. ASSUME NEW i \in 1..n
        PROVE  (f + i - 1) % c = Wrap(f + i - 1, c)
    <3>1. f + i - 1 \in 0..(2 * c - 1)
      BY <1>1, <1>2
    <3>. QED
      BY <1>1, <3>1, ModIsWrap
  <2>. QED
    BY <1>3, <2>1 DEF Queues!RingItems, QueueItems, Along
<1>5. Queues!full <=> n = c - 1
  <2>1. e + 1 \in 0..(2 * c - 1)
    BY <1>1
  <2>2. (e + 1) % c = Wrap(e + 1, c)
    BY <1>1, <2>1, ModIsWrap
  <2>3. Wrap(e + 1, c) = f <=> n = c - 1
    BY <1>1 DEF Wrap, QueueSize
  <2>. QED
    BY <2>2, <2>3 DEF Queues!full
<1>. QED
    BY <1>3, <1>4, <1>5

LEMMA QueueResizes ==
    QueueRingOK(queueRing) =>
        LET g == Queues!Resized
        IN  /\ QueueRingOK(g) /\ QueueItems(g) = QueueItems(queueRing)
            /\ QueueSize(g) = QueueSize(queueRing)
            /\ QueueSize(g) < g.capacity - 1
<1> SUFFICES ASSUME QueueRingOK(queueRing)
             PROVE  LET g == Queues!Resized
                    IN  /\ QueueRingOK(g) /\ QueueItems(g) = QueueItems(queueRing)
                        /\ QueueSize(g) = QueueSize(queueRing)
                        /\ QueueSize(g) < g.capacity - 1
    OBVIOUS
<1> DEFINE c == queueRing.capacity
           f == queueRing.front
           d == queueRing.data
           n == QueueSize(queueRing)
           length == LengthOf(c)
           copy == Copied(d, c, f, n, length)
           g == Queues!Resized
<1>1. c \in Nat \ {0} /\ f \in 0..(c - 1) /\ d \in Array(c, Held)
    BY DEF QueueRingOK
<1>2. n \in 0..(c - 1) /\ n \in 0..c
    BY <1>1, QueueSizeIs
<1>3. length \in Nat \ {0} /\ length > c
    BY <1>1, Grows
<1>4. n < length /\ EMPTY \in Held
    BY <1>1, <1>2, <1>3 DEF Held
<1>5. copy \in Array(length, Held) /\ Along(copy, length, 0, n) = Along(d, c, f, n)
  <2> HIDE DEF c, f, d, n, length
  <2>. QED
    BY <1>1, <1>2, <1>3, <1>4, CopiedIs
<1>6. g = [data |-> copy, front |-> 0, rear |-> n, capacity |-> length]
  <2>1. ASSUME NEW i \in 0..(length - 1), i < n
        PROVE  (i + f) % c = Wrap(f + i, c)
    <3>1. i + f \in 0..(2 * c - 1) /\ i + f = f + i
      BY <1>1, <1>2, <1>3, <2>1
    <3>. QED
      BY <1>1, <3>1, ModIsWrap
  <2>2. [i \in 0..(length - 1) |-> IF i < n THEN d[(i + f) % c] ELSE EMPTY] = copy
    BY <2>1 DEF Copied
  <2>3. Queues!size = n
    BY QueueRingIs
  <2>4. g = [data |-> [i \in 0..(length - 1) |-> IF i < n THEN d[(i + f) % c] ELSE EMPTY],
             front |-> 0, rear |-> n, capacity |-> length]
    BY <2>3 DEF Queues!Resized, LengthOf
  <2>. QED
    BY <2>2, <2>4
<1> HIDE DEF copy, g, length
<1>7. g.data = copy /\ g.front = 0 /\ g.rear = n /\ g.capacity = length
    BY <1>6
<1>8. QueueRingOK(g)
  <2>1. n \in 0..(length - 1) /\ 0 \in 0..(length - 1)
    BY <1>1, <1>2, <1>3
  <2>. QED
    BY <1>3, <1>5, <1>6, <1>7, <2>1 DEF QueueRingOK
<1>9. QueueSize(g) = n
    BY <1>2, <1>7 DEF QueueSize
<1>10. QueueItems(g) = QueueItems(queueRing)
    BY <1>5, <1>7, <1>9 DEF QueueItems
<1>11. QueueSize(g) < g.capacity - 1
    BY <1>1, <1>2, <1>3, <1>7, <1>9
<1>. QED
    BY <1>8, <1>9, <1>10, <1>11 DEF g

QueuePushed(r, v) == [r EXCEPT !.data[r.rear] = v, !.rear = (@ + 1) % r.capacity]
QueuePopped(r) == [r EXCEPT !.data[r.front] = EMPTY, !.front = (@ + 1) % r.capacity]

LEMMA QueuePushes ==
    ASSUME NEW r, QueueRingOK(r), QueueSize(r) < r.capacity - 1, NEW v \in Pushed
    PROVE  /\ QueueRingOK(QueuePushed(r, v))
           /\ QueueItems(QueuePushed(r, v)) = WithLast(QueueItems(r), v)
<1> DEFINE q == QueuePushed(r, v)
           c == r.capacity
           n == QueueSize(r)
<1>1. /\ c \in Nat \ {0} /\ r.front \in 0..(c - 1) /\ r.rear \in 0..(c - 1)
      /\ r.data \in Array(c, Held) /\ v \in Held
    BY DEF QueueRingOK, Held
<1>2. n \in 0..(c - 1) /\ r.rear = Wrap(r.front + n, c) /\ n + 1 \in 0..(c - 1)
    BY <1>1, QueueSizeIs
<1>3. (r.rear + 1) % c = Wrap(r.rear + 1, c)
  <2>1. r.rear + 1 \in 0..(2 * c - 1)
    BY <1>1
  <2>. QED
    BY <1>1, <2>1, ModIsWrap
<1>4. q = [r EXCEPT !.data[r.rear] = v, !.rear = Wrap(@ + 1, c)]
    BY <1>3 DEF QueuePushed
<1> HIDE DEF q
<1>5. /\ q.data = [r.data EXCEPT ![r.rear] = v] /\ q.front = r.front
      /\ q.rear = Wrap(r.rear + 1, c) /\ q.capacity = c
      /\ q = [data |-> q.data, front |-> q.front, rear |-> q.rear, capacity |-> q.capacity]
    BY <1>4 DEF QueueRingOK
<1>6. Wrap(r.rear + 1, c) \in 0..(c - 1)
    BY <1>1 DEF Wrap
<1>7. q.data \in Array(c, Held) /\ Becomes(r.data, q.data, r.rear, v)
    BY <1>1, <1>5 DEF Array, Becomes
<1>8. QueueRingOK(q)
    BY <1>1, <1>5, <1>6, <1>7 DEF QueueRingOK
<1>9. QueueSize(q) = n + 1
    BY <1>1, <1>2, <1>5 DEF QueueSize, Wrap
<1>10. Along(q.data, c, r.front, n + 1) = WithLast(Along(r.data, c, r.front, n), v)
  <2>1. Becomes(r.data, q.data, Wrap(r.front + n, c), v)
    BY <1>2, <1>7
  <2>2. n \in 0..(c - 1)
    BY <1>2
  <2> HIDE DEF c, n, q
  <2>. QED
    BY <1>1, <1>7, <2>1, <2>2, PushedBehind
<1>11. QueueItems(q) = WithLast(QueueItems(r), v)
    BY <1>5, <1>9, <1>10 DEF QueueItems
<1>. QED
    BY <1>8, <1>11 DEF q

LEMMA QueuePops ==
    ASSUME NEW r, QueueRingOK(r), QueueSize(r) # 0
    PROVE  /\ QueueRingOK(QueuePopped(r))
           /\ QueueItems(QueuePopped(r)) = WithoutFirst(QueueItems(r))
<1> DEFINE q == QueuePopped(r)
           c == r.capacity
           n == QueueSize(r)
<1>1. /\ c \in Nat \ {0} /\ r.front \in 0..(c - 1) /\ r.rear \in 0..(c - 1)
      /\ r.data \in Array(c, Held) /\ EMPTY \in Held
    BY DEF QueueRingOK, Held
<1>2. n \in 1..c
    BY <1>1, QueueSizeIs
<1>3. (r.front + 1) % c = Wrap(r.front + 1, c)
  <2>1. r.front + 1 \in 0..(2 * c - 1)
    BY <1>1
  <2>. QED
    BY <1>1, <2>1, ModIsWrap
<1>4. q = [r EXCEPT !.data[r.front] = EMPTY, !.front = Wrap(@ + 1, c)]
    BY <1>3 DEF QueuePopped
<1> HIDE DEF q
<1>5. /\ q.data = [r.data EXCEPT ![r.front] = EMPTY] /\ q.rear = r.rear
      /\ q.front = Wrap(r.front + 1, c) /\ q.capacity = c
      /\ q = [data |-> q.data, front |-> q.front, rear |-> q.rear, capacity |-> q.capacity]
    BY <1>4 DEF QueueRingOK
<1>6. Wrap(r.front + 1, c) \in 0..(c - 1)
    BY <1>1 DEF Wrap
<1>7. q.data \in Array(c, Held) /\ Becomes(r.data, q.data, r.front, EMPTY)
    BY <1>1, <1>5 DEF Array, Becomes
<1>8. QueueRingOK(q)
    BY <1>1, <1>5, <1>6, <1>7 DEF QueueRingOK
<1>9. QueueSize(q) = n - 1
    BY <1>1, <1>2, <1>5 DEF QueueSize, Wrap
<1>10. Along(q.data, c, Wrap(r.front + 1, c), n - 1) = WithoutFirst(Along(r.data, c, r.front, n))
  <2> HIDE DEF c, n, q
  <2>. QED
    BY <1>1, <1>2, <1>7, PoppedFirst
<1>11. QueueItems(q) = WithoutFirst(QueueItems(r))
    BY <1>5, <1>9, <1>10 DEF QueueItems
<1>. QED
    BY <1>8, <1>11 DEF q

Linked == INSTANCE LinkedNodes WITH NULL <- NOWHERE

(***************************************************************************)
(* Induction over the naturals, for sets.  Were n the least number that is *)
(* not in T, every smaller one outside T would have a predecessor outside  *)
(* T: too many of them for the places below n.                             *)
(***************************************************************************)
LEMMA SetInduction ==
    ASSUME NEW T \in SUBSET Nat, 0 \in T, \A n \in T : n + 1 \in T
    PROVE  T = Nat
<1> SUFFICES ASSUME NEW n \in Nat, n \notin T
             PROVE  FALSE
    OBVIOUS
<1> DEFINE A == {i \in 0..n : i \notin T}
           B == A \ {n}
           down == [i \in A |-> i - 1]
<1>1. IsFiniteSet(A) /\ IsFiniteSet(B) /\ Cardinality(B) < Cardinality(A)
  <2>1. IsFiniteSet(0..n)
    BY FS_Interval
  <2>2. IsFiniteSet(A)
    BY <2>1, FS_Subset
  <2>3. n \in A
    OBVIOUS
  <2> HIDE DEF A
  <2>4. IsFiniteSet(B) /\ Cardinality(B) = Cardinality(A) - 1
    BY <2>2, <2>3, FS_RemoveElement
  <2>5. Cardinality(A) \in Nat
    BY <2>2, FS_CardinalityType
  <2>. QED
    BY <2>2, <2>4, <2>5
<1>2. down \in [A -> B]
  <2> SUFFICES ASSUME NEW i \in A
               PROVE  i - 1 \in B
    OBVIOUS
  <2>1. i # 0
    OBVIOUS
  <2>2. i - 1 \notin T
    BY <2>1
  <2>. QED
    BY <2>1, <2>2
<1>3. \E x, y \in A : x # y /\ down[x] = down[y]
  <2> HIDE DEF A, B, down
  <2>. QED
    BY <1>1, <1>2, FS_PigeonHole
<1>. QED
    BY <1>3

(***************************************************************************)
(* Chains of nodes.                                                        *)
(***************************************************************************)
\* path lists every node that is allocated, once.
Visits(nodes, path, n) ==
    /\ path \in [1..n -> DOMAIN nodes]
    /\ \A q \in DOMAIN nodes : \E i \in 1..n : path[i] = q
    /\ \A i, j \in 1..n : path[i] = path[j] => i = j

\* The links join them in this order.
Follows(nodes, path, n, link) ==
    \A i \in 1..n : i + 1 \in 1..n => nodes[path[i]][link] = path[i + 1]

Vals(nodes, path, n) == [i \in 1..n |-> nodes[path[i]].val]

\* The recursive walk of the model goes the way of the path.
LEMMA WalkFollows ==
    ASSUME NEW nodes, NEW p, NEW link, NEW n \in Nat, NEW path \in [1..n -> DOMAIN nodes],
           n # 0 => p = path[1], Follows(nodes, path, n, link)
    PROVE  Linked!Walk(nodes, p, link, n) = path
<1> DEFINE F(at) == [i \in 1..n |-> IF i = 1 THEN p
                        ELSE IF Linked!IsNode(nodes, at[i - 1]) THEN nodes[at[i - 1]][link]
                        ELSE NOWHERE]
           w == CHOOSE at : at = F(at)
<1>1. path = F(path)
  <2>1. ASSUME NEW i \in 1..n
        PROVE  path[i] = F(path)[i]
    <3>1. CASE i = 1
      BY <3>1
    <3>2. CASE i # 1
      <4>1. i - 1 \in 1..n /\ (i - 1) + 1 = i
        BY <3>2
      <4>. QED
        BY <3>2, <4>1 DEF Follows, Linked!IsNode
    <3>. QED
      BY <3>1, <3>2
  <2>. QED
    BY <2>1
<1>2. w = F(w)
    BY <1>1, Zenon
<1>3. Linked!Walk(nodes, p, link, n) = w
    BY Zenon DEF Linked!Walk
<1> DEFINE T == {i \in Nat : i \in 1..n => w[i] = path[i]}
<1> HIDE DEF w
<1>4. 0 \in T
    OBVIOUS
<1>5. \A i \in T : i + 1 \in T
  <2> SUFFICES ASSUME NEW i \in T, i + 1 \in 1..n
               PROVE  w[i + 1] = path[i + 1]
    OBVIOUS
  <2>1. CASE i = 0
    BY <1>1, <1>2, <2>1
  <2>2. CASE i # 0
    <3>1. w[i + 1] = IF Linked!IsNode(nodes, w[i]) THEN nodes[w[i]][link] ELSE NOWHERE
      BY <1>2, <2>2
    <3>2. w[i] = path[i] /\ i \in 1..n
      BY <2>2
    <3>. QED
      BY <3>1, <3>2 DEF Follows, Linked!IsNode
  <2>. QED
    BY <2>1, <2>2
<1>6. T = Nat
    BY <1>4, <1>5, SetInduction
<1>7. \A i \in 1..n : w[i] = path[i]
    BY <1>6
<1>8. w = [i \in 1..n |-> w[i]]
    BY <1>2
<1>. QED
    BY <1>3, <1>7, <1>8

LEMMA AlongPath ==
    ASSUME NEW nodes, NEW p, NEW link, NEW n \in Nat, NEW path \in [1..n -> DOMAIN nodes],
           n # 0 => p = path[1], Follows(nodes, path, n, link)
    PROVE  Linked!ValuesAlong(nodes, p, link, n) = Vals(nodes, path, n)
<1>1. Linked!Walk(nodes, p, link, n) = path
    BY WalkFollows
<1>. QED
    BY <1>1 DEF Linked!ValuesAlong, Linked!IsNode, Vals

LEMMA NothingVisited ==
    ASSUME NEW nodes, NEW path, Visits(nodes, path, 0)
    PROVE  DOMAIN nodes = {}
<1>1. \A i \in 1..0 : FALSE
    OBVIOUS
<1>2. \A q \in DOMAIN nodes : \E i \in 1..0 : path[i] = q
    BY DEF Visits
<1>. QED
    BY <1>1, <1>2

LEMMA HowMany ==
    ASSUME NEW nodes, NEW n \in Nat, NEW path, Visits(nodes, path, n)
    PROVE  IsFiniteSet(DOMAIN nodes) /\ Cardinality(DOMAIN nodes) = n
<1>1. path \in Bijection(1..n, DOMAIN nodes)
    BY DEF Visits, Bijection, Injection, Surjection, IsInjective
<1>2. ExistsBijection(1..n, DOMAIN nodes)
    BY <1>1 DEF ExistsBijection
<1>3. IsFiniteSet(1..n) /\ Cardinality(1..n) = n
    BY FS_Interval
<1>. QED
    BY <1>2, <1>3, FS_Bijection

LEMMA LinkedCardinality ==
    ASSUME NEW S
    PROVE  Linked!Cardinality(S) = Cardinality(S)
BY DEF Linked!Cardinality, Cardinality

LEMMA FreshNode ==
    ASSUME NEW nodes, IsFiniteSet(DOMAIN nodes)
    PROVE  Linked!New(nodes) \in Nat /\ Linked!New(nodes) \notin DOMAIN nodes
<1> DEFINE m == Cardinality(DOMAIN nodes)
           P == 1..(m + 1)
<1>1. m \in Nat
    BY FS_CardinalityType
<1>2. IsFiniteSet(P) /\ Cardinality(P) = m + 1
  <2> HIDE DEF m
  <2>1. IsFiniteSet(1..(m + 1)) /\ Cardinality(1..(m + 1)) = IF 1 > m + 1 THEN 0 ELSE m + 1 - 1 + 1
    BY <1>1, FS_Interval
  <2>. QED
    BY <1>1, <2>1
<1>3. ~(P \subseteq DOMAIN nodes)
  <2> SUFFICES ASSUME P \subseteq DOMAIN nodes
               PROVE  FALSE
    OBVIOUS
  <2> HIDE DEF P
  <2>1. Cardinality(P) <= m
    BY FS_Subset
  <2> HIDE DEF m
  <2>. QED
    BY <1>1, <1>2, <2>1
<1>4. \E p \in P : ~Linked!IsNode(nodes, p)
    BY <1>3 DEF Linked!IsNode
<1>5. Linked!New(nodes) = CHOOSE p \in P : ~Linked!IsNode(nodes, p)
    BY LinkedCardinality, Zenon DEF Linked!New
<1>6. Linked!New(nodes) \in P /\ ~Linked!IsNode(nodes, Linked!New(nodes))
  <2> HIDE DEF P
  <2>. QED
    BY <1>4, <1>5, Zenon
<1>. QED
    BY <1>1, <1>6 DEF Linked!IsNode

(***************************************************************************)
(* A chain and the chain with one node more or less.                       *)
(***************************************************************************)
\* Nodes that more holds beside those of less, with the values they have there.
Extends(more, less, node, v) ==
    /\ DOMAIN more = DOMAIN less \cup {node} /\ node \notin DOMAIN less
    /\ more[node].val = v
    /\ \A q \in DOMAIN less : more[q].val = less[q].val

HoldsValues(nodes, n, path) == \A i \in 1..n : nodes[path[i]].val \in Pushed

\* The path that goes on to node, and the one that starts there.
Further(path, n, node) == [i \in 1..(n + 1) |-> IF i <= n THEN path[i] ELSE node]
Earlier(path, n, node) == [i \in 1..(n + 1) |-> IF i = 1 THEN node ELSE path[i - 1]]
Shorter(path, n) == [i \in 1..(n - 1) |-> path[i]]
Later(path, n) == [i \in 1..(n - 1) |-> path[i + 1]]

LEMMA ValsAre ==
    ASSUME NEW nodes, NEW n \in Nat, NEW path, HoldsValues(nodes, n, path)
    PROVE  /\ Vals(nodes, path, n) \in [1..n -> Pushed]
           /\ Vals(nodes, path, n) \in Seq(Pushed)
           /\ Len(Vals(nodes, path, n)) = n
           /\ Vals(nodes, path, n) = <<>> <=> n = 0
<1>1. Vals(nodes, path, n) \in [1..n -> Pushed]
    BY DEF Vals, HoldsValues
<1>2. Vals(nodes, path, n) \in Seq(Pushed) /\ Len(Vals(nodes, path, n)) = n
    BY <1>1, SeqIs
<1>. QED
    BY <1>1, <1>2, EmptySeq

LEMMA AddedLast ==
    ASSUME NEW less, NEW more, NEW n \in Nat, NEW path, NEW node, NEW v \in Pushed,
           Visits(less, path, n), HoldsValues(less, n, path), Extends(more, less, node, v)
    PROVE  /\ Visits(more, Further(path, n, node), n + 1)
           /\ HoldsValues(more, n + 1, Further(path, n, node))
           /\ Vals(more, Further(path, n, node), n + 1) = WithLast(Vals(less, path, n), v)
<1> DEFINE longer == Further(path, n, node)
           old == Vals(less, path, n)
           new == Vals(more, longer, n + 1)
<1>1. /\ longer[n + 1] = node
      /\ \A i \in 1..n : longer[i] = path[i] /\ path[i] \in DOMAIN less
      /\ \A i \in 1..(n + 1) : i \in 1..n \/ i = n + 1
      /\ \A i \in 1..n : i \in 1..(n + 1) /\ i # n + 1
      /\ n + 1 \in 1..(n + 1) /\ n + 1 \in Nat
    BY DEF Further, Visits
<1>2. longer \in [1..(n + 1) -> DOMAIN more]
  <2>1. \A i \in 1..(n + 1) : longer[i] \in DOMAIN more
    BY <1>1 DEF Extends
  <2>. QED
    BY <2>1 DEF Further
<1> HIDE DEF longer
<1>3. Visits(more, longer, n + 1)
  <2>1. ASSUME NEW q \in DOMAIN more
        PROVE  \E i \in 1..(n + 1) : longer[i] = q
    BY <1>1 DEF Extends, Visits
  <2>2. ASSUME NEW i \in 1..(n + 1), NEW j \in 1..(n + 1), longer[i] = longer[j]
        PROVE  i = j
    BY <1>1, <2>2 DEF Extends, Visits
  <2>. QED
    BY <1>2, <2>1, <2>2 DEF Visits
<1>4. \A i \in 1..n : new[i] = old[i]
    BY <1>1 DEF Vals, Extends
<1>5. new[n + 1] = v
    BY <1>1 DEF Vals, Extends
<1>6. HoldsValues(more, n + 1, longer)
    BY <1>1 DEF HoldsValues, Extends
<1>7. new \in [1..(n + 1) -> Pushed]
    BY <1>1, <1>6, ValsAre
<1>8. old \in Seq(Pushed) /\ Len(old) = n
    BY ValsAre
<1> HIDE DEF old, new
<1>9. new = WithLast(old, v)
    BY <1>4, <1>5, <1>7, <1>8, IsAppend
<1>. QED
    BY <1>3, <1>6, <1>9 DEF old, new, longer

LEMMA AddedFirst ==
    ASSUME NEW less, NEW more, NEW n \in Nat, NEW path, NEW node, NEW v \in Pushed,
           Visits(less, path, n), HoldsValues(less, n, path), Extends(more, less, node, v)
    PROVE  /\ Visits(more, Earlier(path, n, node), n + 1)
           /\ HoldsValues(more, n + 1, Earlier(path, n, node))
           /\ Vals(more, Earlier(path, n, node), n + 1) = WithFirst(v, Vals(less, path, n))
<1> DEFINE longer == Earlier(path, n, node)
           old == Vals(less, path, n)
           new == Vals(more, longer, n + 1)
<1>1. /\ longer[1] = node
      /\ \A i \in 1..n : longer[i + 1] = path[i] /\ path[i] \in DOMAIN less
      /\ \A i \in 1..(n + 1) : i = 1 \/ (i # 1 /\ i - 1 \in 1..n /\ i = (i - 1) + 1)
      /\ \A i \in 1..n : i + 1 \in 1..(n + 1)
      /\ 1 \in 1..(n + 1) /\ n + 1 \in Nat
    BY DEF Earlier, Visits
<1>2. longer \in [1..(n + 1) -> DOMAIN more]
  <2>1. \A i \in 1..(n + 1) : longer[i] \in DOMAIN more
    BY <1>1 DEF Extends
  <2>. QED
    BY <2>1 DEF Earlier
<1> HIDE DEF longer
<1>3. Visits(more, longer, n + 1)
  <2>1. ASSUME NEW q \in DOMAIN more
        PROVE  \E i \in 1..(n + 1) : longer[i] = q
    BY <1>1 DEF Extends, Visits
  <2>2. ASSUME NEW i \in 1..(n + 1), NEW j \in 1..(n + 1), longer[i] = longer[j]
        PROVE  i = j
    <3>1. ASSUME NEW k \in 1..(n + 1), k # 1
          PROVE  /\ k - 1 \in 1..n /\ longer[k] = path[k - 1]
                 /\ longer[k] \in DOMAIN less /\ longer[k] # node
      BY <1>1, <3>1 DEF Extends
    <3>2. i = 1 <=> j = 1
      BY <1>1, <2>2, <3>1
    <3>3. CASE i # 1
      <4>1. i - 1 = j - 1
        BY <2>2, <3>1, <3>2, <3>3 DEF Visits
      <4>. QED
        BY <4>1
    <3>. QED
      BY <3>2, <3>3
  <2>. QED
    BY <1>2, <2>1, <2>2 DEF Visits
<1>4. \A i \in 1..n : new[i + 1] = old[i]
    BY <1>1 DEF Vals, Extends
<1>5. new[1] = v
    BY <1>1 DEF Vals, Extends
<1>6. HoldsValues(more, n + 1, longer)
  <2> SUFFICES ASSUME NEW i \in 1..(n + 1)
               PROVE  more[longer[i]].val \in Pushed
    BY DEF HoldsValues
  <2>1. CASE i = 1
    BY <1>1, <2>1 DEF Extends
  <2>2. CASE i # 1
    <3>1. i - 1 \in 1..n /\ longer[i] = path[i - 1] /\ path[i - 1] \in DOMAIN less
      BY <1>1, <2>2
    <3>. QED
      BY <3>1 DEF HoldsValues, Extends
  <2>. QED
    BY <2>1, <2>2
<1>7. new \in [1..(n + 1) -> Pushed]
    BY <1>1, <1>6, ValsAre
<1>8. old \in Seq(Pushed) /\ Len(old) = n
    BY ValsAre
<1> HIDE DEF old, new
<1>9. new = WithFirst(v, old)
    BY <1>4, <1>5, <1>7, <1>8, IsPrepend
<1>. QED
    BY <1>3, <1>6, <1>9 DEF old, new, longer

LEMMA RemovedFirst ==
    ASSUME NEW less, NEW more, NEW n \in Nat, n # 0, NEW path, NEW v,
           Visits(more, path, n), HoldsValues(more, n, path), Extends(more, less, path[1], v)
    PROVE  /\ Visits(less, Later(path, n), n - 1) /\ HoldsValues(less, n - 1, Later(path, n))
           /\ Vals(less, Later(path, n), n - 1) = WithoutFirst(Vals(more, path, n))
<1> DEFINE m == n - 1
           shorter == Later(path, n)
           old == Vals(more, path, n)
           new == Vals(less, shorter, m)
<1>1. /\ m \in Nat /\ n = m + 1 /\ n \in Nat /\ n - 1 = m
      /\ \A i \in 1..m : shorter[i] = path[i + 1] /\ i + 1 \in 1..n /\ i + 1 # 1
      /\ \A i \in 1..n : i = 1 \/ (i - 1 \in 1..m /\ i = (i - 1) + 1)
      /\ 1 \in 1..n
    BY DEF Later
<1>2. \A i \in 1..m : shorter[i] \in DOMAIN less
    BY <1>1 DEF Extends, Visits
<1>3. shorter \in [1..m -> DOMAIN less]
    BY <1>1, <1>2 DEF Later
<1> HIDE DEF shorter, m
<1>4. Visits(less, shorter, m)
  <2>1. ASSUME NEW q \in DOMAIN less
        PROVE  \E i \in 1..m : shorter[i] = q
    <3>1. q \in DOMAIN more /\ q # path[1]
      BY DEF Extends
    <3>2. PICK i \in 1..n : path[i] = q
      BY <3>1 DEF Visits
    <3>3. i - 1 \in 1..m /\ shorter[i - 1] = path[i]
      BY <1>1, <3>1, <3>2
    <3>. QED
      BY <3>2, <3>3
  <2>2. ASSUME NEW i \in 1..m, NEW j \in 1..m, shorter[i] = shorter[j]
        PROVE  i = j
    <3>1. i + 1 = j + 1
      BY <1>1, <2>2 DEF Visits
    <3>. QED
      BY <1>1, <3>1
  <2>. QED
    BY <1>3, <2>1, <2>2 DEF Visits
<1>5. \A i \in 1..m : less[shorter[i]].val = more[path[i + 1]].val
    BY <1>1, <1>2 DEF Extends
<1>6. \A i \in 1..m : new[i] = old[i + 1]
    BY <1>1, <1>5 DEF Vals
<1>7. HoldsValues(less, m, shorter)
    BY <1>1, <1>5 DEF HoldsValues
<1>8. new \in [1..m -> Pushed]
    BY <1>1, <1>7, ValsAre
<1>9. old \in Seq(Pushed) /\ Len(old) = m + 1
    BY <1>1, ValsAre
<1> HIDE DEF old, new
<1>10. new = WithoutFirst(old)
    BY <1>1, <1>6, <1>8, <1>9, IsTail
<1>. QED
    BY <1>4, <1>7, <1>10 DEF old, new, shorter, m

LEMMA RemovedLast ==
    ASSUME NEW less, NEW more, NEW n \in Nat, n # 0, NEW path, NEW v,
           Visits(more, path, n), HoldsValues(more, n, path), Extends(more, less, path[n], v)
    PROVE  /\ Visits(less, Shorter(path, n), n - 1) /\ HoldsValues(less, n - 1, Shorter(path, n))
           /\ Vals(less, Shorter(path, n), n - 1) = WithoutLast(Vals(more, path, n))
<1> DEFINE m == n - 1
           shorter == Shorter(path, n)
           old == Vals(more, path, n)
           new == Vals(less, shorter, m)
<1>1. /\ m \in Nat /\ n = m + 1 /\ n \in Nat /\ n - 1 = m
      /\ \A i \in 1..m : shorter[i] = path[i] /\ i \in 1..n /\ i # n
      /\ \A i \in 1..n : i = n \/ i \in 1..m
      /\ n \in 1..n
    BY DEF Shorter
<1>2. \A i \in 1..m : shorter[i] \in DOMAIN less
    BY <1>1 DEF Extends, Visits
<1>3. shorter \in [1..m -> DOMAIN less]
    BY <1>1, <1>2 DEF Shorter
<1> HIDE DEF shorter, m
<1>4. Visits(less, shorter, m)
  <2>1. ASSUME NEW q \in DOMAIN less
        PROVE  \E i \in 1..m : shorter[i] = q
    <3>1. q \in DOMAIN more /\ q # path[n]
      BY DEF Extends
    <3>2. PICK i \in 1..n : path[i] = q
      BY <3>1 DEF Visits
    <3>. QED
      BY <1>1, <3>1, <3>2
  <2>2. ASSUME NEW i \in 1..m, NEW j \in 1..m, shorter[i] = shorter[j]
        PROVE  i = j
    BY <1>1, <2>2 DEF Visits
  <2>. QED
    BY <1>3, <2>1, <2>2 DEF Visits
<1>5. \A i \in 1..m : less[shorter[i]].val = more[path[i]].val
    BY <1>1, <1>2 DEF Extends
<1>6. \A i \in 1..m : new[i] = old[i]
    BY <1>1, <1>5 DEF Vals
<1>7. HoldsValues(less, m, shorter)
    BY <1>1, <1>5 DEF HoldsValues
<1>8. new \in [1..m -> Pushed]
    BY <1>1, <1>7, ValsAre
<1>9. old \in Seq(Pushed) /\ Len(old) = m + 1
    BY <1>1, ValsAre
<1> HIDE DEF old, new
<1>10. new = WithoutLast(old)
    BY <1>1, <1>6, <1>8, <1>9, IsFront
<1>. QED
    BY <1>4, <1>7, <1>10 DEF old, new, shorter, m

(***************************************************************************)
(* LinkedListQueue.                                                        *)
(***************************************************************************)
QueueChainOK(ch, path) ==
    /\ ch = [nodes |-> ch.nodes, head |-> ch.head, tail |-> ch.tail, size |-> ch.size]
    /\ ch.size \in Nat
    /\ ch.nodes = [q \in DOMAIN ch.nodes |-> [val |-> ch.nodes[q].val, next |-> ch.nodes[q].next]]
    /\ Visits(ch.nodes, path, ch.size) /\ HoldsValues(ch.nodes, ch.size, path)
    /\ Follows(ch.nodes, path, ch.size, "next")
    /\ ch.size # 0 => ch.head = path[1] /\ ch.tail = path[ch.size]

QueueLinked(ch, v, node) ==
    LET linked == IF ch.size = 0 THEN ch.nodes ELSE [ch.nodes EXCEPT ![ch.tail].next = node]
    IN  [nodes |-> Linked!With(linked, node, [val |-> v, next |-> NOWHERE]),
         head |-> IF ch.size = 0 THEN node ELSE ch.head,
         tail |-> node,
         size |-> ch.size + 1]

QueueUnlinked(ch) ==
    [ch EXCEPT !.nodes = Linked!Deleted(@, ch.head), !.head = ch.nodes[ch.head].next,
               !.size = @ - 1]

LEMMA QueueLinks ==
    ASSUME NEW ch, NEW path, QueueChainOK(ch, path), NEW v \in Pushed,
           NEW node, node \notin DOMAIN ch.nodes
    PROVE  LET new == QueueLinked(ch, v, node)
               longer == Further(path, ch.size, node)
           IN  /\ QueueChainOK(new, longer)
               /\ Vals(new.nodes, longer, new.size) = WithLast(Vals(ch.nodes, path, ch.size), v)
<1> DEFINE n == ch.size
           less == ch.nodes
           linked == IF n = 0 THEN less ELSE [less EXCEPT ![ch.tail].next = node]
           more == Linked!With(linked, node, [val |-> v, next |-> NOWHERE])
           longer == Further(path, n, node)
           new == QueueLinked(ch, v, node)
<1>1. /\ n \in Nat /\ Visits(less, path, n) /\ HoldsValues(less, n, path)
      /\ less = [q \in DOMAIN less |-> [val |-> less[q].val, next |-> less[q].next]]
      /\ node \notin DOMAIN less
      /\ Follows(less, path, n, "next") /\ (n # 0 => ch.head = path[1] /\ ch.tail = path[n])
    BY DEF QueueChainOK
<1>2. /\ new.nodes = more /\ new.tail = node /\ new.size = n + 1
      /\ new.head = IF n = 0 THEN node ELSE ch.head
      /\ new = [nodes |-> new.nodes, head |-> new.head, tail |-> new.tail, size |-> new.size]
    BY DEF QueueLinked
<1> HIDE DEF new
<1>3. /\ DOMAIN linked = DOMAIN less
      /\ \A q \in DOMAIN less :
            linked[q] = [val |-> less[q].val,
                         next |-> IF n # 0 /\ q = ch.tail THEN node ELSE less[q].next]
  <2> HIDE DEF less, n
  <2>. QED
    BY <1>1
<1> HIDE DEF linked
<1>4. /\ DOMAIN more = DOMAIN less \cup {node}
      /\ more[node] = [val |-> v, next |-> NOWHERE]
      /\ \A q \in DOMAIN less : more[q] = linked[q]
    BY <1>3 DEF Linked!With
<1>5. more = [q \in DOMAIN more |-> [val |-> more[q].val, next |-> more[q].next]]
  <2>1. more = [q \in DOMAIN more |-> more[q]]
    BY DEF Linked!With
  <2>2. \A q \in DOMAIN more : more[q] = [val |-> more[q].val, next |-> more[q].next]
    <3> HIDE DEF more, less, n
    <3>. QED
      BY <1>3, <1>4
  <2> HIDE DEF more
  <2>. QED
    BY <2>1, <2>2
<1> HIDE DEF more, less, n, longer
<1>6. Extends(more, less, node, v)
    BY <1>1, <1>3, <1>4 DEF Extends
<1>7. /\ Visits(more, longer, n + 1) /\ HoldsValues(more, n + 1, longer)
      /\ Vals(more, longer, n + 1) = WithLast(Vals(less, path, n), v)
  <2>1. /\ Visits(more, Further(path, n, node), n + 1)
        /\ HoldsValues(more, n + 1, Further(path, n, node))
    BY <1>1, <1>6, AddedLast
  <2>2. Vals(more, Further(path, n, node), n + 1) = WithLast(Vals(less, path, n), v)
    BY <1>1, <1>6, AddedLast
  <2>. QED
    BY <2>1, <2>2 DEF longer
<1>8. /\ longer[n + 1] = node /\ n + 1 \in Nat
      /\ \A i \in 1..n : longer[i] = path[i] /\ path[i] \in DOMAIN less
    BY <1>1 DEF longer, Further, Visits
<1>9. Follows(more, longer, n + 1, "next")
  <2> SUFFICES ASSUME NEW i \in 1..n
               PROVE  more[longer[i]].next = longer[i + 1]
    BY <1>1 DEF Follows
  <2>1. n # 0 /\ n \in 1..n
    BY <1>1
  <2>2. more[longer[i]].next = IF path[i] = path[n] THEN node ELSE less[path[i]].next
    BY <1>1, <1>3, <1>4, <1>8, <2>1
  <2>3. CASE i = n
    BY <1>8, <2>2, <2>3
  <2>4. CASE i # n
    <3>1. i + 1 \in 1..n /\ path[i] # path[n]
      BY <1>1, <2>1, <2>4 DEF Visits
    <3>. QED
      BY <1>1, <1>8, <2>2, <3>1 DEF Follows
  <2>. QED
    BY <2>3, <2>4
<1>10. new.head = longer[1]
  <2>1. CASE n = 0
    BY <1>2, <1>8, <2>1
  <2>2. CASE n # 0
    <3>1. 1 \in 1..n
      BY <1>1, <2>2
    <3>. QED
      BY <1>1, <1>2, <1>8, <2>2, <3>1
  <2>. QED
    BY <2>1, <2>2
<1>11. QueueChainOK(new, longer)
    BY <1>2, <1>5, <1>7, <1>8, <1>9, <1>10 DEF QueueChainOK
<1>12. Vals(new.nodes, longer, new.size) = WithLast(Vals(less, path, n), v)
    BY <1>2, <1>7
<1>. QED
    BY <1>11, <1>12 DEF new, longer, n, less

LEMMA QueueUnlinks ==
    ASSUME NEW ch, NEW path, QueueChainOK(ch, path), ch.size # 0
    PROVE  LET new == QueueUnlinked(ch)
               shorter == Later(path, ch.size)
           IN  /\ QueueChainOK(new, shorter)
               /\ Vals(new.nodes, shorter, new.size) = WithoutFirst(Vals(ch.nodes, path, ch.size))
<1> DEFINE n == ch.size
           m == n - 1
           more == ch.nodes
           less == Linked!Deleted(more, ch.head)
           shorter == Later(path, n)
           new == QueueUnlinked(ch)
<1>1. /\ n \in Nat \ {0} /\ Visits(more, path, n) /\ HoldsValues(more, n, path)
      /\ more = [q \in DOMAIN more |-> [val |-> more[q].val, next |-> more[q].next]]
      /\ Follows(more, path, n, "next") /\ ch.head = path[1] /\ ch.tail = path[n]
    BY DEF QueueChainOK
<1>2. ch = [nodes |-> more, head |-> ch.head, tail |-> ch.tail, size |-> n]
    BY DEF QueueChainOK
<1>3. new = [ch EXCEPT !.nodes = less, !.head = more[ch.head].next, !.size = m]
    BY DEF QueueUnlinked
<1> HIDE DEF new
<1>4. /\ new.nodes = less /\ new.tail = ch.tail /\ new.size = m
      /\ new.head = more[ch.head].next
      /\ new = [nodes |-> new.nodes, head |-> new.head, tail |-> new.tail, size |-> new.size]
  <2> HIDE DEF less, more, m, n
  <2>. QED
    BY <1>2, <1>3
<1>5. /\ DOMAIN less = DOMAIN more \ {path[1]}
      /\ \A q \in DOMAIN less : less[q] = more[q]
      /\ less = [q \in DOMAIN less |-> less[q]]
    BY <1>1 DEF Linked!Deleted
<1> HIDE DEF less
<1>6. less = [q \in DOMAIN less |-> [val |-> less[q].val, next |-> less[q].next]]
  <2> HIDE DEF more
  <2>1. \A q \in DOMAIN less : less[q] = [val |-> less[q].val, next |-> less[q].next]
    BY <1>1, <1>5
  <2>. QED
    BY <1>5, <2>1
<1> HIDE DEF more, n
<1>7. /\ m \in Nat /\ n = m + 1 /\ 1 \in 1..n /\ n \in Nat
      /\ \A i \in 1..m : shorter[i] = path[i + 1] /\ i + 1 \in 1..n
    BY <1>1 DEF Later
<1>8. Extends(more, less, path[1], more[path[1]].val)
  <2>1. path[1] \in DOMAIN more
    BY <1>1, <1>7 DEF Visits
  <2>. QED
    BY <1>5, <2>1 DEF Extends
<1>9. /\ Visits(less, shorter, m) /\ HoldsValues(less, m, shorter)
      /\ Vals(less, shorter, m) = WithoutFirst(Vals(more, path, n))
  <2> HIDE DEF shorter, m
  <2>1. n \in Nat /\ n # 0 /\ Visits(more, path, n) /\ HoldsValues(more, n, path)
    BY <1>1
  <2>2. /\ Visits(less, Later(path, n), n - 1) /\ HoldsValues(less, n - 1, Later(path, n))
        /\ Vals(less, Later(path, n), n - 1) = WithoutFirst(Vals(more, path, n))
    BY <1>8, <2>1, RemovedFirst, ZenonT(30)
  <2>. QED
    BY <2>2 DEF shorter, m
<1> HIDE DEF shorter, m
<1>10. \A i \in 1..m : shorter[i] \in DOMAIN less /\ less[shorter[i]] = more[path[i + 1]]
    BY <1>5, <1>7, <1>9 DEF Visits
<1>11. Follows(less, shorter, m, "next")
  <2> SUFFICES ASSUME NEW i \in 1..m, i + 1 \in 1..m
               PROVE  less[shorter[i]].next = shorter[i + 1]
    BY DEF Follows
  <2>1. less[shorter[i]].next = more[path[i + 1]].next
    BY <1>10
  <2>2. i + 1 \in 1..n /\ (i + 1) + 1 \in 1..n
    BY <1>7
  <2>. QED
    BY <1>1, <1>7, <2>1, <2>2 DEF Follows
<1>12. m # 0 => new.head = shorter[1] /\ new.tail = shorter[m]
  <2> SUFFICES ASSUME m # 0
               PROVE  new.head = shorter[1] /\ new.tail = shorter[m]
    OBVIOUS
  <2>1. 1 \in 1..m /\ m \in 1..m /\ 1 + 1 \in 1..n
    BY <1>7
  <2>2. more[path[1]].next = path[1 + 1]
    BY <1>1, <1>7, <2>1 DEF Follows
  <2>. QED
    BY <1>1, <1>4, <1>7, <2>1, <2>2
<1>13. QueueChainOK(new, shorter)
    BY <1>4, <1>6, <1>7, <1>9, <1>11, <1>12 DEF QueueChainOK
<1>14. Vals(new.nodes, shorter, new.size) = WithoutFirst(Vals(more, path, n))
    BY <1>4, <1>9
<1>. QED
    BY <1>13, <1>14 DEF new, shorter, n, more, m

(***************************************************************************)
(* The two queues.                                                         *)
(***************************************************************************)
QueueInv ==
    /\ QueueRingOK(queueRing)
    /\ \E path : /\ QueueChainOK(queueChain, path)
                 /\ Vals(queueChain.nodes, path, queueChain.size) = QueueItems(queueRing)

LEMMA QueueChainIs ==
    ASSUME NEW path, QueueChainOK(queueChain, path)
    PROVE  Queues!ChainItems = Vals(queueChain.nodes, path, queueChain.size)
<1> DEFINE n == queueChain.size
           nodes == queueChain.nodes
           p == queueChain.head
<1>1. /\ n \in Nat /\ path \in [1..n -> DOMAIN nodes] /\ Follows(nodes, path, n, "next")
      /\ (n # 0 => p = path[1])
    BY DEF QueueChainOK, Visits
<1>2. Queues!ChainItems = Linked!ValuesAlong(nodes, p, "next", n)
    BY DEF Queues!ChainItems, Queues!ValuesAlong, Linked!ValuesAlong, Queues!Walk, Linked!Walk,
           Queues!IsNode, Linked!IsNode
<1> HIDE DEF n, nodes, p
<1>3. Linked!ValuesAlong(nodes, p, "next", n) = Vals(nodes, path, n)
    BY <1>1, AlongPath
<1>. QED
    BY <1>2, <1>3 DEF n, nodes

LEMMA QueueItemsAre ==
    QueueInv => /\ Queues!RingItems = QueueItems(queueRing)
                /\ Queues!ChainItems = QueueItems(queueRing)
                /\ Queues!size = QueueSize(queueRing) /\ queueChain.size = QueueSize(queueRing)
<1> SUFFICES ASSUME QueueInv
             PROVE  /\ Queues!RingItems = QueueItems(queueRing)
                    /\ Queues!ChainItems = QueueItems(queueRing)
                    /\ Queues!size = QueueSize(queueRing)
                    /\ queueChain.size = QueueSize(queueRing)
    OBVIOUS
<1>1. PICK path : /\ QueueChainOK(queueChain, path)
                  /\ Vals(queueChain.nodes, path, queueChain.size) = QueueItems(queueRing)
    BY DEF QueueInv
<1>2. QueueRingOK(queueRing)
    BY DEF QueueInv
<1>3. Queues!RingItems = QueueItems(queueRing) /\ Queues!size = QueueSize(queueRing)
    BY <1>2, QueueRingIs
<1>4. Queues!ChainItems = QueueItems(queueRing)
    BY <1>1, QueueChainIs
<1>5. Len(QueueItems(queueRing)) = QueueSize(queueRing)
    BY <1>2, QueueSizeIs
<1>6. Len(Vals(queueChain.nodes, path, queueChain.size)) = queueChain.size
    BY <1>1, ValsAre DEF QueueChainOK
<1>. QED
    BY <1>1, <1>3, <1>4, <1>5, <1>6

LEMMA QueueStarts == Queues!Init => QueueInv
<1> SUFFICES ASSUME Queues!Init
             PROVE  QueueInv
    OBVIOUS
<1>1. /\ queueRing.data = [i \in 0..(FirstSize - 1) |-> EMPTY]
      /\ queueRing.front = 0 /\ queueRing.rear = 0 /\ queueRing.capacity = FirstSize
      /\ queueRing = [data |-> queueRing.data, front |-> queueRing.front,
                      rear |-> queueRing.rear, capacity |-> queueRing.capacity]
    BY DEF Queues!Init, Queues!Fresh
<1>2. queueRing.data \in Array(FirstSize, Held) /\ 0 \in 0..(FirstSize - 1)
    BY <1>1, SizesAssumption DEF Array, Held
<1>3. QueueRingOK(queueRing)
    BY <1>1, <1>2, SizesAssumption DEF QueueRingOK
<1>4. QueueItems(queueRing) = <<>>
  <2>1. QueueSize(queueRing) = 0
    BY <1>1 DEF QueueSize
  <2>. QED
    BY <1>3, <2>1, QueueSizeIs
<1>5. /\ queueChain.size = 0 /\ DOMAIN queueChain.nodes = {} /\ queueChain.nodes = <<>>
      /\ queueChain = [nodes |-> queueChain.nodes, head |-> queueChain.head,
                       tail |-> queueChain.tail, size |-> queueChain.size]
    BY DEF Queues!Init
<1>6. QueueChainOK(queueChain, <<>>)
    BY <1>5 DEF QueueChainOK, Visits, HoldsValues, Follows
<1>7. Vals(queueChain.nodes, <<>>, queueChain.size) = <<>>
    BY <1>5 DEF Vals
<1>. QED
    BY <1>3, <1>4, <1>6, <1>7 DEF QueueInv

LEMMA QueuePushKeeps ==
    ASSUME QueueInv, NEW v \in Pushed, Queues!push(v)
    PROVE  /\ QueueInv'
           /\ Queues!RingSequence!Next
           /\ Queues!ChainSequence!Next
<1>1. QueueRingOK(queueRing) /\ QueueSize(queueRing) < MaxLength
    BY QueueItemsAre DEF QueueInv, Queues!push
<1>2. PICK path : /\ QueueChainOK(queueChain, path)
                  /\ Vals(queueChain.nodes, path, queueChain.size) = QueueItems(queueRing)
    BY DEF QueueInv
<1> DEFINE grown == IF Queues!full THEN Queues!Resized ELSE queueRing
           node == Queues!New(queueChain.nodes)
<1>3. /\ QueueRingOK(grown) /\ QueueItems(grown) = QueueItems(queueRing)
      /\ QueueSize(grown) < grown.capacity - 1
  <2>1. CASE Queues!full
    BY <1>1, <2>1, QueueResizes
  <2>2. CASE ~Queues!full
    <3>1. QueueSize(queueRing) \in 0..(queueRing.capacity - 1)
      BY <1>1, QueueSizeIs
    <3>2. QueueSize(queueRing) # queueRing.capacity - 1
      BY <1>1, <2>2, QueueRingIs
    <3>3. queueRing.capacity \in Nat
      BY <1>1 DEF QueueRingOK
    <3>. QED
      BY <1>1, <2>2, <3>1, <3>2, <3>3
  <2>. QED
    BY <2>1, <2>2
<1>4. queueRing' = QueuePushed(grown, v)
    BY DEF Queues!push, Queues!RingPush, QueuePushed
<1>5. node \notin DOMAIN queueChain.nodes
  <2>1. IsFiniteSet(DOMAIN queueChain.nodes)
    BY <1>2, HowMany DEF QueueChainOK
  <2>2. Queues!New(queueChain.nodes) = Linked!New(queueChain.nodes)
    BY DEF Queues!New, Linked!New, Queues!IsNode, Linked!IsNode, Queues!Cardinality,
           Linked!Cardinality
  <2>. QED
    BY <2>1, <2>2, FreshNode
<1>6. queueChain' = QueueLinked(queueChain, v, node)
    BY DEF Queues!push, Queues!ChainPush, QueueLinked, Queues!With, Linked!With
<1> HIDE DEF grown, node
<1>7. /\ QueueRingOK(queueRing')
      /\ QueueItems(queueRing') = WithLast(QueueItems(queueRing), v)
    BY <1>3, <1>4, QueuePushes
<1> DEFINE longer == Further(path, queueChain.size, node)
<1>8. /\ QueueChainOK(queueChain', longer)
      /\ Vals(queueChain'.nodes, longer, queueChain'.size)
            = WithLast(Vals(queueChain.nodes, path, queueChain.size), v)
    BY <1>2, <1>5, <1>6, QueueLinks
<1> HIDE DEF longer
<1>9. QueueInv'
    BY <1>2, <1>7, <1>8 DEF QueueInv
<1>10. /\ Queues!RingItems = QueueItems(queueRing) /\ Queues!ChainItems = QueueItems(queueRing)
       /\ Queues!RingItems' = QueueItems(queueRing') /\ Queues!ChainItems' = QueueItems(queueRing')
  <2>1. Queues!RingItems = QueueItems(queueRing) /\ Queues!ChainItems = QueueItems(queueRing)
    BY QueueItemsAre
  <2>2. (/\ Queues!RingItems = QueueItems(queueRing)
         /\ Queues!ChainItems = QueueItems(queueRing)
         /\ Queues!size = QueueSize(queueRing) /\ queueChain.size = QueueSize(queueRing))'
    BY <1>9, QueueItemsAre, PTL
  <2>. QED
    BY <2>1, <2>2
<1>11. Len(QueueItems(queueRing)) < MaxLength
    BY <1>1, QueueSizeIs
<1>12. Queues!RingSequence!PushBack(v)
    BY <1>7, <1>10, <1>11 DEF Queues!RingSequence!PushBack, WithLast
<1>13. Queues!ChainSequence!PushBack(v)
    BY <1>7, <1>10, <1>11 DEF Queues!ChainSequence!PushBack, WithLast
<1>. QED
    BY <1>9, <1>12, <1>13 DEF Queues!RingSequence!Next, Queues!ChainSequence!Next

LEMMA QueuePopKeeps ==
    ASSUME QueueInv, Queues!pop
    PROVE  /\ QueueInv'
           /\ Queues!RingSequence!Next
           /\ Queues!ChainSequence!Next
<1>1. QueueRingOK(queueRing)
    BY DEF QueueInv
<1>2. PICK path : /\ QueueChainOK(queueChain, path)
                  /\ Vals(queueChain.nodes, path, queueChain.size) = QueueItems(queueRing)
    BY DEF QueueInv
<1>3. QueueSize(queueRing) # 0 /\ queueChain.size # 0
    BY <1>1, QueueSizeIs, QueueItemsAre DEF Queues!pop, Queues!empty
<1>4. queueRing' = QueuePopped(queueRing)
    BY DEF Queues!pop, Queues!RingPop, QueuePopped
<1>5. queueChain' = QueueUnlinked(queueChain)
    BY DEF Queues!pop, Queues!ChainPop, QueueUnlinked, Queues!Deleted, Linked!Deleted
<1>6. /\ QueueRingOK(queueRing')
      /\ QueueItems(queueRing') = WithoutFirst(QueueItems(queueRing))
    BY <1>1, <1>3, <1>4, QueuePops
<1> DEFINE shorter == Later(path, queueChain.size)
<1>7. /\ QueueChainOK(queueChain', shorter)
      /\ Vals(queueChain'.nodes, shorter, queueChain'.size)
            = WithoutFirst(Vals(queueChain.nodes, path, queueChain.size))
    BY <1>2, <1>3, <1>5, QueueUnlinks
<1> HIDE DEF shorter
<1>8. QueueInv'
    BY <1>2, <1>6, <1>7 DEF QueueInv
<1>9. /\ Queues!RingItems = QueueItems(queueRing) /\ Queues!ChainItems = QueueItems(queueRing)
      /\ Queues!RingItems' = QueueItems(queueRing') /\ Queues!ChainItems' = QueueItems(queueRing')
  <2>1. Queues!RingItems = QueueItems(queueRing) /\ Queues!ChainItems = QueueItems(queueRing)
    BY QueueItemsAre
  <2>2. (/\ Queues!RingItems = QueueItems(queueRing)
         /\ Queues!ChainItems = QueueItems(queueRing)
         /\ Queues!size = QueueSize(queueRing) /\ queueChain.size = QueueSize(queueRing))'
    BY <1>8, QueueItemsAre, PTL
  <2>. QED
    BY <2>1, <2>2
<1>10. QueueItems(queueRing) # <<>>
    BY <1>1, <1>3, QueueSizeIs
<1>11. Queues!RingSequence!PopFront
    BY <1>6, <1>9, <1>10 DEF Queues!RingSequence!PopFront, WithoutFirst
<1>12. Queues!ChainSequence!PopFront
    BY <1>6, <1>9, <1>10 DEF Queues!ChainSequence!PopFront, WithoutFirst
<1>. QED
    BY <1>8, <1>11, <1>12 DEF Queues!RingSequence!Next, Queues!ChainSequence!Next

LEMMA QueueAgrees == QueueInv => Queues!AnswersAgree
<1> SUFFICES ASSUME QueueInv
             PROVE  Queues!AnswersAgree
    OBVIOUS
<1> DEFINE r == queueRing
           n == QueueSize(r)
           nodes == queueChain.nodes
<1>1. QueueRingOK(r)
    BY DEF QueueInv
<1>2. PICK path : /\ QueueChainOK(queueChain, path)
                  /\ Vals(nodes, path, queueChain.size) = QueueItems(r)
    BY DEF QueueInv
<1>3. Queues!size = n /\ queueChain.size = n
    BY QueueItemsAre
<1>4. Cardinality(DOMAIN nodes) = queueChain.size
    BY <1>2, HowMany DEF QueueChainOK
<1>5. n \in 0..(r.capacity - 1) /\ r.rear = Wrap(r.front + n, r.capacity)
    BY <1>1, QueueSizeIs
<1>6. \A i \in 1..n : nodes[path[i]].val = r.data[Wrap(r.front + i - 1, r.capacity)]
  <2>1. Vals(nodes, path, n) = Along(r.data, r.capacity, r.front, n)
    BY <1>2, <1>3 DEF QueueItems
  <2>. QED
    BY <2>1 DEF Vals, Along
<1>7. ASSUME ~Queues!empty
      PROVE  /\ r.data[r.front] = nodes[queueChain.head].val
             /\ r.rear # 0 => Queues!RingBack = Queues!ChainBack
  <2>1. /\ r.front \in 0..(r.capacity - 1) /\ r.capacity \in Nat \ {0}
        /\ queueChain.size # 0 => /\ queueChain.head = path[1]
                                  /\ queueChain.tail = path[queueChain.size]
    BY <1>1, <1>2 DEF QueueRingOK, QueueChainOK
  <2>2. n # 0 /\ n \in 1..n /\ 1 \in 1..n
    BY <1>1, <1>5, <1>7, <2>1, QueueSizeIs DEF Queues!empty
  <2>3. Wrap(r.front + 1 - 1, r.capacity) = r.front
    BY <2>1 DEF Wrap
  <2>4. r.rear # 0 => Wrap(r.front + n - 1, r.capacity) = r.rear - 1
    BY <1>5, <2>1 DEF Wrap
  <2>5. nodes[path[1]].val = r.data[Wrap(r.front + 1 - 1, r.capacity)]
    BY <1>6, <2>2
  <2>6. nodes[path[n]].val = r.data[Wrap(r.front + n - 1, r.capacity)]
    BY <1>6, <2>2
  <2>. QED
    BY <1>3, <2>1, <2>2, <2>3, <2>4, <2>5, <2>6 DEF Queues!RingBack, Queues!ChainBack
<1>8. Queues!Cardinality(DOMAIN nodes) = Cardinality(DOMAIN nodes)
    BY DEF Queues!Cardinality, Cardinality
<1>. QED
    BY <1>3, <1>4, <1>7, <1>8 DEF Queues!AnswersAgree

\* queue.hpp:115-128, 182-205: the ring of ArrayQueue and the nodes of LinkedListQueue are one
\* sequence, for every first size, and size, front and back of both answer alike.
THEOREM QueuesAreSequences ==
    Queues!Spec => /\ Queues!RingSequence!Spec /\ Queues!ChainSequence!Spec
                   /\ []Queues!AnswersAgree
<1>1. Queues!Init => QueueInv
    BY QueueStarts
<1>2. QueueInv /\ [Queues!Next]_<<queueRing, queueChain>> =>
        /\ QueueInv'
        /\ [Queues!RingSequence!Next]_(Queues!RingItems)
        /\ [Queues!ChainSequence!Next]_(Queues!ChainItems)
  <2> SUFFICES ASSUME QueueInv, [Queues!Next]_<<queueRing, queueChain>>
               PROVE  /\ QueueInv'
                      /\ [Queues!RingSequence!Next]_(Queues!RingItems)
                      /\ [Queues!ChainSequence!Next]_(Queues!ChainItems)
    OBVIOUS
  <2>1. ASSUME NEW v \in Pushed, Queues!push(v)
        PROVE  QueueInv' /\ Queues!RingSequence!Next /\ Queues!ChainSequence!Next
    BY <2>1, QueuePushKeeps
  <2>2. ASSUME Queues!pop
        PROVE  QueueInv' /\ Queues!RingSequence!Next /\ Queues!ChainSequence!Next
    BY <2>2, QueuePopKeeps
  <2>3. CASE UNCHANGED <<queueRing, queueChain>>
    <3>1. QueueInv'
      BY <2>3 DEF QueueInv
    <3>2. Queues!RingItems' = Queues!RingItems /\ Queues!ChainItems' = Queues!ChainItems
      <4>1. /\ Queues!RingItems = QueueItems(queueRing)
            /\ Queues!ChainItems = QueueItems(queueRing)
        BY QueueItemsAre
      <4>2. (/\ Queues!RingItems = QueueItems(queueRing)
             /\ Queues!ChainItems = QueueItems(queueRing)
             /\ Queues!size = QueueSize(queueRing) /\ queueChain.size = QueueSize(queueRing))'
        BY <3>1, QueueItemsAre, PTL
      <4>. QED
        BY <2>3, <4>1, <4>2
    <3>. QED
      BY <3>1, <3>2
  <2>. QED
    BY <2>1, <2>2, <2>3 DEF Queues!Next
<1>3. QueueInv => Queues!AnswersAgree
    BY QueueAgrees
<1>4. Queues!Init => Queues!RingSequence!Init /\ Queues!ChainSequence!Init
  <2> SUFFICES ASSUME Queues!Init
               PROVE  Queues!RingItems = <<>> /\ Queues!ChainItems = <<>>
    BY DEF Queues!RingSequence!Init, Queues!ChainSequence!Init
  <2>1. QueueInv
    BY QueueStarts
  <2>2. QueueSize(queueRing) = 0
    BY DEF QueueSize, Queues!Init
  <2>. QED
    BY <2>1, <2>2, QueueItemsAre, QueueSizeIs DEF QueueInv
<1>. QED
    BY <1>1, <1>2, <1>3, <1>4, PTL
       DEF Queues!Spec, Queues!RingSequence!Spec, Queues!ChainSequence!Spec

(***************************************************************************)
(* Chains that are walked backwards.                                       *)
(***************************************************************************)
\* The links join the nodes in the opposite order.
Precedes(nodes, path, n, link) ==
    \A i \in 1..n : i + 1 \in 1..n => nodes[path[i + 1]][link] = path[i]

Backwards(path, n) == [i \in 1..n |-> path[n + 1 - i]]

LEMMA BackAlong ==
    ASSUME NEW nodes, NEW p, NEW link, NEW n \in Nat, NEW path \in [1..n -> DOMAIN nodes],
           n # 0 => p = path[n], Precedes(nodes, path, n, link)
    PROVE  Linked!ValuesAlong(nodes, p, link, n) = Backwards(Vals(nodes, path, n), n)
<1> DEFINE back == Backwards(path, n)
<1>1. \A i \in 1..n : n + 1 - i \in 1..n
    OBVIOUS
<1>2. back \in [1..n -> DOMAIN nodes]
    BY <1>1 DEF Backwards
<1>3. Follows(nodes, back, n, link)
  <2> SUFFICES ASSUME NEW i \in 1..n, i + 1 \in 1..n
               PROVE  nodes[back[i]][link] = back[i + 1]
    BY DEF Follows
  <2>1. back[i] = path[n + 1 - i] /\ back[i + 1] = path[n - i]
    BY DEF Backwards
  <2>2. n - i \in 1..n /\ (n - i) + 1 \in 1..n /\ (n - i) + 1 = n + 1 - i
    OBVIOUS
  <2>3. nodes[path[(n - i) + 1]][link] = path[n - i]
    BY <2>2 DEF Precedes
  <2>. QED
    BY <2>1, <2>2, <2>3
<1>4. n # 0 => p = back[1]
  <2>1. n # 0 => 1 \in 1..n /\ n + 1 - 1 = n
    OBVIOUS
  <2>. QED
    BY <2>1 DEF Backwards
<1> HIDE DEF back
<1>5. Linked!ValuesAlong(nodes, p, link, n) = Vals(nodes, back, n)
    BY <1>2, <1>3, <1>4, AlongPath
<1>6. Vals(nodes, back, n) = Backwards(Vals(nodes, path, n), n)
    BY <1>1 DEF Vals, Backwards, back
<1>. QED
    BY <1>5, <1>6

LEMMA TwiceBackwards ==
    ASSUME NEW V, NEW n \in Nat, NEW s \in [1..n -> V]
    PROVE  Backwards(Backwards(s, n), n) = s
<1> DEFINE t == Backwards(s, n)
<1>1. \A i \in 1..n : n + 1 - i \in 1..n /\ t[i] = s[n + 1 - i]
    BY DEF Backwards
<1> HIDE DEF t
<1>2. ASSUME NEW i \in 1..n
      PROVE  t[n + 1 - i] = s[i]
  <2>1. n + 1 - i \in 1..n /\ n + 1 - (n + 1 - i) = i
    OBVIOUS
  <2>. QED
    BY <1>1, <2>1
<1>3. Backwards(t, n) = [i \in 1..n |-> s[i]]
    BY <1>2 DEF Backwards
<1>. QED
    BY <1>3 DEF t

(***************************************************************************)
(* ArrayStack.                                                             *)
(***************************************************************************)
StackArrayOK(a) ==
    /\ a \in [ptr : Array(a.capcity, Held), size : 0..a.capcity, capcity : Nat \ {0}]

StackItems(a) == Along(a.ptr, a.capcity, 0, a.size)

LEMMA StackItemsIs ==
    ASSUME NEW a, StackArrayOK(a)
    PROVE  /\ StackItems(a) \in Seq(Held) /\ Len(StackItems(a)) = a.size
           /\ StackItems(a) = <<>> <=> a.size = 0
<1> DEFINE c == a.capcity
           n == a.size
           s == Along(a.ptr, c, 0, n)
<1>1. n \in 0..c /\ c \in Nat \ {0} /\ 0 \in 0..(c - 1) /\ a.ptr \in Array(c, Held)
    BY DEF StackArrayOK
<1> HIDE DEF c, n
<1>2. s \in Seq(Held) /\ Len(s) = n
    BY <1>1, AlongIs
<1>3. s = <<>> <=> n = 0
    BY <1>1, AlongIs
<1>. QED
    BY <1>2, <1>3 DEF StackItems, c, n

LEMMA StackArrayIs ==
    ASSUME StackArrayOK(stackArray)
    PROVE  Stacks!ArrayItems = StackItems(stackArray)
<1> DEFINE c == stackArray.capcity
           n == stackArray.size
<1>1. n \in 0..c /\ c \in Nat \ {0}
    BY DEF StackArrayOK
<1>2. \A i \in 1..n : Wrap(0 + i - 1, c) = i - 1
    BY <1>1 DEF Wrap
<1>. QED
    BY <1>2 DEF Stacks!ArrayItems, StackItems, Along

LEMMA StackMakesRoom ==
    ASSUME StackArrayOK(stackArray)
    PROVE  LET g == Stacks!Roomy
           IN  /\ StackArrayOK(g) /\ StackItems(g) = StackItems(stackArray)
               /\ g.size = stackArray.size /\ g.size < g.capcity
<1> DEFINE c == stackArray.capcity
           d == stackArray.ptr
           n == stackArray.size
           length == IF c < ResizeLimit THEN 2 * c ELSE c + ResizeLimit
           copy == Copied(d, c, 0, n, length)
           g == Stacks!Roomy
<1>1. c \in Nat \ {0} /\ 0 \in 0..(c - 1) /\ d \in Array(c, Held) /\ n \in 0..c
    BY DEF StackArrayOK
<1>2. CASE c < n + 1
  <2>1. length \in Nat \ {0} /\ n < length
    BY <1>1, <1>2, SizesAssumption
  <2>2. EMPTY \in Held
    BY DEF Held
  <2>3. copy \in Array(length, Held) /\ Along(copy, length, 0, n) = Along(d, c, 0, n)
    <3> HIDE DEF c, d, n, length
    <3>. QED
      BY <1>1, <2>1, <2>2, CopiedIs
  <2>4. g = [ptr |-> copy, size |-> n, capcity |-> length]
    <3>1. \A i \in 0..(length - 1) : i < n => Wrap(0 + i, c) = i
      BY <1>1, <2>1 DEF Wrap
    <3>2. [i \in 0..(length - 1) |-> IF i < n THEN d[i] ELSE EMPTY] = copy
      BY <3>1 DEF Copied
    <3>3. g = [ptr |-> [i \in 0..(length - 1) |-> IF i < n THEN d[i] ELSE EMPTY],
               size |-> n, capcity |-> length]
      BY <1>2 DEF Stacks!Roomy
    <3>. QED
      BY <3>2, <3>3
  <2> HIDE DEF copy, g, length
  <2>5. g.ptr = copy /\ g.size = n /\ g.capcity = length
    BY <2>4
  <2>6. StackArrayOK(g)
    <3>1. n \in 0..length
      BY <1>1, <2>1
    <3>. QED
      BY <2>1, <2>3, <2>4, <2>5, <3>1 DEF StackArrayOK
  <2>7. StackItems(g) = StackItems(stackArray)
    BY <2>3, <2>5 DEF StackItems
  <2>. QED
    BY <2>1, <2>5, <2>6, <2>7 DEF g
<1>3. CASE ~(c < n + 1)
  <2>1. g = stackArray
    BY <1>3 DEF Stacks!Roomy
  <2>2. n < c
    BY <1>1, <1>3
  <2>. QED
    BY <2>1, <2>2
<1>. QED
    BY <1>2, <1>3

StackPushed(a, v) == [a EXCEPT !.ptr[a.size] = v, !.size = @ + 1]
StackPopped(a) == [a EXCEPT !.ptr[a.size - 1] = EMPTY, !.size = @ - 1]

LEMMA StackPushes ==
    ASSUME NEW a, StackArrayOK(a), a.size < a.capcity, NEW v \in Pushed
    PROVE  /\ StackArrayOK(StackPushed(a, v))
           /\ StackItems(StackPushed(a, v)) = WithLast(StackItems(a), v)
<1> DEFINE q == StackPushed(a, v)
           c == a.capcity
           n == a.size
<1>1. /\ c \in Nat \ {0} /\ 0 \in 0..(c - 1) /\ n \in 0..(c - 1) /\ n + 1 \in 0..c
      /\ a.ptr \in Array(c, Held) /\ v \in Held
    BY DEF StackArrayOK, Held
<1>2. q = [a EXCEPT !.ptr[a.size] = v, !.size = @ + 1]
    BY DEF StackPushed
<1> HIDE DEF q
<1>3. /\ q.ptr = [a.ptr EXCEPT ![n] = v] /\ q.size = n + 1 /\ q.capcity = c
      /\ q = [ptr |-> q.ptr, size |-> q.size, capcity |-> q.capcity]
    BY <1>2 DEF StackArrayOK
<1>4. q.ptr \in Array(c, Held) /\ Becomes(a.ptr, q.ptr, n, v)
    BY <1>1, <1>3 DEF Array, Becomes
<1>5. StackArrayOK(q)
    BY <1>1, <1>3, <1>4 DEF StackArrayOK
<1>6. Along(q.ptr, c, 0, n + 1) = WithLast(Along(a.ptr, c, 0, n), v)
  <2>1. Becomes(a.ptr, q.ptr, Wrap(0 + n, c), v)
    BY <1>1, <1>4 DEF Wrap
  <2> HIDE DEF c, n
  <2>. QED
    BY <1>1, <1>4, <2>1, PushedBehind
<1>7. StackItems(q) = WithLast(StackItems(a), v)
    BY <1>3, <1>6 DEF StackItems
<1>. QED
    BY <1>5, <1>7 DEF q

LEMMA StackPops ==
    ASSUME NEW a, StackArrayOK(a), a.size # 0
    PROVE  /\ StackArrayOK(StackPopped(a))
           /\ StackItems(StackPopped(a)) = WithoutLast(StackItems(a))
<1> DEFINE q == StackPopped(a)
           c == a.capcity
           n == a.size
<1>1. /\ c \in Nat \ {0} /\ 0 \in 0..(c - 1) /\ n \in 1..c /\ n - 1 \in 0..c
      /\ n - 1 \in 0..(c - 1) /\ a.ptr \in Array(c, Held) /\ EMPTY \in Held
    BY DEF StackArrayOK, Held
<1>2. q = [a EXCEPT !.ptr[a.size - 1] = EMPTY, !.size = @ - 1]
    BY DEF StackPopped
<1> HIDE DEF q
<1>3. /\ q.ptr = [a.ptr EXCEPT ![n - 1] = EMPTY] /\ q.size = n - 1 /\ q.capcity = c
      /\ q = [ptr |-> q.ptr, size |-> q.size, capcity |-> q.capcity]
    BY <1>2 DEF StackArrayOK
<1>4. q.ptr \in Array(c, Held) /\ Becomes(a.ptr, q.ptr, n - 1, EMPTY)
    BY <1>1, <1>3 DEF Array, Becomes
<1>5. StackArrayOK(q)
    BY <1>1, <1>3, <1>4 DEF StackArrayOK
<1>6. Along(q.ptr, c, 0, n - 1) = WithoutLast(Along(a.ptr, c, 0, n))
  <2>1. Becomes(a.ptr, q.ptr, Wrap(0 + n - 1, c), EMPTY)
    BY <1>1, <1>4 DEF Wrap
  <2> HIDE DEF c, n
  <2>. QED
    BY <1>1, <1>4, <2>1, PoppedLast
<1>7. StackItems(q) = WithoutLast(StackItems(a))
    BY <1>3, <1>6 DEF StackItems
<1>. QED
    BY <1>5, <1>7 DEF q

(***************************************************************************)
(* LinkedListStack: the path starts at the bottom, the links go down.      *)
(***************************************************************************)
StackChainOK(ch, path) ==
    /\ ch = [nodes |-> ch.nodes, head |-> ch.head, size |-> ch.size]
    /\ ch.size \in Nat
    /\ ch.nodes = [q \in DOMAIN ch.nodes |-> [val |-> ch.nodes[q].val, next |-> ch.nodes[q].next]]
    /\ Visits(ch.nodes, path, ch.size) /\ HoldsValues(ch.nodes, ch.size, path)
    /\ Precedes(ch.nodes, path, ch.size, "next")
    /\ ch.size # 0 => ch.head = path[ch.size]

StackLinked(ch, v, node) ==
    [nodes |-> Linked!With(ch.nodes, node, [val |-> v, next |-> ch.head]),
     head |-> node, size |-> ch.size + 1]

StackUnlinked(ch) ==
    [nodes |-> Linked!Deleted(ch.nodes, ch.head), head |-> ch.nodes[ch.head].next,
     size |-> ch.size - 1]

LEMMA StackLinks ==
    ASSUME NEW ch, NEW path, StackChainOK(ch, path), NEW v \in Pushed,
           NEW node, node \notin DOMAIN ch.nodes
    PROVE  LET new == StackLinked(ch, v, node)
               longer == Further(path, ch.size, node)
           IN  /\ StackChainOK(new, longer)
               /\ Vals(new.nodes, longer, new.size) = WithLast(Vals(ch.nodes, path, ch.size), v)
<1> DEFINE n == ch.size
           less == ch.nodes
           more == Linked!With(less, node, [val |-> v, next |-> ch.head])
           longer == Further(path, n, node)
           new == StackLinked(ch, v, node)
<1>1. /\ n \in Nat /\ Visits(less, path, n) /\ HoldsValues(less, n, path)
      /\ less = [q \in DOMAIN less |-> [val |-> less[q].val, next |-> less[q].next]]
      /\ node \notin DOMAIN less
      /\ Precedes(less, path, n, "next") /\ (n # 0 => ch.head = path[n])
    BY DEF StackChainOK
<1>2. /\ new.nodes = more /\ new.head = node /\ new.size = n + 1
      /\ new = [nodes |-> new.nodes, head |-> new.head, size |-> new.size]
    BY DEF StackLinked
<1> HIDE DEF new
<1>3. /\ DOMAIN more = DOMAIN less \cup {node}
      /\ more[node] = [val |-> v, next |-> ch.head]
      /\ \A q \in DOMAIN less : more[q] = less[q]
      /\ more = [q \in DOMAIN more |-> more[q]]
    BY <1>1 DEF Linked!With
<1> HIDE DEF more
<1>4. more = [q \in DOMAIN more |-> [val |-> more[q].val, next |-> more[q].next]]
  <2>1. \A q \in DOMAIN more : more[q] = [val |-> more[q].val, next |-> more[q].next]
    <3> HIDE DEF less, n
    <3>. QED
      BY <1>1, <1>3
  <2>. QED
    BY <1>3, <2>1
<1> HIDE DEF less, n, longer
<1>5. Extends(more, less, node, v)
    BY <1>1, <1>3 DEF Extends
<1>6. /\ Visits(more, longer, n + 1) /\ HoldsValues(more, n + 1, longer)
      /\ Vals(more, longer, n + 1) = WithLast(Vals(less, path, n), v)
  <2>1. /\ Visits(more, Further(path, n, node), n + 1)
        /\ HoldsValues(more, n + 1, Further(path, n, node))
    BY <1>1, <1>5, AddedLast
  <2>2. Vals(more, Further(path, n, node), n + 1) = WithLast(Vals(less, path, n), v)
    BY <1>1, <1>5, AddedLast
  <2>. QED
    BY <2>1, <2>2 DEF longer
<1>7. /\ longer[n + 1] = node /\ n + 1 \in Nat
      /\ \A i \in 1..n : longer[i] = path[i] /\ path[i] \in DOMAIN less
    BY <1>1 DEF longer, Further, Visits
<1>8. Precedes(more, longer, n + 1, "next")
  <2> SUFFICES ASSUME NEW i \in 1..n
               PROVE  more[longer[i + 1]].next = longer[i]
    BY <1>1 DEF Precedes
  <2>1. CASE i = n
    BY <1>1, <1>3, <1>7, <2>1
  <2>2. CASE i # n
    <3>1. i + 1 \in 1..n
      BY <1>1, <2>2
    <3>2. less[path[i + 1]].next = path[i]
      BY <1>1, <3>1 DEF Precedes
    <3>3. more[longer[i + 1]] = less[path[i + 1]]
      BY <1>3, <1>7, <3>1
    <3>. QED
      BY <1>7, <3>2, <3>3
  <2>. QED
    BY <2>1, <2>2
<1>9. StackChainOK(new, longer)
    BY <1>2, <1>4, <1>6, <1>7, <1>8 DEF StackChainOK
<1>10. Vals(new.nodes, longer, new.size) = WithLast(Vals(less, path, n), v)
    BY <1>2, <1>6
<1>. QED
    BY <1>9, <1>10 DEF new, longer, n, less

LEMMA StackUnlinks ==
    ASSUME NEW ch, NEW path, StackChainOK(ch, path), ch.size # 0
    PROVE  LET new == StackUnlinked(ch)
               shorter == Shorter(path, ch.size)
           IN  /\ StackChainOK(new, shorter)
               /\ Vals(new.nodes, shorter, new.size) = WithoutLast(Vals(ch.nodes, path, ch.size))
<1> DEFINE n == ch.size
           m == n - 1
           more == ch.nodes
           less == Linked!Deleted(more, ch.head)
           shorter == Shorter(path, n)
           new == StackUnlinked(ch)
<1>1. /\ n \in Nat /\ n # 0 /\ Visits(more, path, n) /\ HoldsValues(more, n, path)
      /\ more = [q \in DOMAIN more |-> [val |-> more[q].val, next |-> more[q].next]]
      /\ Precedes(more, path, n, "next") /\ ch.head = path[n]
    BY DEF StackChainOK
<1>2. /\ new.nodes = less /\ new.size = m /\ new.head = more[ch.head].next
      /\ new = [nodes |-> new.nodes, head |-> new.head, size |-> new.size]
    BY DEF StackUnlinked
<1> HIDE DEF new
<1>3. /\ DOMAIN less = DOMAIN more \ {path[n]}
      /\ \A q \in DOMAIN less : less[q] = more[q]
      /\ less = [q \in DOMAIN less |-> less[q]]
    BY <1>1 DEF Linked!Deleted
<1> HIDE DEF less
<1>4. less = [q \in DOMAIN less |-> [val |-> less[q].val, next |-> less[q].next]]
  <2> HIDE DEF more
  <2>1. \A q \in DOMAIN less : less[q] = [val |-> less[q].val, next |-> less[q].next]
    BY <1>1, <1>3
  <2>. QED
    BY <1>3, <2>1
<1> HIDE DEF more, n
<1>5. /\ m \in Nat /\ n \in 1..n
      /\ \A i \in 1..m : shorter[i] = path[i] /\ i \in 1..n
    BY <1>1 DEF Shorter
<1>6. Extends(more, less, path[n], more[path[n]].val)
  <2>1. path[n] \in DOMAIN more
    BY <1>1, <1>5 DEF Visits
  <2>. QED
    BY <1>3, <2>1 DEF Extends
<1>7. /\ Visits(less, shorter, m) /\ HoldsValues(less, m, shorter)
      /\ Vals(less, shorter, m) = WithoutLast(Vals(more, path, n))
  <2> HIDE DEF shorter, m
  <2>1. n \in Nat /\ n # 0 /\ Visits(more, path, n) /\ HoldsValues(more, n, path)
    BY <1>1
  <2>2. /\ Visits(less, Shorter(path, n), n - 1) /\ HoldsValues(less, n - 1, Shorter(path, n))
        /\ Vals(less, Shorter(path, n), n - 1) = WithoutLast(Vals(more, path, n))
    BY <1>6, <2>1, RemovedLast, ZenonT(30)
  <2>. QED
    BY <2>2 DEF shorter, m
<1>8. m # 0 => new.head = shorter[m]
  <2> SUFFICES ASSUME m # 0
               PROVE  new.head = shorter[m]
    OBVIOUS
  <2>1. m \in 1..m /\ m \in 1..n /\ m + 1 \in 1..n /\ m + 1 = n
    BY <1>1
  <2>2. more[path[n]].next = path[m]
    BY <1>1, <2>1 DEF Precedes
  <2>. QED
    BY <1>1, <1>2, <1>5, <2>1, <2>2
<1> HIDE DEF shorter, m
<1>9. \A i \in 1..m : shorter[i] \in DOMAIN less /\ less[shorter[i]] = more[path[i]]
    BY <1>3, <1>5, <1>7 DEF Visits
<1>10. Precedes(less, shorter, m, "next")
  <2> SUFFICES ASSUME NEW i \in 1..m, i + 1 \in 1..m
               PROVE  less[shorter[i + 1]].next = shorter[i]
    BY DEF Precedes
  <2>1. less[shorter[i + 1]].next = more[path[i + 1]].next
    BY <1>9
  <2>2. i \in 1..n /\ i + 1 \in 1..n
    BY <1>5
  <2>. QED
    BY <1>1, <1>5, <2>1, <2>2 DEF Precedes
<1>11. StackChainOK(new, shorter)
    BY <1>2, <1>4, <1>5, <1>7, <1>8, <1>10 DEF StackChainOK
<1>12. Vals(new.nodes, shorter, new.size) = WithoutLast(Vals(more, path, n))
    BY <1>2, <1>7
<1>. QED
    BY <1>11, <1>12 DEF new, shorter, n, more, m

(***************************************************************************)
(* The two stacks.                                                         *)
(***************************************************************************)
StackInv ==
    /\ StackArrayOK(stackArray)
    /\ \E path : /\ StackChainOK(stackChain, path)
                 /\ Vals(stackChain.nodes, path, stackChain.size) = StackItems(stackArray)

LEMMA StackChainIs ==
    ASSUME NEW path, StackChainOK(stackChain, path)
    PROVE  Stacks!ChainItems = Vals(stackChain.nodes, path, stackChain.size)
<1> DEFINE n == stackChain.size
           nodes == stackChain.nodes
           p == stackChain.head
           v == Vals(nodes, path, n)
<1>1. /\ n \in Nat /\ path \in [1..n -> DOMAIN nodes] /\ Precedes(nodes, path, n, "next")
      /\ (n # 0 => p = path[n]) /\ HoldsValues(nodes, n, path)
    BY DEF StackChainOK, Visits
<1>2. Stacks!ChainItems = Backwards(Linked!ValuesAlong(nodes, p, "next", n), n)
    BY DEF Stacks!ChainItems, Stacks!ValuesAlong, Linked!ValuesAlong, Stacks!Walk, Linked!Walk,
           Stacks!IsNode, Linked!IsNode, Backwards
<1> HIDE DEF n, nodes, p
<1>3. Linked!ValuesAlong(nodes, p, "next", n) = Backwards(v, n)
    BY <1>1, BackAlong
<1>4. v \in [1..n -> Pushed]
    BY <1>1, ValsAre
<1> HIDE DEF v
<1>5. Backwards(Backwards(v, n), n) = v
    BY <1>1, <1>4, TwiceBackwards
<1>. QED
    BY <1>2, <1>3, <1>5 DEF v, n, nodes

LEMMA StackItemsAre ==
    StackInv => /\ Stacks!ArrayItems = StackItems(stackArray)
                /\ Stacks!ChainItems = StackItems(stackArray)
                /\ stackChain.size = stackArray.size
<1> SUFFICES ASSUME StackInv
             PROVE  /\ Stacks!ArrayItems = StackItems(stackArray)
                    /\ Stacks!ChainItems = StackItems(stackArray)
                    /\ stackChain.size = stackArray.size
    OBVIOUS
<1>1. PICK path : /\ StackChainOK(stackChain, path)
                  /\ Vals(stackChain.nodes, path, stackChain.size) = StackItems(stackArray)
    BY DEF StackInv
<1>2. StackArrayOK(stackArray)
    BY DEF StackInv
<1>3. Stacks!ArrayItems = StackItems(stackArray)
    BY <1>2, StackArrayIs
<1>4. Stacks!ChainItems = StackItems(stackArray)
    BY <1>1, StackChainIs
<1>5. Len(StackItems(stackArray)) = stackArray.size
    BY <1>2, StackItemsIs
<1>6. Len(Vals(stackChain.nodes, path, stackChain.size)) = stackChain.size
    BY <1>1, ValsAre DEF StackChainOK
<1>. QED
    BY <1>1, <1>3, <1>4, <1>5, <1>6

LEMMA StackStarts == Stacks!Init => StackInv /\ stackArray.size = 0
<1> SUFFICES ASSUME Stacks!Init
             PROVE  StackInv /\ stackArray.size = 0
    OBVIOUS
<1>1. /\ stackArray.ptr = [i \in 0..(FirstSize - 1) |-> EMPTY]
      /\ stackArray.size = 0 /\ stackArray.capcity = FirstSize
      /\ stackArray = [ptr |-> stackArray.ptr, size |-> stackArray.size,
                       capcity |-> stackArray.capcity]
    BY DEF Stacks!Init, Stacks!Fresh
<1>2. stackArray.ptr \in Array(FirstSize, Held)
    BY <1>1 DEF Array, Held
<1>3. StackArrayOK(stackArray)
    BY <1>1, <1>2, SizesAssumption DEF StackArrayOK
<1>4. StackItems(stackArray) = <<>>
    BY <1>1, <1>3, StackItemsIs
<1>5. /\ stackChain.size = 0 /\ DOMAIN stackChain.nodes = {} /\ stackChain.nodes = <<>>
      /\ stackChain = [nodes |-> stackChain.nodes, head |-> stackChain.head,
                       size |-> stackChain.size]
    BY DEF Stacks!Init
<1>6. StackChainOK(stackChain, <<>>)
    BY <1>5 DEF StackChainOK, Visits, HoldsValues, Precedes
<1>7. Vals(stackChain.nodes, <<>>, stackChain.size) = <<>>
    BY <1>5 DEF Vals
<1>. QED
    BY <1>1, <1>3, <1>4, <1>6, <1>7 DEF StackInv

LEMMA StackPushKeeps ==
    ASSUME StackInv, NEW v \in Pushed, Stacks!Push(v)
    PROVE  StackInv' /\ Stacks!ArraySequence!Next /\ Stacks!ChainSequence!Next
<1>1. StackArrayOK(stackArray) /\ stackArray.size < MaxLength
    BY DEF StackInv, Stacks!Push
<1>2. PICK path : /\ StackChainOK(stackChain, path)
                  /\ Vals(stackChain.nodes, path, stackChain.size) = StackItems(stackArray)
    BY DEF StackInv
<1> DEFINE g == Stacks!Roomy
           node == Stacks!New(stackChain.nodes)
<1>3. /\ StackArrayOK(g) /\ StackItems(g) = StackItems(stackArray)
      /\ g.size = stackArray.size /\ g.size < g.capcity
    BY <1>1, StackMakesRoom
<1>4. stackArray' = StackPushed(g, v)
  <2>1. stackArray' = [g EXCEPT !.ptr[stackArray.size] = v, !.size = @ + 1]
    BY DEF Stacks!Push, Stacks!ArrayPush
  <2> HIDE DEF g
  <2>. QED
    BY <1>3, <2>1 DEF StackPushed
<1>5. node \notin DOMAIN stackChain.nodes
  <2>1. IsFiniteSet(DOMAIN stackChain.nodes)
    BY <1>2, HowMany DEF StackChainOK
  <2>2. Stacks!New(stackChain.nodes) = Linked!New(stackChain.nodes)
    BY DEF Stacks!New, Linked!New, Stacks!IsNode, Linked!IsNode, Stacks!Cardinality,
           Linked!Cardinality
  <2>. QED
    BY <2>1, <2>2, FreshNode
<1>6. stackChain' = StackLinked(stackChain, v, node)
    BY DEF Stacks!Push, Stacks!ChainPush, StackLinked, Stacks!With, Linked!With
<1> HIDE DEF g, node
<1>7. StackArrayOK(stackArray') /\ StackItems(stackArray') = WithLast(StackItems(stackArray), v)
    BY <1>3, <1>4, StackPushes
<1> DEFINE longer == Further(path, stackChain.size, node)
<1>8. /\ StackChainOK(stackChain', longer)
      /\ Vals(stackChain'.nodes, longer, stackChain'.size)
            = WithLast(Vals(stackChain.nodes, path, stackChain.size), v)
    BY <1>2, <1>5, <1>6, StackLinks
<1> HIDE DEF longer
<1>9. StackInv'
    BY <1>2, <1>7, <1>8 DEF StackInv
<1>10. /\ Stacks!ArrayItems = StackItems(stackArray) /\ Stacks!ChainItems = StackItems(stackArray)
       /\ Stacks!ArrayItems' = StackItems(stackArray')
       /\ Stacks!ChainItems' = StackItems(stackArray')
  <2>1. Stacks!ArrayItems = StackItems(stackArray) /\ Stacks!ChainItems = StackItems(stackArray)
    BY StackItemsAre
  <2>2. (/\ Stacks!ArrayItems = StackItems(stackArray)
         /\ Stacks!ChainItems = StackItems(stackArray)
         /\ stackChain.size = stackArray.size)'
    BY <1>9, StackItemsAre, PTL
  <2>. QED
    BY <2>1, <2>2
<1>11. Len(StackItems(stackArray)) < MaxLength
    BY <1>1, StackItemsIs
<1>12. Stacks!ArraySequence!PushBack(v)
    BY <1>7, <1>10, <1>11 DEF Stacks!ArraySequence!PushBack, WithLast
<1>13. Stacks!ChainSequence!PushBack(v)
    BY <1>7, <1>10, <1>11 DEF Stacks!ChainSequence!PushBack, WithLast
<1>. QED
    BY <1>9, <1>12, <1>13 DEF Stacks!ArraySequence!Next, Stacks!ChainSequence!Next

LEMMA StackPopKeeps ==
    ASSUME StackInv, Stacks!Pop
    PROVE  StackInv' /\ Stacks!ArraySequence!Next /\ Stacks!ChainSequence!Next
<1>1. StackArrayOK(stackArray)
    BY DEF StackInv
<1>2. PICK path : /\ StackChainOK(stackChain, path)
                  /\ Vals(stackChain.nodes, path, stackChain.size) = StackItems(stackArray)
    BY DEF StackInv
<1>3. stackArray.size # 0 /\ stackChain.size # 0
    BY StackItemsAre DEF Stacks!Pop
<1>4. stackArray' = StackPopped(stackArray)
    BY DEF Stacks!Pop, Stacks!ArrayPop, StackPopped
<1>5. stackChain' = StackUnlinked(stackChain)
    BY DEF Stacks!Pop, Stacks!ChainPop, StackUnlinked, Stacks!Deleted, Linked!Deleted
<1>6. /\ StackArrayOK(stackArray')
      /\ StackItems(stackArray') = WithoutLast(StackItems(stackArray))
    BY <1>1, <1>3, <1>4, StackPops
<1> DEFINE shorter == Shorter(path, stackChain.size)
<1>7. /\ StackChainOK(stackChain', shorter)
      /\ Vals(stackChain'.nodes, shorter, stackChain'.size)
            = WithoutLast(Vals(stackChain.nodes, path, stackChain.size))
    BY <1>2, <1>3, <1>5, StackUnlinks
<1> HIDE DEF shorter
<1>8. StackInv'
    BY <1>2, <1>6, <1>7 DEF StackInv
<1>9. /\ Stacks!ArrayItems = StackItems(stackArray) /\ Stacks!ChainItems = StackItems(stackArray)
      /\ Stacks!ArrayItems' = StackItems(stackArray')
      /\ Stacks!ChainItems' = StackItems(stackArray')
  <2>1. Stacks!ArrayItems = StackItems(stackArray) /\ Stacks!ChainItems = StackItems(stackArray)
    BY StackItemsAre
  <2>2. (/\ Stacks!ArrayItems = StackItems(stackArray)
         /\ Stacks!ChainItems = StackItems(stackArray)
         /\ stackChain.size = stackArray.size)'
    BY <1>8, StackItemsAre, PTL
  <2>. QED
    BY <2>1, <2>2
<1>10. StackItems(stackArray) # <<>>
    BY <1>1, <1>3, StackItemsIs
<1>11. Stacks!ArraySequence!PopBack
    BY <1>6, <1>9, <1>10 DEF Stacks!ArraySequence!PopBack, WithoutLast
<1>12. Stacks!ChainSequence!PopBack
    BY <1>6, <1>9, <1>10 DEF Stacks!ChainSequence!PopBack, WithoutLast
<1>. QED
    BY <1>8, <1>11, <1>12 DEF Stacks!ArraySequence!Next, Stacks!ChainSequence!Next

\* stack.hpp:143-162, 220-238: the array of ArrayStack and the nodes of LinkedListStack are
\* one stack, through every growth of the array.
THEOREM StacksAreSequences ==
    Stacks!Spec => Stacks!ArraySequence!Spec /\ Stacks!ChainSequence!Spec
<1>1. Stacks!Init => StackInv
    BY StackStarts
<1>2. StackInv /\ [Stacks!Next]_<<stackArray, stackChain>> =>
        /\ StackInv'
        /\ [Stacks!ArraySequence!Next]_(Stacks!ArrayItems)
        /\ [Stacks!ChainSequence!Next]_(Stacks!ChainItems)
  <2> SUFFICES ASSUME StackInv, [Stacks!Next]_<<stackArray, stackChain>>
               PROVE  /\ StackInv'
                      /\ [Stacks!ArraySequence!Next]_(Stacks!ArrayItems)
                      /\ [Stacks!ChainSequence!Next]_(Stacks!ChainItems)
    OBVIOUS
  <2>1. ASSUME NEW v \in Pushed, Stacks!Push(v)
        PROVE  StackInv' /\ Stacks!ArraySequence!Next /\ Stacks!ChainSequence!Next
    BY <2>1, StackPushKeeps
  <2>2. ASSUME Stacks!Pop
        PROVE  StackInv' /\ Stacks!ArraySequence!Next /\ Stacks!ChainSequence!Next
    BY <2>2, StackPopKeeps
  <2>3. CASE UNCHANGED <<stackArray, stackChain>>
    <3>1. StackInv'
      BY <2>3 DEF StackInv
    <3>2. Stacks!ArrayItems' = Stacks!ArrayItems /\ Stacks!ChainItems' = Stacks!ChainItems
      <4>1. /\ Stacks!ArrayItems = StackItems(stackArray)
            /\ Stacks!ChainItems = StackItems(stackArray)
        BY StackItemsAre
      <4>2. (/\ Stacks!ArrayItems = StackItems(stackArray)
             /\ Stacks!ChainItems = StackItems(stackArray)
             /\ stackChain.size = stackArray.size)'
        BY <3>1, StackItemsAre, PTL
      <4>. QED
        BY <2>3, <4>1, <4>2
    <3>. QED
      BY <3>1, <3>2
  <2>. QED
    BY <2>1, <2>2, <2>3 DEF Stacks!Next
<1>3. Stacks!Init => Stacks!ArraySequence!Init /\ Stacks!ChainSequence!Init
  <2> SUFFICES ASSUME Stacks!Init
               PROVE  Stacks!ArrayItems = <<>> /\ Stacks!ChainItems = <<>>
    BY DEF Stacks!ArraySequence!Init, Stacks!ChainSequence!Init
  <2>1. StackInv /\ stackArray.size = 0
    BY StackStarts
  <2>. QED
    BY <2>1, StackItemsAre, StackItemsIs DEF StackInv
<1>. QED
    BY <1>1, <1>2, <1>3, PTL
       DEF Stacks!Spec, Stacks!ArraySequence!Spec, Stacks!ChainSequence!Spec

(***************************************************************************)
(* ArrayDeque.                                                             *)
(***************************************************************************)
StartOf(r) == Wrap(r.front + 1, r.capacity)

\* Behind the values is the place of rear_, but in a deque that was never pushed to.
DequeRingOK(r) ==
    /\ r \in [data : Array(r.capacity, Held), front : 0..(r.capacity - 1),
              rear : 0..(r.capacity - 1), capacity : Nat \ {0}, size : 0..r.capacity]
    /\ \/ r.rear = Wrap(StartOf(r) + r.size, r.capacity)
       \/ r.size = 0 /\ r.front = r.rear

DequeItems(r) == Along(r.data, r.capacity, StartOf(r), r.size)

LEMMA DequeParts ==
    ASSUME NEW r, DequeRingOK(r)
    PROVE  /\ r.capacity \in Nat \ {0} /\ r.data \in Array(r.capacity, Held)
           /\ r.front \in 0..(r.capacity - 1) /\ r.rear \in 0..(r.capacity - 1)
           /\ r.size \in 0..r.capacity /\ StartOf(r) \in 0..(r.capacity - 1)
           /\ r = [data |-> r.data, front |-> r.front, rear |-> r.rear,
                   capacity |-> r.capacity, size |-> r.size]
<1>1. /\ r.capacity \in Nat \ {0} /\ r.data \in Array(r.capacity, Held)
      /\ r.front \in 0..(r.capacity - 1) /\ r.rear \in 0..(r.capacity - 1)
      /\ r.size \in 0..r.capacity
      /\ r = [data |-> r.data, front |-> r.front, rear |-> r.rear,
              capacity |-> r.capacity, size |-> r.size]
    BY DEF DequeRingOK
<1>2. StartOf(r) \in 0..(r.capacity - 1)
    BY <1>1 DEF StartOf, Wrap
<1>. QED
    BY <1>1, <1>2

LEMMA DequeItemsIs ==
    ASSUME NEW r, DequeRingOK(r)
    PROVE  /\ DequeItems(r) \in Seq(Held) /\ Len(DequeItems(r)) = r.size
           /\ DequeItems(r) = <<>> <=> r.size = 0
<1> DEFINE c == r.capacity
           n == r.size
           f == StartOf(r)
           s == Along(r.data, c, f, n)
<1>1. n \in 0..c /\ c \in Nat \ {0} /\ f \in 0..(c - 1) /\ r.data \in Array(c, Held)
    BY DequeParts
<1> HIDE DEF c, n, f
<1>2. s \in Seq(Held) /\ Len(s) = n
    BY <1>1, AlongIs
<1>3. s = <<>> <=> n = 0
    BY <1>1, AlongIs
<1>. QED
    BY <1>2, <1>3 DEF DequeItems, c, n, f

LEMMA ForthAndBack ==
    ASSUME NEW r, r.capacity \in Nat \ {0}, NEW i \in 0..(r.capacity - 1)
    PROVE  /\ Deques!Forth(r, i) = Wrap(i + 1, r.capacity)
           /\ Deques!Back(r, i) = Wrap(i - 1 + r.capacity, r.capacity)
           /\ Deques!Forth(r, i) \in 0..(r.capacity - 1)
           /\ Deques!Back(r, i) \in 0..(r.capacity - 1)
<1> DEFINE c == r.capacity
<1>1. i + 1 \in 0..(2 * c - 1) /\ i - 1 + c \in 0..(2 * c - 1)
    OBVIOUS
<1>2. (i + 1) % c = Wrap(i + 1, c) /\ (i - 1 + c) % c = Wrap(i - 1 + c, c)
  <2> HIDE DEF c
  <2>1. c \in Nat \ {0}
    BY DEF c
  <2>2. (i + 1) % c = Wrap(i + 1, c)
    BY <1>1, <2>1, ModIsWrap
  <2>3. (i - 1 + c) % c = Wrap(i - 1 + c, c)
    BY <1>1, <2>1, ModIsWrap
  <2>. QED
    BY <2>2, <2>3
<1>3. Wrap(i + 1, c) \in 0..(c - 1) /\ Wrap(i - 1 + c, c) \in 0..(c - 1)
    BY DEF Wrap
<1>. QED
    BY <1>2, <1>3 DEF Deques!Forth, Deques!Back

LEMMA DequeRingIs ==
    DequeRingOK(dequeRing) => Deques!RingItems = DequeItems(dequeRing)
<1> SUFFICES ASSUME DequeRingOK(dequeRing)
             PROVE  Deques!RingItems = DequeItems(dequeRing)
    OBVIOUS
<1> DEFINE c == dequeRing.capacity
           f == dequeRing.front
           n == dequeRing.size
<1>1. c \in Nat \ {0} /\ f \in 0..(c - 1) /\ n \in 0..c
    BY DequeParts
<1>2. ASSUME NEW i \in 1..n
      PROVE  (f + i) % c = Wrap(Wrap(f + 1, c) + i - 1, c)
  <2>1. f + i \in 0..(2 * c - 1)
    BY <1>1
  <2>2. (f + i) % c = Wrap(f + i, c)
    BY <1>1, <2>1, ModIsWrap
  <2>3. Wrap(f + i, c) = Wrap(Wrap(f + 1, c) + i - 1, c)
    BY <1>1 DEF Wrap
  <2>. QED
    BY <2>2, <2>3
<1>. QED
    BY <1>2 DEF Deques!RingItems, DequeItems, Along, StartOf

LEMMA DequeResizes ==
    DequeRingOK(dequeRing) =>
        LET g == Deques!Resized
        IN  /\ DequeRingOK(g) /\ DequeItems(g) = DequeItems(dequeRing)
            /\ g.size = dequeRing.size /\ g.size < g.capacity
<1> SUFFICES ASSUME DequeRingOK(dequeRing)
             PROVE  LET g == Deques!Resized
                    IN  /\ DequeRingOK(g) /\ DequeItems(g) = DequeItems(dequeRing)
                        /\ g.size = dequeRing.size /\ g.size < g.capacity
    OBVIOUS
<1> DEFINE c == dequeRing.capacity
           f == StartOf(dequeRing)
           d == dequeRing.data
           n == dequeRing.size
           length == LengthOf(c)
           copy == Copied(d, c, f, n, length)
           g == Deques!Resized
<1>1. /\ c \in Nat \ {0} /\ f \in 0..(c - 1) /\ d \in Array(c, Held) /\ n \in 0..c
      /\ dequeRing.front \in 0..(c - 1)
    BY DequeParts
<1>2. CASE n < c
  <2>1. g = dequeRing
    BY <1>2 DEF Deques!Resized
  <2>. QED
    BY <1>2, <2>1
<1>3. CASE ~(n < c)
  <2>1. length \in Nat \ {0} /\ length > c
    BY <1>1, Grows
  <2>2. n < length /\ EMPTY \in Held
    BY <1>1, <2>1 DEF Held
  <2>3. copy \in Array(length, Held) /\ Along(copy, length, 0, n) = Along(d, c, f, n)
    <3> HIDE DEF c, f, d, n, length
    <3>. QED
      BY <1>1, <2>1, <2>2, CopiedIs
  <2>4. g = [data |-> copy, front |-> length - 1, rear |-> n, capacity |-> length, size |-> n]
    <3>1. Deques!Forth(dequeRing, dequeRing.front) = f
      BY <1>1, ForthAndBack DEF StartOf
    <3>2. g = [data |-> [i \in 0..(length - 1) |-> IF i < n THEN d[(f + i) % c] ELSE EMPTY],
               front |-> length - 1, rear |-> n, capacity |-> length, size |-> n]
      <4> HIDE DEF f
      <4>. QED
        BY <1>3, <3>1 DEF Deques!Resized, LengthOf
    <3>3. ASSUME NEW i \in 0..(length - 1), i < n
          PROVE  (f + i) % c = Wrap(f + i, c)
      <4>1. f + i \in 0..(2 * c - 1)
        BY <1>1, <2>1, <3>3
      <4>. QED
        BY <1>1, <4>1, ModIsWrap
    <3>4. [i \in 0..(length - 1) |-> IF i < n THEN d[(f + i) % c] ELSE EMPTY] = copy
      BY <3>3 DEF Copied
    <3>. QED
      BY <3>2, <3>4
  <2> HIDE DEF copy, g, length
  <2>5. /\ g.data = copy /\ g.front = length - 1 /\ g.rear = n /\ g.capacity = length
        /\ g.size = n
    BY <2>4
  <2>6. StartOf(g) = 0
    BY <2>1, <2>5 DEF StartOf, Wrap
  <2>7. g.rear = Wrap(StartOf(g) + g.size, g.capacity)
    BY <1>1, <2>2, <2>5, <2>6 DEF Wrap
  <2>8. DequeRingOK(g)
    <3>1. n \in 0..(length - 1) /\ length - 1 \in 0..(length - 1) /\ n \in 0..length
      BY <1>1, <2>1, <2>2
    <3>2. g \in [data : Array(g.capacity, Held), front : 0..(g.capacity - 1),
                 rear : 0..(g.capacity - 1), capacity : Nat \ {0}, size : 0..g.capacity]
      BY <2>1, <2>3, <2>4, <2>5, <3>1
    <3>. QED
      BY <2>7, <3>2 DEF DequeRingOK
  <2>9. DequeItems(g) = DequeItems(dequeRing)
    BY <2>3, <2>5, <2>6 DEF DequeItems
  <2>. QED
    BY <2>2, <2>5, <2>8, <2>9 DEF g
<1>. QED
    BY <1>2, <1>3

(***************************************************************************)
(* The four calls on a ring that has room.                                 *)
(***************************************************************************)
DequePushedBack(r, v) ==
    [r EXCEPT !.front = IF Deques!Untouched(r) THEN Deques!Back(r, @) ELSE @,
              !.data[r.rear] = v, !.rear = Deques!Forth(r, @), !.size = @ + 1]

DequePushedFront(r, v) ==
    [r EXCEPT !.rear = IF Deques!Untouched(r) THEN Deques!Forth(r, @) ELSE @,
              !.data[r.front] = v, !.front = Deques!Back(r, @), !.size = @ + 1]

DequePoppedFront(r) ==
    [r EXCEPT !.front = Deques!Forth(r, r.front), !.data[Deques!Forth(r, r.front)] = EMPTY,
              !.size = @ - 1]

DequePoppedBack(r) ==
    [r EXCEPT !.rear = Deques!Back(r, r.rear), !.data[Deques!Back(r, r.rear)] = EMPTY,
              !.size = @ - 1]

LEMMA DequePushesBack ==
    ASSUME NEW r, DequeRingOK(r), r.size < r.capacity, NEW v \in Pushed
    PROVE  /\ DequeRingOK(DequePushedBack(r, v))
           /\ DequeItems(DequePushedBack(r, v)) = WithLast(DequeItems(r), v)
<1> DEFINE q == DequePushedBack(r, v)
           c == r.capacity
           n == r.size
           d == r.data
           f == IF Deques!Untouched(r) THEN Deques!Back(r, r.front) ELSE r.front
           b == Deques!Forth(r, r.rear)
           s == Wrap(f + 1, c)
<1>1. /\ c \in Nat \ {0} /\ d \in Array(c, Held) /\ r.front \in 0..(c - 1)
      /\ r.rear \in 0..(c - 1) /\ n \in 0..(c - 1) /\ n + 1 \in 0..c /\ v \in Held
  <2>1. /\ c \in Nat \ {0} /\ d \in Array(c, Held) /\ r.front \in 0..(c - 1)
        /\ r.rear \in 0..(c - 1) /\ n \in 0..c /\ StartOf(r) \in 0..(c - 1)
    BY DequeParts
  <2>2. n \in 0..(c - 1) /\ n + 1 \in 0..c /\ v \in Held
    BY <2>1 DEF Held
  <2>. QED
    BY <2>1, <2>2
<1>2. /\ Deques!Back(r, r.front) = Wrap(r.front - 1 + c, c) /\ b = Wrap(r.rear + 1, c)
      /\ Deques!Back(r, r.front) \in 0..(c - 1) /\ b \in 0..(c - 1)
    BY <1>1, ForthAndBack
<1>3. q = [data |-> [d EXCEPT ![r.rear] = v], front |-> f, rear |-> b, capacity |-> c,
           size |-> n + 1]
  <2>1. q = [r EXCEPT !.front = f, !.data[r.rear] = v, !.rear = b, !.size = n + 1]
    BY DEF DequePushedBack
  <2> HIDE DEF q, f, b
  <2>2. /\ q.data = [d EXCEPT ![r.rear] = v] /\ q.front = f /\ q.rear = b /\ q.capacity = c
        /\ q.size = n + 1
    BY <2>1 DEF DequeRingOK
  <2>3. q = [data |-> q.data, front |-> q.front, rear |-> q.rear, capacity |-> q.capacity,
             size |-> q.size]
    BY <2>1 DEF DequeRingOK
  <2>. QED
    BY <2>2, <2>3
<1> HIDE DEF q, b
<1>4. q.data = [d EXCEPT ![r.rear] = v] /\ q.front = f /\ q.rear = b /\ q.capacity = c
      /\ q.size = n + 1
    BY <1>3
<1>5. q.data \in Array(c, Held) /\ Becomes(d, q.data, r.rear, v)
    BY <1>1, <1>4 DEF Array, Becomes
<1>6. /\ f \in 0..(c - 1) /\ s \in 0..(c - 1) /\ r.rear = Wrap(s + n, c)
      /\ Deques!Untouched(r) => n = 0
      /\ ~Deques!Untouched(r) => s = StartOf(r)
  <2>1. CASE Deques!Untouched(r)
    <3>1. n = 0 /\ r.front = r.rear /\ f = Wrap(r.front - 1 + c, c)
      BY <1>2, <2>1 DEF Deques!Untouched
    <3> HIDE DEF f
    <3>. QED
      BY <1>1, <2>1, <3>1 DEF Wrap
  <2>2. CASE ~Deques!Untouched(r)
    <3>1. f = r.front /\ s = StartOf(r)
      BY <2>2 DEF StartOf
    <3>2. r.rear = Wrap(StartOf(r) + n, c)
      BY <2>2 DEF DequeRingOK, Deques!Untouched
    <3> HIDE DEF f
    <3>. QED
      BY <1>1, <2>2, <3>1, <3>2 DEF Wrap
  <2>. QED
    BY <2>1, <2>2
<1>7. DequeItems(r) = Along(d, c, s, n)
  <2>1. CASE n = 0
    BY <2>1 DEF DequeItems, Along
  <2>2. CASE n # 0
    BY <1>6, <2>2 DEF DequeItems
  <2>. QED
    BY <2>1, <2>2
<1> HIDE DEF f
<1>8. StartOf(q) = s
    BY <1>4 DEF StartOf
<1> HIDE DEF s
<1>9. DequeRingOK(q)
  <2>1. q \in [data : Array(q.capacity, Held), front : 0..(q.capacity - 1),
               rear : 0..(q.capacity - 1), capacity : Nat \ {0}, size : 0..q.capacity]
    BY <1>1, <1>2, <1>3, <1>4, <1>5, <1>6
  <2>2. b = Wrap(s + (n + 1), c)
    BY <1>1, <1>2, <1>6 DEF Wrap
  <2>. QED
    BY <1>4, <1>8, <2>1, <2>2 DEF DequeRingOK
<1>10. Along(q.data, c, s, n + 1) = WithLast(Along(d, c, s, n), v)
  <2>1. Becomes(d, q.data, Wrap(s + n, c), v)
    BY <1>5, <1>6
  <2> HIDE DEF c, n, d
  <2>. QED
    BY <1>1, <1>5, <1>6, <2>1, PushedBehind
<1>11. DequeItems(q) = WithLast(DequeItems(r), v)
    BY <1>4, <1>7, <1>8, <1>10 DEF DequeItems
<1>. QED
    BY <1>9, <1>11 DEF q

LEMMA DequePushesFront ==
    ASSUME NEW r, DequeRingOK(r), r.size < r.capacity, NEW v \in Pushed
    PROVE  /\ DequeRingOK(DequePushedFront(r, v))
           /\ DequeItems(DequePushedFront(r, v)) = WithFirst(v, DequeItems(r))
<1> DEFINE q == DequePushedFront(r, v)
           c == r.capacity
           n == r.size
           d == r.data
           f == Deques!Back(r, r.front)
           b == IF Deques!Untouched(r) THEN Deques!Forth(r, r.rear) ELSE r.rear
           s == StartOf(r)
<1>1. /\ c \in Nat \ {0} /\ d \in Array(c, Held) /\ r.front \in 0..(c - 1)
      /\ r.rear \in 0..(c - 1) /\ n \in 0..(c - 1) /\ n + 1 \in 0..c /\ v \in Held
      /\ s \in 0..(c - 1)
  <2>1. /\ c \in Nat \ {0} /\ d \in Array(c, Held) /\ r.front \in 0..(c - 1)
        /\ r.rear \in 0..(c - 1) /\ n \in 0..c /\ StartOf(r) \in 0..(c - 1)
    BY DequeParts
  <2>2. n \in 0..(c - 1) /\ n + 1 \in 0..c /\ v \in Held
    BY <2>1 DEF Held
  <2>. QED
    BY <2>1, <2>2
<1>2. /\ f = Wrap(r.front - 1 + c, c) /\ Deques!Forth(r, r.rear) = Wrap(r.rear + 1, c)
      /\ f \in 0..(c - 1) /\ Deques!Forth(r, r.rear) \in 0..(c - 1)
    BY <1>1, ForthAndBack
<1>3. q = [data |-> [d EXCEPT ![r.front] = v], front |-> f, rear |-> b, capacity |-> c,
           size |-> n + 1]
  <2>1. q = [r EXCEPT !.rear = b, !.data[r.front] = v, !.front = f, !.size = n + 1]
    BY DEF DequePushedFront
  <2> HIDE DEF q, f, b
  <2>2. /\ q.data = [d EXCEPT ![r.front] = v] /\ q.front = f /\ q.rear = b /\ q.capacity = c
        /\ q.size = n + 1
    BY <2>1 DEF DequeRingOK
  <2>3. q = [data |-> q.data, front |-> q.front, rear |-> q.rear, capacity |-> q.capacity,
             size |-> q.size]
    BY <2>1 DEF DequeRingOK
  <2>. QED
    BY <2>2, <2>3
<1> HIDE DEF q, f
<1>4. q.data = [d EXCEPT ![r.front] = v] /\ q.front = f /\ q.rear = b /\ q.capacity = c
      /\ q.size = n + 1
    BY <1>3
<1>5. q.data \in Array(c, Held) /\ Becomes(d, q.data, r.front, v)
    BY <1>1, <1>4 DEF Array, Becomes
<1>6. b \in 0..(c - 1) /\ b = Wrap(r.front + (n + 1), c)
  <2>1. CASE Deques!Untouched(r)
    <3>1. n = 0 /\ r.front = r.rear /\ b = Wrap(r.rear + 1, c)
      BY <1>2, <2>1 DEF Deques!Untouched
    <3> HIDE DEF b
    <3>. QED
      BY <1>1, <3>1 DEF Wrap
  <2>2. CASE ~Deques!Untouched(r)
    <3>1. b = r.rear /\ r.rear = Wrap(Wrap(r.front + 1, c) + n, c)
      BY <2>2 DEF DequeRingOK, Deques!Untouched, StartOf
    <3> HIDE DEF b
    <3>. QED
      BY <1>1, <3>1 DEF Wrap
  <2>. QED
    BY <2>1, <2>2
<1> HIDE DEF b
<1>7. StartOf(q) = r.front
    BY <1>1, <1>2, <1>4 DEF StartOf, Wrap
<1>8. DequeRingOK(q)
  <2>1. q \in [data : Array(q.capacity, Held), front : 0..(q.capacity - 1),
               rear : 0..(q.capacity - 1), capacity : Nat \ {0}, size : 0..q.capacity]
    BY <1>1, <1>2, <1>3, <1>4, <1>5, <1>6
  <2>. QED
    BY <1>4, <1>6, <1>7, <2>1 DEF DequeRingOK
<1>9. Along(q.data, c, r.front, n + 1) = WithFirst(v, Along(d, c, s, n))
  <2>1. Wrap(r.front + 1, c) = s
    BY DEF StartOf
  <2> HIDE DEF c, n, d, s
  <2>. QED
    BY <1>1, <1>5, <2>1, PushedBefore
<1>10. DequeItems(q) = WithFirst(v, DequeItems(r))
    BY <1>4, <1>7, <1>9 DEF DequeItems
<1>. QED
    BY <1>8, <1>10 DEF q

LEMMA DequePopsFront ==
    ASSUME NEW r, DequeRingOK(r), r.size # 0
    PROVE  /\ DequeRingOK(DequePoppedFront(r))
           /\ DequeItems(DequePoppedFront(r)) = WithoutFirst(DequeItems(r))
<1> DEFINE q == DequePoppedFront(r)
           c == r.capacity
           n == r.size
           d == r.data
           s == StartOf(r)
<1>1. /\ c \in Nat \ {0} /\ d \in Array(c, Held) /\ r.front \in 0..(c - 1)
      /\ r.rear \in 0..(c - 1) /\ n \in 1..c /\ n - 1 \in 0..c /\ EMPTY \in Held
      /\ s \in 0..(c - 1) /\ r.rear = Wrap(s + n, c)
  <2>1. /\ c \in Nat \ {0} /\ d \in Array(c, Held) /\ r.front \in 0..(c - 1)
        /\ r.rear \in 0..(c - 1) /\ n \in 0..c /\ StartOf(r) \in 0..(c - 1)
    BY DequeParts
  <2>2. r.rear = Wrap(s + n, c)
    BY DEF DequeRingOK
  <2>3. n \in 1..c /\ n - 1 \in 0..c /\ EMPTY \in Held
    BY <2>1 DEF Held
  <2>. QED
    BY <2>1, <2>2, <2>3
<1>2. Deques!Forth(r, r.front) = s
    BY <1>1, ForthAndBack DEF StartOf
<1>3. q = [data |-> [d EXCEPT ![s] = EMPTY], front |-> s, rear |-> r.rear, capacity |-> c,
           size |-> n - 1]
  <2> HIDE DEF s
  <2>1. q = [r EXCEPT !.front = s, !.data[s] = EMPTY, !.size = n - 1]
    BY <1>2 DEF DequePoppedFront
  <2> HIDE DEF q
  <2>2. /\ q.data = [d EXCEPT ![s] = EMPTY] /\ q.front = s /\ q.rear = r.rear /\ q.capacity = c
        /\ q.size = n - 1
    BY <2>1 DEF DequeRingOK
  <2>3. q = [data |-> q.data, front |-> q.front, rear |-> q.rear, capacity |-> q.capacity,
             size |-> q.size]
    BY <2>1 DEF DequeRingOK
  <2>. QED
    BY <2>2, <2>3
<1> HIDE DEF q, s
<1>4. q.data = [d EXCEPT ![s] = EMPTY] /\ q.front = s /\ q.rear = r.rear /\ q.capacity = c
      /\ q.size = n - 1
    BY <1>3
<1>5. q.data \in Array(c, Held) /\ Becomes(d, q.data, s, EMPTY)
    BY <1>1, <1>4 DEF Array, Becomes
<1>6. StartOf(q) = Wrap(s + 1, c)
    BY <1>4 DEF StartOf
<1>7. DequeRingOK(q)
  <2>1. q \in [data : Array(q.capacity, Held), front : 0..(q.capacity - 1),
               rear : 0..(q.capacity - 1), capacity : Nat \ {0}, size : 0..q.capacity]
    BY <1>1, <1>3, <1>4, <1>5
  <2>2. r.rear = Wrap(Wrap(s + 1, c) + (n - 1), c)
    BY <1>1 DEF Wrap
  <2>. QED
    BY <1>4, <1>6, <2>1, <2>2 DEF DequeRingOK
<1>8. Along(q.data, c, Wrap(s + 1, c), n - 1) = WithoutFirst(Along(d, c, s, n))
  <2> HIDE DEF c, n, d
  <2>. QED
    BY <1>1, <1>5, PoppedFirst
<1>9. DequeItems(q) = WithoutFirst(DequeItems(r))
    BY <1>4, <1>6, <1>8 DEF DequeItems, s
<1>. QED
    BY <1>7, <1>9 DEF q

LEMMA DequePopsBack ==
    ASSUME NEW r, DequeRingOK(r), r.size # 0
    PROVE  /\ DequeRingOK(DequePoppedBack(r))
           /\ DequeItems(DequePoppedBack(r)) = WithoutLast(DequeItems(r))
<1> DEFINE q == DequePoppedBack(r)
           c == r.capacity
           n == r.size
           d == r.data
           s == StartOf(r)
           b == Deques!Back(r, r.rear)
<1>1. /\ c \in Nat \ {0} /\ d \in Array(c, Held) /\ r.front \in 0..(c - 1)
      /\ r.rear \in 0..(c - 1) /\ n \in 1..c /\ n - 1 \in 0..c /\ EMPTY \in Held
      /\ s \in 0..(c - 1) /\ r.rear = Wrap(s + n, c)
  <2>1. /\ c \in Nat \ {0} /\ d \in Array(c, Held) /\ r.front \in 0..(c - 1)
        /\ r.rear \in 0..(c - 1) /\ n \in 0..c /\ StartOf(r) \in 0..(c - 1)
    BY DequeParts
  <2>2. r.rear = Wrap(s + n, c)
    BY DEF DequeRingOK
  <2>3. n \in 1..c /\ n - 1 \in 0..c /\ EMPTY \in Held
    BY <2>1 DEF Held
  <2>. QED
    BY <2>1, <2>2, <2>3
<1>2. b \in 0..(c - 1) /\ b = Wrap(s + n - 1, c)
  <2>1. b = Wrap(r.rear - 1 + c, c) /\ b \in 0..(c - 1)
    BY <1>1, ForthAndBack
  <2> HIDE DEF b, s, n, c
  <2>. QED
    BY <1>1, <2>1 DEF Wrap
<1>3. q = [data |-> [d EXCEPT ![b] = EMPTY], front |-> r.front, rear |-> b, capacity |-> c,
           size |-> n - 1]
  <2>1. q = [r EXCEPT !.rear = b, !.data[b] = EMPTY, !.size = n - 1]
    BY DEF DequePoppedBack
  <2> HIDE DEF q, b
  <2>2. /\ q.data = [d EXCEPT ![b] = EMPTY] /\ q.front = r.front /\ q.rear = b /\ q.capacity = c
        /\ q.size = n - 1
    BY <2>1 DEF DequeRingOK
  <2>3. q = [data |-> q.data, front |-> q.front, rear |-> q.rear, capacity |-> q.capacity,
             size |-> q.size]
    BY <2>1 DEF DequeRingOK
  <2>. QED
    BY <2>2, <2>3
<1> HIDE DEF q, b
<1>4. q.data = [d EXCEPT ![b] = EMPTY] /\ q.front = r.front /\ q.rear = b /\ q.capacity = c
      /\ q.size = n - 1
    BY <1>3
<1>5. q.data \in Array(c, Held) /\ Becomes(d, q.data, b, EMPTY)
    BY <1>1, <1>2, <1>4 DEF Array, Becomes
<1>6. StartOf(q) = s
    BY <1>4 DEF StartOf
<1>7. DequeRingOK(q)
  <2>1. q \in [data : Array(q.capacity, Held), front : 0..(q.capacity - 1),
               rear : 0..(q.capacity - 1), capacity : Nat \ {0}, size : 0..q.capacity]
    BY <1>1, <1>2, <1>3, <1>4, <1>5
  <2>2. b = Wrap(s + (n - 1), c)
    <3>1. s + (n - 1) = s + n - 1
      BY <1>1
    <3>. QED
      BY <1>2, <3>1
  <2>. QED
    BY <1>4, <1>6, <2>1, <2>2 DEF DequeRingOK
<1>8. Along(q.data, c, s, n - 1) = WithoutLast(Along(d, c, s, n))
  <2>1. Becomes(d, q.data, Wrap(s + n - 1, c), EMPTY)
    BY <1>2, <1>5
  <2> HIDE DEF c, n, d, s
  <2>. QED
    BY <1>1, <1>5, <2>1, PoppedLast
<1>9. DequeItems(q) = WithoutLast(DequeItems(r))
    BY <1>4, <1>6, <1>8 DEF DequeItems
<1>. QED
    BY <1>7, <1>9 DEF q

(***************************************************************************)
(* The links of a chain with one node more or less.                        *)
(***************************************************************************)
SameLinks(new, old, S, link) == \A q \in S : new[q][link] = old[q][link]
Relinked(new, old, S, link, p, x) ==
    \A q \in S : new[q][link] = IF q = p THEN x ELSE old[q][link]

LEMMA LinksFurther ==
    ASSUME NEW less, NEW more, NEW n \in Nat, NEW path, NEW node, NEW link, Visits(less, path, n)
    PROVE  /\ Follows(less, path, n, link) /\ Relinked(more, less, DOMAIN less, link, path[n], node)
                => Follows(more, Further(path, n, node), n + 1, link)
           /\ Precedes(less, path, n, link) /\ SameLinks(more, less, DOMAIN less, link)
              /\ (n # 0 => more[node][link] = path[n])
                => Precedes(more, Further(path, n, node), n + 1, link)
<1> DEFINE longer == Further(path, n, node)
<1>1. /\ longer[n + 1] = node /\ n + 1 \in Nat
      /\ \A i \in 1..n : longer[i] = path[i] /\ path[i] \in DOMAIN less
    BY DEF Further, Visits
<1> HIDE DEF longer
<1>2. ASSUME Follows(less, path, n, link), Relinked(more, less, DOMAIN less, link, path[n], node)
      PROVE  Follows(more, longer, n + 1, link)
  <2> SUFFICES ASSUME NEW i \in 1..n
               PROVE  more[longer[i]][link] = longer[i + 1]
    BY DEF Follows
  <2>1. more[path[i]][link] = IF path[i] = path[n] THEN node ELSE less[path[i]][link]
    BY <1>1, <1>2 DEF Relinked
  <2>2. CASE i = n
    BY <1>1, <2>1, <2>2
  <2>3. CASE i # n
    <3>1. i + 1 \in 1..n /\ n \in 1..n
      BY <2>3
    <3>2. path[i] # path[n]
      BY <2>3, <3>1 DEF Visits
    <3>3. less[path[i]][link] = path[i + 1]
      BY <1>2, <3>1 DEF Follows
    <3>. QED
      BY <1>1, <2>1, <3>1, <3>2, <3>3
  <2>. QED
    BY <2>2, <2>3
<1>3. ASSUME Precedes(less, path, n, link), SameLinks(more, less, DOMAIN less, link),
             n # 0 => more[node][link] = path[n]
      PROVE  Precedes(more, longer, n + 1, link)
  <2> SUFFICES ASSUME NEW i \in 1..n
               PROVE  more[longer[i + 1]][link] = longer[i]
    BY DEF Precedes
  <2>1. CASE i = n
    BY <1>1, <1>3, <2>1
  <2>2. CASE i # n
    <3>1. i + 1 \in 1..n
      BY <2>2
    <3>2. less[path[i + 1]][link] = path[i]
      BY <1>3, <3>1 DEF Precedes
    <3>3. more[path[i + 1]][link] = less[path[i + 1]][link]
      BY <1>1, <1>3, <3>1 DEF SameLinks
    <3>. QED
      BY <1>1, <3>1, <3>2, <3>3
  <2>. QED
    BY <2>1, <2>2
<1>. QED
    BY <1>2, <1>3 DEF longer

LEMMA LinksEarlier ==
    ASSUME NEW less, NEW more, NEW n \in Nat, NEW path, NEW node, NEW link, Visits(less, path, n)
    PROVE  /\ Follows(less, path, n, link) /\ SameLinks(more, less, DOMAIN less, link)
              /\ (n # 0 => more[node][link] = path[1])
                => Follows(more, Earlier(path, n, node), n + 1, link)
           /\ Precedes(less, path, n, link)
              /\ Relinked(more, less, DOMAIN less, link, path[1], node)
                => Precedes(more, Earlier(path, n, node), n + 1, link)
<1> DEFINE longer == Earlier(path, n, node)
<1>1. /\ longer[1] = node /\ n + 1 \in Nat
      /\ \A i \in 1..n : longer[i + 1] = path[i] /\ path[i] \in DOMAIN less
    BY DEF Earlier, Visits
<1> HIDE DEF longer
<1>2. ASSUME Follows(less, path, n, link), SameLinks(more, less, DOMAIN less, link),
             n # 0 => more[node][link] = path[1]
      PROVE  Follows(more, longer, n + 1, link)
  <2> SUFFICES ASSUME NEW i \in 1..n
               PROVE  more[longer[i]][link] = longer[i + 1]
    BY DEF Follows
  <2>1. CASE i = 1
    BY <1>1, <1>2, <2>1
  <2>2. CASE i # 1
    <3>1. i - 1 \in 1..n /\ (i - 1) + 1 = i
      BY <2>2
    <3>2. less[path[i - 1]][link] = path[i]
      BY <1>2, <3>1 DEF Follows
    <3>3. longer[i] = path[i - 1] /\ path[i - 1] \in DOMAIN less
      BY <1>1, <3>1
    <3>4. more[path[i - 1]][link] = less[path[i - 1]][link]
      BY <1>2, <3>3 DEF SameLinks
    <3>. QED
      BY <1>1, <3>2, <3>3, <3>4
  <2>. QED
    BY <2>1, <2>2
<1>3. ASSUME Precedes(less, path, n, link), Relinked(more, less, DOMAIN less, link, path[1], node)
      PROVE  Precedes(more, longer, n + 1, link)
  <2> SUFFICES ASSUME NEW i \in 1..n
               PROVE  more[longer[i + 1]][link] = longer[i]
    BY DEF Precedes
  <2>1. more[path[i]][link] = IF path[i] = path[1] THEN node ELSE less[path[i]][link]
    BY <1>1, <1>3 DEF Relinked
  <2>2. CASE i = 1
    BY <1>1, <2>1, <2>2
  <2>3. CASE i # 1
    <3>1. i - 1 \in 1..n /\ (i - 1) + 1 = i /\ 1 \in 1..n
      BY <2>3
    <3>2. path[i] # path[1]
      BY <2>3, <3>1 DEF Visits
    <3>3. less[path[i]][link] = path[i - 1]
      BY <1>3, <3>1 DEF Precedes
    <3>4. longer[i] = path[i - 1]
      BY <1>1, <3>1
    <3>. QED
      BY <1>1, <2>1, <3>2, <3>3, <3>4
  <2>. QED
    BY <2>2, <2>3
<1>. QED
    BY <1>2, <1>3 DEF longer

LEMMA LinksLater ==
    ASSUME NEW less, NEW more, NEW n \in Nat, n # 0, NEW path, NEW link, NEW x,
           Visits(more, path, n), Visits(less, Later(path, n), n - 1)
    PROVE  /\ Follows(more, path, n, link) /\ SameLinks(less, more, DOMAIN less, link)
                => Follows(less, Later(path, n), n - 1, link)
           /\ Precedes(more, path, n, link)
              /\ Relinked(less, more, DOMAIN less, link, path[2], x)
                => Precedes(less, Later(path, n), n - 1, link)
<1> DEFINE m == n - 1
           shorter == Later(path, n)
<1>1. /\ m \in Nat /\ n - 1 = m
      /\ \A i \in 1..m : shorter[i] = path[i + 1] /\ i + 1 \in 1..n /\ shorter[i] \in DOMAIN less
      /\ \A i \in 1..m : i + 1 \in 1..m => (i + 1) + 1 \in 1..n
    BY DEF Later, Visits
<1> HIDE DEF shorter, m
<1>2. ASSUME Follows(more, path, n, link), SameLinks(less, more, DOMAIN less, link)
      PROVE  Follows(less, shorter, m, link)
  <2> SUFFICES ASSUME NEW i \in 1..m, i + 1 \in 1..m
               PROVE  less[shorter[i]][link] = shorter[i + 1]
    BY DEF Follows
  <2>1. more[path[i + 1]][link] = path[(i + 1) + 1]
    BY <1>1, <1>2 DEF Follows
  <2>2. less[shorter[i]][link] = more[shorter[i]][link]
    BY <1>1, <1>2 DEF SameLinks
  <2>. QED
    BY <1>1, <2>1, <2>2
<1>3. ASSUME Precedes(more, path, n, link),
             Relinked(less, more, DOMAIN less, link, path[2], x)
      PROVE  Precedes(less, shorter, m, link)
  <2> SUFFICES ASSUME NEW i \in 1..m, i + 1 \in 1..m
               PROVE  less[shorter[i + 1]][link] = shorter[i]
    BY DEF Precedes
  <2>1. more[path[(i + 1) + 1]][link] = path[i + 1]
    BY <1>1, <1>3 DEF Precedes
  <2>2. shorter[i + 1] = path[(i + 1) + 1]
    BY <1>1
  <2>3. path[(i + 1) + 1] # path[2]
    <3>1. 2 \in 1..n /\ (i + 1) + 1 \in 1..n /\ (i + 1) + 1 # 2
      BY <1>1
    <3>. QED
      BY <3>1 DEF Visits
  <2>4. less[shorter[i + 1]][link] = more[shorter[i + 1]][link]
    BY <1>1, <1>3, <2>2, <2>3 DEF Relinked
  <2>. QED
    BY <1>1, <2>1, <2>2, <2>4
<1>. QED
    BY <1>2, <1>3 DEF shorter, m

LEMMA LinksShorter ==
    ASSUME NEW less, NEW more, NEW n \in Nat, n # 0, NEW path, NEW link, NEW x,
           Visits(more, path, n), Visits(less, Shorter(path, n), n - 1)
    PROVE  /\ Follows(more, path, n, link)
              /\ Relinked(less, more, DOMAIN less, link, path[n - 1], x)
                => Follows(less, Shorter(path, n), n - 1, link)
           /\ Precedes(more, path, n, link) /\ SameLinks(less, more, DOMAIN less, link)
                => Precedes(less, Shorter(path, n), n - 1, link)
<1> DEFINE m == n - 1
           shorter == Shorter(path, n)
<1>1. /\ m \in Nat /\ n - 1 = m
      /\ \A i \in 1..m : shorter[i] = path[i] /\ i \in 1..n /\ shorter[i] \in DOMAIN less
      /\ \A i \in 1..m : i + 1 \in 1..m => i + 1 \in 1..n /\ m \in 1..n /\ i # m
    BY DEF Shorter, Visits
<1> HIDE DEF shorter, m
<1>2. ASSUME Follows(more, path, n, link), Relinked(less, more, DOMAIN less, link, path[m], x)
      PROVE  Follows(less, shorter, m, link)
  <2> SUFFICES ASSUME NEW i \in 1..m, i + 1 \in 1..m
               PROVE  less[shorter[i]][link] = shorter[i + 1]
    BY DEF Follows
  <2>1. more[path[i]][link] = path[i + 1]
    BY <1>1, <1>2 DEF Follows
  <2>2. path[i] # path[m]
    BY <1>1 DEF Visits
  <2>3. less[shorter[i]][link] = more[shorter[i]][link]
    BY <1>1, <1>2, <2>2 DEF Relinked
  <2>. QED
    BY <1>1, <2>1, <2>3
<1>3. ASSUME Precedes(more, path, n, link), SameLinks(less, more, DOMAIN less, link)
      PROVE  Precedes(less, shorter, m, link)
  <2> SUFFICES ASSUME NEW i \in 1..m, i + 1 \in 1..m
               PROVE  less[shorter[i + 1]][link] = shorter[i]
    BY DEF Precedes
  <2>1. more[path[i + 1]][link] = path[i]
    BY <1>1, <1>3 DEF Precedes
  <2>2. less[shorter[i + 1]][link] = more[shorter[i + 1]][link]
    BY <1>1, <1>3 DEF SameLinks
  <2>. QED
    BY <1>1, <2>1, <2>2
<1>. QED
    BY <1>1, <1>2, <1>3 DEF shorter

(***************************************************************************)
(* LinkedListDeque.                                                        *)
(***************************************************************************)
DequeNodes(nodes) ==
    /\ DOMAIN nodes \subseteq Nat
    /\ nodes = [q \in DOMAIN nodes |->
                  [val |-> nodes[q].val, pre |-> nodes[q].pre, next |-> nodes[q].next]]

\* The links and the pointers to both ends; the outer links of the ends point nowhere.
DequeLinks(nodes, front, rear, path, n) ==
    /\ Follows(nodes, path, n, "next") /\ Precedes(nodes, path, n, "pre")
    /\ IF n = 0 THEN front = NOWHERE /\ rear = NOWHERE
       ELSE /\ front = path[1] /\ nodes[path[1]].pre = NOWHERE
            /\ rear = path[n] /\ nodes[path[n]].next = NOWHERE

DequeChainOK(ch, path) ==
    /\ ch = [nodes |-> ch.nodes, front |-> ch.front, rear |-> ch.rear, size |-> ch.size]
    /\ ch.size \in Nat
    /\ DequeNodes(ch.nodes)
    /\ Visits(ch.nodes, path, ch.size) /\ HoldsValues(ch.nodes, ch.size, path)
    /\ DequeLinks(ch.nodes, ch.front, ch.rear, path, ch.size)

LinkedBack(nodes, v, rear, n, node) ==
    Linked!With(IF n = 0 THEN nodes ELSE [nodes EXCEPT ![rear].next = node],
                node, Deques!Node(v, IF n = 0 THEN NOWHERE ELSE rear, NOWHERE))
LinkedFront(nodes, v, front, n, node) ==
    Linked!With(IF n = 0 THEN nodes ELSE [nodes EXCEPT ![front].pre = node],
                node, Deques!Node(v, NOWHERE, IF n = 0 THEN NOWHERE ELSE front))

DequeLinkedBack(ch, v, node) ==
    [nodes |-> LinkedBack(ch.nodes, v, ch.rear, ch.size, node),
     front |-> IF ch.size = 0 THEN node ELSE ch.front,
     rear |-> node, size |-> ch.size + 1]
DequeLinkedFront(ch, v, node) ==
    [nodes |-> LinkedFront(ch.nodes, v, ch.front, ch.size, node),
     front |-> node,
     rear |-> IF ch.size = 0 THEN node ELSE ch.rear, size |-> ch.size + 1]

\* What a pop leaves: the node next to the one that goes points nowhere on that side.
UnlinkedFront(nodes, front) ==
    LET next == nodes[front].next
        left == Linked!Deleted(nodes, front)
    IN  IF next = NOWHERE THEN left ELSE [left EXCEPT ![next].pre = NOWHERE]
UnlinkedBack(nodes, rear) ==
    LET pre == nodes[rear].pre
        left == Linked!Deleted(nodes, rear)
    IN  IF pre = NOWHERE THEN left ELSE [left EXCEPT ![pre].next = NOWHERE]

DequeUnlinkedFront(ch) ==
    [nodes |-> UnlinkedFront(ch.nodes, ch.front), front |-> ch.nodes[ch.front].next,
     rear |-> IF ch.size = 1 THEN NOWHERE ELSE ch.rear, size |-> ch.size - 1]
DequeUnlinkedBack(ch) ==
    [nodes |-> UnlinkedBack(ch.nodes, ch.rear),
     front |-> IF ch.size = 1 THEN NOWHERE ELSE ch.front,
     rear |-> ch.nodes[ch.rear].pre, size |-> ch.size - 1]

LEMMA LinkedBackIs ==
    ASSUME NEW less, DequeNodes(less), NEW v, NEW rear, NEW n, NEW node \in Nat,
           node \notin DOMAIN less
    PROVE  LET more == LinkedBack(less, v, rear, n, node)
           IN  /\ DequeNodes(more) /\ Extends(more, less, node, v)
               /\ more[node].pre = (IF n = 0 THEN NOWHERE ELSE rear)
               /\ more[node].next = NOWHERE
               /\ SameLinks(more, less, DOMAIN less, "pre")
               /\ n # 0 => Relinked(more, less, DOMAIN less, "next", rear, node)
<1> DEFINE linked == IF n = 0 THEN less ELSE [less EXCEPT ![rear].next = node]
           more == LinkedBack(less, v, rear, n, node)
           pre == IF n = 0 THEN NOWHERE ELSE rear
           link(q) == IF n # 0 /\ q = rear THEN node ELSE less[q].next
<1>1. /\ DOMAIN less \subseteq Nat
      /\ less = [q \in DOMAIN less |-> [val |-> less[q].val, pre |-> less[q].pre,
                                        next |-> less[q].next]]
    BY DEF DequeNodes
<1>2. /\ DOMAIN linked = DOMAIN less
      /\ \A q \in DOMAIN less :
            linked[q] = [val |-> less[q].val, pre |-> less[q].pre,
                         next |-> link(q)]
    BY <1>1
<1>3. more = Linked!With(linked, node, [val |-> v, pre |-> pre, next |-> NOWHERE])
    BY DEF LinkedBack, Deques!Node
<1> HIDE DEF linked, more, pre
<1>4. /\ DOMAIN more = DOMAIN less \cup {node}
      /\ more[node] = [val |-> v, pre |-> pre, next |-> NOWHERE]
      /\ \A q \in DOMAIN less : more[q] = linked[q]
      /\ more = [q \in DOMAIN more |-> more[q]]
    BY <1>2, <1>3 DEF Linked!With
<1>5. \A q \in DOMAIN less :
        more[q] = [val |-> less[q].val, pre |-> less[q].pre,
                   next |-> link(q)]
    BY <1>2, <1>4
<1> HIDE DEF link
<1>6. DequeNodes(more)
  <2>1. \A q \in DOMAIN more :
          more[q] = [val |-> more[q].val, pre |-> more[q].pre, next |-> more[q].next]
    BY <1>4, <1>5
  <2>2. DOMAIN more \subseteq Nat
    BY <1>1, <1>4
  <2>3. more = [q \in DOMAIN more |->
                  [val |-> more[q].val, pre |-> more[q].pre, next |-> more[q].next]]
    BY <1>4, <2>1
  <2>. QED
    BY <2>2, <2>3 DEF DequeNodes
<1>7. Extends(more, less, node, v)
    BY <1>4, <1>5 DEF Extends
<1>8. ASSUME NEW q \in DOMAIN less
       PROVE  more[q].pre = less[q].pre /\ more[q].next = link(q)
  <2>1. more[q] = [val |-> less[q].val, pre |-> less[q].pre, next |-> link(q)]
    BY <1>5
  <2>. QED
    BY <2>1
<1>9. more[node].pre = pre /\ more[node].next = NOWHERE
  <2>1. more[node] = [val |-> v, pre |-> pre, next |-> NOWHERE]
    BY <1>4
  <2>. QED
    BY <2>1
<1>10. SameLinks(more, less, DOMAIN less, "pre")
  <2>1. \A q \in DOMAIN less : more[q].pre = less[q].pre
    BY <1>8
  <2>. QED
    BY <2>1 DEF SameLinks
<1>11. n # 0 => Relinked(more, less, DOMAIN less, "next", rear, node)
  <2>1. \A q \in DOMAIN less : more[q].next = link(q)
    BY <1>8
  <2>. QED
    BY <2>1 DEF Relinked, link
<1>. QED
    BY <1>6, <1>7, <1>9, <1>10, <1>11 DEF more, pre

LEMMA LinkedFrontIs ==
    ASSUME NEW less, DequeNodes(less), NEW v, NEW front, NEW n, NEW node \in Nat,
           node \notin DOMAIN less
    PROVE  LET more == LinkedFront(less, v, front, n, node)
           IN  /\ DequeNodes(more) /\ Extends(more, less, node, v)
               /\ more[node].next = (IF n = 0 THEN NOWHERE ELSE front)
               /\ more[node].pre = NOWHERE
               /\ SameLinks(more, less, DOMAIN less, "next")
               /\ n # 0 => Relinked(more, less, DOMAIN less, "pre", front, node)
<1> DEFINE linked == IF n = 0 THEN less ELSE [less EXCEPT ![front].pre = node]
           more == LinkedFront(less, v, front, n, node)
           next == IF n = 0 THEN NOWHERE ELSE front
           link(q) == IF n # 0 /\ q = front THEN node ELSE less[q].pre
<1>1. /\ DOMAIN less \subseteq Nat
      /\ less = [q \in DOMAIN less |-> [val |-> less[q].val, pre |-> less[q].pre,
                                        next |-> less[q].next]]
    BY DEF DequeNodes
<1>2. /\ DOMAIN linked = DOMAIN less
      /\ \A q \in DOMAIN less :
            linked[q] = [val |-> less[q].val,
                         pre |-> link(q),
                         next |-> less[q].next]
    BY <1>1
<1>3. more = Linked!With(linked, node, [val |-> v, pre |-> NOWHERE, next |-> next])
    BY DEF LinkedFront, Deques!Node
<1> HIDE DEF linked, more, next
<1>4. /\ DOMAIN more = DOMAIN less \cup {node}
      /\ more[node] = [val |-> v, pre |-> NOWHERE, next |-> next]
      /\ \A q \in DOMAIN less : more[q] = linked[q]
      /\ more = [q \in DOMAIN more |-> more[q]]
    BY <1>2, <1>3 DEF Linked!With
<1>5. \A q \in DOMAIN less :
        more[q] = [val |-> less[q].val,
                   pre |-> link(q),
                   next |-> less[q].next]
    BY <1>2, <1>4
<1> HIDE DEF link
<1>6. DequeNodes(more)
  <2>1. \A q \in DOMAIN more :
          more[q] = [val |-> more[q].val, pre |-> more[q].pre, next |-> more[q].next]
    BY <1>4, <1>5
  <2>2. DOMAIN more \subseteq Nat
    BY <1>1, <1>4
  <2>3. more = [q \in DOMAIN more |->
                  [val |-> more[q].val, pre |-> more[q].pre, next |-> more[q].next]]
    BY <1>4, <2>1
  <2>. QED
    BY <2>2, <2>3 DEF DequeNodes
<1>7. Extends(more, less, node, v)
    BY <1>4, <1>5 DEF Extends
<1>8. ASSUME NEW q \in DOMAIN less
       PROVE  more[q].next = less[q].next /\ more[q].pre = link(q)
  <2>1. more[q] = [val |-> less[q].val, pre |-> link(q), next |-> less[q].next]
    BY <1>5
  <2>. QED
    BY <2>1
<1>9. more[node].next = next /\ more[node].pre = NOWHERE
  <2>1. more[node] = [val |-> v, pre |-> NOWHERE, next |-> next]
    BY <1>4
  <2>. QED
    BY <2>1
<1>10. SameLinks(more, less, DOMAIN less, "next")
  <2>1. \A q \in DOMAIN less : more[q].next = less[q].next
    BY <1>8
  <2>. QED
    BY <2>1 DEF SameLinks
<1>11. n # 0 => Relinked(more, less, DOMAIN less, "pre", front, node)
  <2>1. \A q \in DOMAIN less : more[q].pre = link(q)
    BY <1>8
  <2>. QED
    BY <2>1 DEF Relinked, link
<1>. QED
    BY <1>6, <1>7, <1>9, <1>10, <1>11 DEF more, next

LEMMA UnlinkedFrontIs ==
    ASSUME NEW more, DequeNodes(more), NEW front \in DOMAIN more,
           more[front].next \in (DOMAIN more \ {front}) \cup {NOWHERE}
    PROVE  LET less == UnlinkedFront(more, front)
           IN  /\ DequeNodes(less) /\ Extends(more, less, front, more[front].val)
               /\ SameLinks(less, more, DOMAIN less, "next")
               /\ Relinked(less, more, DOMAIN less, "pre", more[front].next, NOWHERE)
<1> DEFINE next == more[front].next
           left == Linked!Deleted(more, front)
           less == UnlinkedFront(more, front)
<1>1. /\ DOMAIN more \subseteq Nat
      /\ more = [q \in DOMAIN more |-> [val |-> more[q].val, pre |-> more[q].pre,
                                        next |-> more[q].next]]
    BY DEF DequeNodes
<1>2. /\ DOMAIN left = DOMAIN more \ {front} /\ \A q \in DOMAIN left : left[q] = more[q]
      /\ left = [q \in DOMAIN left |-> left[q]]
    BY DEF Linked!Deleted
<1>3. less = IF next = NOWHERE THEN left ELSE [left EXCEPT ![next].pre = NOWHERE]
    BY DEF UnlinkedFront
<1>4. NOWHERE \notin DOMAIN more
    BY <1>1, NowhereAssumption
<1> HIDE DEF left, less, next
<1>5. \A q \in DOMAIN left :
        left[q] = [val |-> more[q].val, pre |-> more[q].pre, next |-> more[q].next]
    BY <1>1, <1>2
<1>6. /\ DOMAIN less = DOMAIN left /\ less = [q \in DOMAIN less |-> less[q]]
      /\ \A q \in DOMAIN left :
            less[q] = [val |-> more[q].val, pre |-> IF q = next THEN NOWHERE ELSE more[q].pre,
                       next |-> more[q].next]
  <2>1. CASE next = NOWHERE
    <3>1. less = left /\ \A q \in DOMAIN left : q # next
      BY <1>2, <1>3, <1>4, <2>1
    <3>. QED
      BY <1>2, <1>5, <3>1
  <2>2. CASE next # NOWHERE
    <3>1. less = [left EXCEPT ![next].pre = NOWHERE] /\ next \in DOMAIN left
      BY <1>2, <1>3, <2>2 DEF next
    <3>2. /\ DOMAIN less = DOMAIN left /\ less = [q \in DOMAIN less |-> less[q]]
          /\ \A q \in DOMAIN left :
                less[q] = IF q = next THEN [left[q] EXCEPT !.pre = NOWHERE] ELSE left[q]
      BY <3>1
    <3>3. ASSUME NEW q \in DOMAIN left
          PROVE  [left[q] EXCEPT !.pre = NOWHERE]
                   = [val |-> more[q].val, pre |-> NOWHERE, next |-> more[q].next]
      <4>1. left[q] = [val |-> more[q].val, pre |-> more[q].pre, next |-> more[q].next]
        BY <1>5
      <4>. QED
        BY <4>1
    <3>. QED
      BY <1>5, <3>2, <3>3
  <2>. QED
    BY <2>1, <2>2
<1>7. DequeNodes(less)
  <2>1. \A q \in DOMAIN less :
          less[q] = [val |-> less[q].val, pre |-> less[q].pre, next |-> less[q].next]
    BY <1>6
  <2>2. DOMAIN less \subseteq Nat
    BY <1>1, <1>2, <1>6
  <2>3. less = [q \in DOMAIN less |->
                  [val |-> less[q].val, pre |-> less[q].pre, next |-> less[q].next]]
    BY <1>6, <2>1
  <2>. QED
    BY <2>2, <2>3 DEF DequeNodes
<1>8. Extends(more, less, front, more[front].val)
  <2>1. DOMAIN more = DOMAIN less \cup {front} /\ front \notin DOMAIN less
    BY <1>2, <1>6
  <2>2. \A q \in DOMAIN less : more[q].val = less[q].val
    BY <1>6
  <2>. QED
    BY <2>1, <2>2 DEF Extends
<1>9. SameLinks(less, more, DOMAIN less, "next")
  <2>1. \A q \in DOMAIN less : less[q].next = more[q].next
    BY <1>6
  <2>. QED
    BY <2>1 DEF SameLinks
<1>10. Relinked(less, more, DOMAIN less, "pre", next, NOWHERE)
    BY <1>6 DEF Relinked
<1>. QED
    BY <1>7, <1>8, <1>9, <1>10 DEF less, next

LEMMA UnlinkedBackIs ==
    ASSUME NEW more, DequeNodes(more), NEW rear \in DOMAIN more,
           more[rear].pre \in (DOMAIN more \ {rear}) \cup {NOWHERE}
    PROVE  LET less == UnlinkedBack(more, rear)
           IN  /\ DequeNodes(less) /\ Extends(more, less, rear, more[rear].val)
               /\ SameLinks(less, more, DOMAIN less, "pre")
               /\ Relinked(less, more, DOMAIN less, "next", more[rear].pre, NOWHERE)
<1> DEFINE pre == more[rear].pre
           left == Linked!Deleted(more, rear)
           less == UnlinkedBack(more, rear)
<1>1. /\ DOMAIN more \subseteq Nat
      /\ more = [q \in DOMAIN more |-> [val |-> more[q].val, pre |-> more[q].pre,
                                        next |-> more[q].next]]
    BY DEF DequeNodes
<1>2. /\ DOMAIN left = DOMAIN more \ {rear} /\ \A q \in DOMAIN left : left[q] = more[q]
      /\ left = [q \in DOMAIN left |-> left[q]]
    BY DEF Linked!Deleted
<1>3. less = IF pre = NOWHERE THEN left ELSE [left EXCEPT ![pre].next = NOWHERE]
    BY DEF UnlinkedBack
<1>4. NOWHERE \notin DOMAIN more
    BY <1>1, NowhereAssumption
<1> HIDE DEF left, less, pre
<1>5. \A q \in DOMAIN left :
        left[q] = [val |-> more[q].val, pre |-> more[q].pre, next |-> more[q].next]
    BY <1>1, <1>2
<1>6. /\ DOMAIN less = DOMAIN left /\ less = [q \in DOMAIN less |-> less[q]]
      /\ \A q \in DOMAIN left :
            less[q] = [val |-> more[q].val, pre |-> more[q].pre,
                       next |-> IF q = pre THEN NOWHERE ELSE more[q].next]
  <2>1. CASE pre = NOWHERE
    <3>1. less = left /\ \A q \in DOMAIN left : q # pre
      BY <1>2, <1>3, <1>4, <2>1
    <3>. QED
      BY <1>2, <1>5, <3>1
  <2>2. CASE pre # NOWHERE
    <3>1. less = [left EXCEPT ![pre].next = NOWHERE] /\ pre \in DOMAIN left
      BY <1>2, <1>3, <2>2 DEF pre
    <3>2. /\ DOMAIN less = DOMAIN left /\ less = [q \in DOMAIN less |-> less[q]]
          /\ \A q \in DOMAIN left :
                less[q] = IF q = pre THEN [left[q] EXCEPT !.next = NOWHERE] ELSE left[q]
      BY <3>1
    <3>3. ASSUME NEW q \in DOMAIN left
          PROVE  [left[q] EXCEPT !.next = NOWHERE]
                   = [val |-> more[q].val, next |-> NOWHERE, pre |-> more[q].pre]
      <4>1. left[q] = [val |-> more[q].val, pre |-> more[q].pre, next |-> more[q].next]
        BY <1>5
      <4>. QED
        BY <4>1
    <3>. QED
      BY <1>5, <3>2, <3>3
  <2>. QED
    BY <2>1, <2>2
<1>7. DequeNodes(less)
  <2>1. \A q \in DOMAIN less :
          less[q] = [val |-> less[q].val, pre |-> less[q].pre, next |-> less[q].next]
    BY <1>6
  <2>2. DOMAIN less \subseteq Nat
    BY <1>1, <1>2, <1>6
  <2>3. less = [q \in DOMAIN less |->
                  [val |-> less[q].val, pre |-> less[q].pre, next |-> less[q].next]]
    BY <1>6, <2>1
  <2>. QED
    BY <2>2, <2>3 DEF DequeNodes
<1>8. Extends(more, less, rear, more[rear].val)
  <2>1. DOMAIN more = DOMAIN less \cup {rear} /\ rear \notin DOMAIN less
    BY <1>2, <1>6
  <2>2. \A q \in DOMAIN less : more[q].val = less[q].val
    BY <1>6
  <2>. QED
    BY <2>1, <2>2 DEF Extends
<1>9. SameLinks(less, more, DOMAIN less, "pre")
  <2>1. \A q \in DOMAIN less : less[q].pre = more[q].pre
    BY <1>6
  <2>. QED
    BY <2>1 DEF SameLinks
<1>10. Relinked(less, more, DOMAIN less, "next", pre, NOWHERE)
    BY <1>6 DEF Relinked
<1>. QED
    BY <1>7, <1>8, <1>9, <1>10 DEF less, pre

(***************************************************************************)
(* The four calls on the chain.                                            *)
(***************************************************************************)
LEMMA DequeChainParts ==
    ASSUME NEW ch, NEW path, DequeChainOK(ch, path)
    PROVE  /\ ch.size \in Nat /\ DequeNodes(ch.nodes)
           /\ Visits(ch.nodes, path, ch.size) /\ HoldsValues(ch.nodes, ch.size, path)
           /\ Follows(ch.nodes, path, ch.size, "next") /\ Precedes(ch.nodes, path, ch.size, "pre")
           /\ ch.size = 0 => ch.front = NOWHERE /\ ch.rear = NOWHERE
           /\ ch.size # 0 => /\ ch.front = path[1] /\ ch.nodes[path[1]].pre = NOWHERE
                             /\ ch.rear = path[ch.size]
                             /\ ch.nodes[path[ch.size]].next = NOWHERE
BY DEF DequeChainOK, DequeLinks

LEMMA DequeLinksBack ==
    ASSUME NEW ch, NEW path, DequeChainOK(ch, path), NEW v \in Pushed,
           NEW node \in Nat, node \notin DOMAIN ch.nodes
    PROVE  LET new == DequeLinkedBack(ch, v, node)
               longer == Further(path, ch.size, node)
           IN  /\ DequeChainOK(new, longer)
               /\ Vals(new.nodes, longer, new.size) = WithLast(Vals(ch.nodes, path, ch.size), v)
<1> DEFINE n == ch.size
           less == ch.nodes
           more == LinkedBack(less, v, ch.rear, n, node)
           longer == Further(path, n, node)
           new == DequeLinkedBack(ch, v, node)
<1>1. /\ n \in Nat /\ DequeNodes(less) /\ Visits(less, path, n) /\ HoldsValues(less, n, path)
      /\ Follows(less, path, n, "next") /\ Precedes(less, path, n, "pre")
      /\ n = 0 => ch.front = NOWHERE /\ ch.rear = NOWHERE
      /\ n # 0 => /\ ch.front = path[1] /\ less[path[1]].pre = NOWHERE
                  /\ ch.rear = path[n] /\ less[path[n]].next = NOWHERE
    BY DequeChainParts
<1>2. /\ new.nodes = more /\ new.rear = node /\ new.size = n + 1
      /\ new.front = IF n = 0 THEN node ELSE ch.front
      /\ new = [nodes |-> new.nodes, front |-> new.front, rear |-> new.rear, size |-> new.size]
    BY DEF DequeLinkedBack
<1> HIDE DEF new
<1>3. node \notin DOMAIN less
    OBVIOUS
<1> HIDE DEF less, n
<1>4. /\ DequeNodes(more) /\ Extends(more, less, node, v)
      /\ more[node].pre = (IF n = 0 THEN NOWHERE ELSE ch.rear)
      /\ more[node].next = NOWHERE
      /\ SameLinks(more, less, DOMAIN less, "pre")
      /\ n # 0 => Relinked(more, less, DOMAIN less, "next", ch.rear, node)
    BY <1>1, <1>3, LinkedBackIs
<1> HIDE DEF more, longer
<1>5. /\ Visits(more, longer, n + 1) /\ HoldsValues(more, n + 1, longer)
      /\ Vals(more, longer, n + 1) = WithLast(Vals(less, path, n), v)
  <2>1. n \in Nat /\ Visits(less, path, n) /\ HoldsValues(less, n, path)
    BY <1>1
  <2>2. Extends(more, less, node, v)
    BY <1>4
  <2>3. /\ Visits(more, Further(path, n, node), n + 1)
        /\ HoldsValues(more, n + 1, Further(path, n, node))
        /\ Vals(more, Further(path, n, node), n + 1) = WithLast(Vals(less, path, n), v)
    BY <2>1, <2>2, AddedLast
  <2>. QED
    BY <2>3 DEF longer
<1>6. /\ longer[n + 1] = node /\ n + 1 \in Nat /\ n + 1 # 0
      /\ \A i \in 1..n : longer[i] = path[i] /\ path[i] \in DOMAIN less
      /\ n = 0 => longer[1] = node
      /\ n # 0 => longer[1] = path[1] /\ path[1] \in DOMAIN less
    BY <1>1 DEF longer, Further, Visits
<1>7. Relinked(more, less, DOMAIN less, "next", path[n], node)
  <2>1. CASE n = 0
    <3>1. DOMAIN less = {}
      BY <1>1, <2>1, NothingVisited
    <3>. QED
      BY <3>1 DEF Relinked
  <2>2. CASE n # 0
    BY <1>1, <1>4, <2>2
  <2>. QED
    BY <2>1, <2>2
<1>8. Follows(more, longer, n + 1, "next") /\ Precedes(more, longer, n + 1, "pre")
  <2>1. n # 0 => more[node].pre = path[n]
    BY <1>1, <1>4
  <2>2. Follows(more, Further(path, n, node), n + 1, "next")
    BY <1>1, <1>4, <1>7, <2>1, LinksFurther
  <2>3. Precedes(more, Further(path, n, node), n + 1, "pre")
    BY <1>1, <1>4, <1>7, <2>1, LinksFurther
  <2>. QED
    BY <2>2, <2>3 DEF longer
<1>9. /\ new.rear = longer[n + 1] /\ more[longer[n + 1]].next = NOWHERE
      /\ new.front = longer[1] /\ more[longer[1]].pre = NOWHERE
  <2>1. CASE n = 0
    BY <1>2, <1>4, <1>6, <2>1
  <2>2. CASE n # 0
    <3>1. more[path[1]].pre = less[path[1]].pre
      BY <1>4, <1>6, <2>2 DEF SameLinks
    <3>. QED
      BY <1>1, <1>2, <1>4, <1>6, <2>2, <3>1
  <2>. QED
    BY <2>1, <2>2
<1>10. DequeLinks(new.nodes, new.front, new.rear, longer, new.size)
    BY <1>2, <1>6, <1>8, <1>9 DEF DequeLinks
<1>11. DequeChainOK(new, longer)
    BY <1>2, <1>4, <1>5, <1>6, <1>10 DEF DequeChainOK
<1>12. Vals(new.nodes, longer, new.size) = WithLast(Vals(less, path, n), v)
    BY <1>2, <1>5
<1>. QED
    BY <1>11, <1>12 DEF new, longer, n, less

LEMMA DequeLinksFront ==
    ASSUME NEW ch, NEW path, DequeChainOK(ch, path), NEW v \in Pushed,
           NEW node \in Nat, node \notin DOMAIN ch.nodes
    PROVE  LET new == DequeLinkedFront(ch, v, node)
               longer == Earlier(path, ch.size, node)
           IN  /\ DequeChainOK(new, longer)
               /\ Vals(new.nodes, longer, new.size) = WithFirst(v, Vals(ch.nodes, path, ch.size))
<1> DEFINE n == ch.size
           less == ch.nodes
           more == LinkedFront(less, v, ch.front, n, node)
           longer == Earlier(path, n, node)
           new == DequeLinkedFront(ch, v, node)
<1>1. /\ n \in Nat /\ DequeNodes(less) /\ Visits(less, path, n) /\ HoldsValues(less, n, path)
      /\ Follows(less, path, n, "next") /\ Precedes(less, path, n, "pre")
      /\ n = 0 => ch.front = NOWHERE /\ ch.rear = NOWHERE
      /\ n # 0 => /\ ch.front = path[1] /\ less[path[1]].pre = NOWHERE
                  /\ ch.rear = path[n] /\ less[path[n]].next = NOWHERE
    BY DequeChainParts
<1>2. /\ new.nodes = more /\ new.front = node /\ new.size = n + 1
      /\ new.rear = IF n = 0 THEN node ELSE ch.rear
      /\ new = [nodes |-> new.nodes, front |-> new.front, rear |-> new.rear, size |-> new.size]
    BY DEF DequeLinkedFront
<1> HIDE DEF new
<1>3. node \notin DOMAIN less
    OBVIOUS
<1> HIDE DEF less, n
<1>4. /\ DequeNodes(more) /\ Extends(more, less, node, v)
      /\ more[node].next = (IF n = 0 THEN NOWHERE ELSE ch.front)
      /\ more[node].pre = NOWHERE
      /\ SameLinks(more, less, DOMAIN less, "next")
      /\ n # 0 => Relinked(more, less, DOMAIN less, "pre", ch.front, node)
    BY <1>1, <1>3, LinkedFrontIs
<1> HIDE DEF more, longer
<1>5. /\ Visits(more, longer, n + 1) /\ HoldsValues(more, n + 1, longer)
      /\ Vals(more, longer, n + 1) = WithFirst(v, Vals(less, path, n))
  <2>1. n \in Nat /\ Visits(less, path, n) /\ HoldsValues(less, n, path)
    BY <1>1
  <2>2. Extends(more, less, node, v)
    BY <1>4
  <2>3. /\ Visits(more, Earlier(path, n, node), n + 1)
        /\ HoldsValues(more, n + 1, Earlier(path, n, node))
        /\ Vals(more, Earlier(path, n, node), n + 1) = WithFirst(v, Vals(less, path, n))
    BY <2>1, <2>2, AddedFirst
  <2>. QED
    BY <2>3 DEF longer
<1>6. /\ longer[1] = node /\ n + 1 \in Nat /\ n + 1 # 0
      /\ \A i \in 1..n : longer[i + 1] = path[i] /\ path[i] \in DOMAIN less
      /\ n = 0 => longer[n + 1] = node
      /\ n # 0 => longer[n + 1] = path[n] /\ path[n] \in DOMAIN less
    BY <1>1 DEF longer, Earlier, Visits
<1>7. Relinked(more, less, DOMAIN less, "pre", path[1], node)
  <2>1. CASE n = 0
    <3>1. DOMAIN less = {}
      BY <1>1, <2>1, NothingVisited
    <3>. QED
      BY <3>1 DEF Relinked
  <2>2. CASE n # 0
    BY <1>1, <1>4, <2>2
  <2>. QED
    BY <2>1, <2>2
<1>8. Follows(more, longer, n + 1, "next") /\ Precedes(more, longer, n + 1, "pre")
  <2>1. n # 0 => more[node].next = path[1]
    BY <1>1, <1>4
  <2>2. Follows(more, Earlier(path, n, node), n + 1, "next")
    BY <1>1, <1>4, <1>7, <2>1, LinksEarlier
  <2>3. Precedes(more, Earlier(path, n, node), n + 1, "pre")
    BY <1>1, <1>4, <1>7, <2>1, LinksEarlier
  <2>. QED
    BY <2>2, <2>3 DEF longer
<1>9. /\ new.front = longer[1] /\ more[longer[1]].pre = NOWHERE
      /\ new.rear = longer[n + 1] /\ more[longer[n + 1]].next = NOWHERE
  <2>1. CASE n = 0
    BY <1>2, <1>4, <1>6, <2>1
  <2>2. CASE n # 0
    <3>1. more[path[n]].next = less[path[n]].next
      BY <1>4, <1>6, <2>2 DEF SameLinks
    <3>. QED
      BY <1>1, <1>2, <1>4, <1>6, <2>2, <3>1
  <2>. QED
    BY <2>1, <2>2
<1>10. DequeLinks(new.nodes, new.front, new.rear, longer, new.size)
    BY <1>2, <1>6, <1>8, <1>9 DEF DequeLinks
<1>11. DequeChainOK(new, longer)
    BY <1>2, <1>4, <1>5, <1>6, <1>10 DEF DequeChainOK
<1>12. Vals(new.nodes, longer, new.size) = WithFirst(v, Vals(less, path, n))
    BY <1>2, <1>5
<1>. QED
    BY <1>11, <1>12 DEF new, longer, n, less

LEMMA DequeUnlinksFront ==
    ASSUME NEW ch, NEW path, DequeChainOK(ch, path), ch.size # 0
    PROVE  LET new == DequeUnlinkedFront(ch)
               shorter == Later(path, ch.size)
           IN  /\ DequeChainOK(new, shorter)
               /\ Vals(new.nodes, shorter, new.size) = WithoutFirst(Vals(ch.nodes, path, ch.size))
<1> DEFINE n == ch.size
           m == n - 1
           more == ch.nodes
           less == UnlinkedFront(more, ch.front)
           shorter == Later(path, n)
           new == DequeUnlinkedFront(ch)
<1>1. /\ n \in Nat /\ n # 0 /\ DequeNodes(more) /\ Visits(more, path, n)
      /\ HoldsValues(more, n, path)
      /\ Follows(more, path, n, "next") /\ Precedes(more, path, n, "pre")
      /\ ch.front = path[1] /\ more[path[1]].pre = NOWHERE
      /\ ch.rear = path[n] /\ more[path[n]].next = NOWHERE
    BY DequeChainParts
<1>2. /\ new.nodes = less /\ new.size = m /\ new.front = more[ch.front].next
      /\ new.rear = IF n = 1 THEN NOWHERE ELSE ch.rear
      /\ new = [nodes |-> new.nodes, front |-> new.front, rear |-> new.rear, size |-> new.size]
    BY DEF DequeUnlinkedFront
<1> HIDE DEF new, less, more, n
<1>3. /\ m \in Nat /\ 1 \in 1..n /\ n \in 1..n
      /\ \A i \in 1..m : shorter[i] = path[i + 1] /\ i \in 1..n /\ i + 1 \in 1..n
      /\ \A i \in 1..n : path[i] \in DOMAIN more
    BY <1>1 DEF Later, Visits
<1>4. m # 0 => more[ch.front].next = path[2] /\ path[2] \in DOMAIN more
               /\ path[2] # path[1]
  <2> SUFFICES ASSUME m # 0
               PROVE  more[ch.front].next = path[2] /\ path[2] \in DOMAIN more
                      /\ path[2] # path[1]
    OBVIOUS
  <2>1. 2 \in 1..n /\ 1 + 1 = 2 /\ 2 # 1
    BY <1>1, <1>3
  <2>2. more[path[1]].next = path[2]
    BY <1>1, <1>3, <2>1 DEF Follows
  <2>. QED
    BY <1>1, <1>3, <2>1, <2>2 DEF Visits
<1>5. m = 0 => n = 1 /\ more[ch.front].next = NOWHERE
    BY <1>1
<1>6. /\ DequeNodes(less) /\ Extends(more, less, path[1], more[path[1]].val)
      /\ SameLinks(less, more, DOMAIN less, "next")
      /\ Relinked(less, more, DOMAIN less, "pre", more[path[1]].next, NOWHERE)
  <2>1. path[1] \in DOMAIN more
    BY <1>3
  <2>2. more[path[1]].next \in (DOMAIN more \ {path[1]}) \cup {NOWHERE}
    BY <1>1, <1>4, <1>5
  <2>3. less = UnlinkedFront(more, path[1])
    BY <1>1 DEF less
  <2>. QED
    BY <1>1, <2>1, <2>2, <2>3, UnlinkedFrontIs
<1>7. /\ Visits(less, shorter, m) /\ HoldsValues(less, m, shorter)
      /\ Vals(less, shorter, m) = WithoutFirst(Vals(more, path, n))
  <2> HIDE DEF shorter, m
  <2>1. n \in Nat /\ n # 0 /\ Visits(more, path, n) /\ HoldsValues(more, n, path)
    BY <1>1
  <2>2. Extends(more, less, path[1], more[path[1]].val)
    BY <1>6
  <2>3. /\ Visits(less, Later(path, n), n - 1) /\ HoldsValues(less, n - 1, Later(path, n))
        /\ Vals(less, Later(path, n), n - 1) = WithoutFirst(Vals(more, path, n))
    BY <2>1, <2>2, RemovedFirst, ZenonT(30)
  <2>. QED
    BY <2>3 DEF shorter, m
<1>8. Relinked(less, more, DOMAIN less, "pre", path[2], NOWHERE)
  <2>1. CASE m = 0
    <3>1. DOMAIN less = {}
      BY <1>7, <2>1, NothingVisited
    <3>. QED
      BY <3>1 DEF Relinked
  <2>2. CASE m # 0
    BY <1>1, <1>4, <1>6, <2>2
  <2>. QED
    BY <2>1, <2>2
<1>9. Follows(less, shorter, m, "next") /\ Precedes(less, shorter, m, "pre")
  <2>1. Visits(less, Later(path, n), n - 1)
    BY <1>7
  <2> HIDE DEF shorter, m
  <2>2. Follows(less, Later(path, n), n - 1, "next")
    BY <1>1, <1>6, <1>8, <2>1, LinksLater
  <2>3. Precedes(less, Later(path, n), n - 1, "pre")
    BY <1>1, <1>6, <1>8, <2>1, LinksLater
  <2>. QED
    BY <2>2, <2>3 DEF shorter, m
<1>10. m # 0 => /\ new.front = shorter[1] /\ less[shorter[1]].pre = NOWHERE
                /\ new.rear = shorter[m] /\ less[shorter[m]].next = NOWHERE
  <2> SUFFICES ASSUME m # 0
               PROVE  /\ new.front = shorter[1] /\ less[shorter[1]].pre = NOWHERE
                      /\ new.rear = shorter[m] /\ less[shorter[m]].next = NOWHERE
    OBVIOUS
  <2>1. 1 \in 1..m /\ m \in 1..m /\ n # 1
    BY <1>1, <1>3
  <2>2. shorter[1] = path[2] /\ shorter[m] = path[n]
    BY <1>1, <1>3, <2>1
  <2>3. shorter[1] \in DOMAIN less /\ shorter[m] \in DOMAIN less
    BY <1>7, <2>1 DEF Visits
  <2>4. less[shorter[1]].pre = NOWHERE
    BY <1>8, <2>2, <2>3 DEF Relinked
  <2>5. less[shorter[m]].next = NOWHERE
    BY <1>1, <1>6, <2>2, <2>3 DEF SameLinks
  <2>. QED
    BY <1>1, <1>2, <1>4, <2>1, <2>2, <2>4, <2>5
<1>11. m = 0 => new.front = NOWHERE /\ new.rear = NOWHERE
    BY <1>2, <1>5
<1> HIDE DEF shorter, m
<1>12. DequeLinks(new.nodes, new.front, new.rear, shorter, new.size)
    BY <1>2, <1>9, <1>10, <1>11 DEF DequeLinks
<1>13. DequeChainOK(new, shorter)
    BY <1>2, <1>3, <1>6, <1>7, <1>12 DEF DequeChainOK
<1>14. Vals(new.nodes, shorter, new.size) = WithoutFirst(Vals(more, path, n))
    BY <1>2, <1>7
<1>. QED
    BY <1>13, <1>14 DEF new, shorter, n, more

LEMMA DequeUnlinksBack ==
    ASSUME NEW ch, NEW path, DequeChainOK(ch, path), ch.size # 0
    PROVE  LET new == DequeUnlinkedBack(ch)
               shorter == Shorter(path, ch.size)
           IN  /\ DequeChainOK(new, shorter)
               /\ Vals(new.nodes, shorter, new.size) = WithoutLast(Vals(ch.nodes, path, ch.size))
<1> DEFINE n == ch.size
           m == n - 1
           more == ch.nodes
           less == UnlinkedBack(more, ch.rear)
           shorter == Shorter(path, n)
           new == DequeUnlinkedBack(ch)
<1>1. /\ n \in Nat /\ n # 0 /\ DequeNodes(more) /\ Visits(more, path, n)
      /\ HoldsValues(more, n, path)
      /\ Follows(more, path, n, "next") /\ Precedes(more, path, n, "pre")
      /\ ch.front = path[1] /\ more[path[1]].pre = NOWHERE
      /\ ch.rear = path[n] /\ more[path[n]].next = NOWHERE
    BY DequeChainParts
<1>2. /\ new.nodes = less /\ new.size = m /\ new.rear = more[ch.rear].pre
      /\ new.front = IF n = 1 THEN NOWHERE ELSE ch.front
      /\ new = [nodes |-> new.nodes, front |-> new.front, rear |-> new.rear, size |-> new.size]
    BY DEF DequeUnlinkedBack
<1> HIDE DEF new, less, more, n
<1>3. /\ m \in Nat /\ 1 \in 1..n /\ n \in 1..n
      /\ \A i \in 1..m : shorter[i] = path[i] /\ i \in 1..n /\ i + 1 \in 1..n
      /\ \A i \in 1..n : path[i] \in DOMAIN more
    BY <1>1 DEF Shorter, Visits
<1>4. m # 0 => more[ch.rear].pre = path[n - 1] /\ path[n - 1] \in DOMAIN more
               /\ path[n - 1] # path[n]
  <2> SUFFICES ASSUME m # 0
               PROVE  more[ch.rear].pre = path[n - 1] /\ path[n - 1] \in DOMAIN more
                      /\ path[n - 1] # path[n]
    OBVIOUS
  <2>1. n - 1 \in 1..n /\ (n - 1) + 1 = n /\ n - 1 # n
    BY <1>1, <1>3
  <2>2. more[path[n]].pre = path[n - 1]
    BY <1>1, <1>3, <2>1 DEF Precedes
  <2>. QED
    BY <1>1, <1>3, <2>1, <2>2 DEF Visits
<1>5. m = 0 => n = 1 /\ more[ch.rear].pre = NOWHERE
    BY <1>1
<1>6. /\ DequeNodes(less) /\ Extends(more, less, path[n], more[path[n]].val)
      /\ SameLinks(less, more, DOMAIN less, "pre")
      /\ Relinked(less, more, DOMAIN less, "next", more[path[n]].pre, NOWHERE)
  <2>1. path[n] \in DOMAIN more
    BY <1>3
  <2>2. more[path[n]].pre \in (DOMAIN more \ {path[n]}) \cup {NOWHERE}
    BY <1>1, <1>4, <1>5
  <2>3. less = UnlinkedBack(more, path[n])
    BY <1>1 DEF less
  <2>. QED
    BY <1>1, <2>1, <2>2, <2>3, UnlinkedBackIs
<1>7. /\ Visits(less, shorter, m) /\ HoldsValues(less, m, shorter)
      /\ Vals(less, shorter, m) = WithoutLast(Vals(more, path, n))
  <2> HIDE DEF shorter, m
  <2>1. n \in Nat /\ n # 0 /\ Visits(more, path, n) /\ HoldsValues(more, n, path)
    BY <1>1
  <2>2. Extends(more, less, path[n], more[path[n]].val)
    BY <1>6
  <2>3. /\ Visits(less, Shorter(path, n), n - 1) /\ HoldsValues(less, n - 1, Shorter(path, n))
        /\ Vals(less, Shorter(path, n), n - 1) = WithoutLast(Vals(more, path, n))
    BY <2>1, <2>2, RemovedLast, ZenonT(30)
  <2>. QED
    BY <2>3 DEF shorter, m
<1>8. Relinked(less, more, DOMAIN less, "next", path[n - 1], NOWHERE)
  <2>1. CASE m = 0
    <3>1. DOMAIN less = {}
      BY <1>7, <2>1, NothingVisited
    <3>. QED
      BY <3>1 DEF Relinked
  <2>2. CASE m # 0
    BY <1>1, <1>4, <1>6, <2>2
  <2>. QED
    BY <2>1, <2>2
<1>9. Follows(less, shorter, m, "next") /\ Precedes(less, shorter, m, "pre")
  <2>1. Visits(less, Shorter(path, n), n - 1)
    BY <1>7
  <2> HIDE DEF shorter, m
  <2>2. Follows(less, Shorter(path, n), n - 1, "next")
    BY <1>1, <1>6, <1>8, <2>1, LinksShorter
  <2>3. Precedes(less, Shorter(path, n), n - 1, "pre")
    BY <1>1, <1>6, <1>8, <2>1, LinksShorter
  <2>. QED
    BY <2>2, <2>3 DEF shorter, m
<1>10. m # 0 => /\ new.rear = shorter[m] /\ less[shorter[m]].next = NOWHERE
                /\ new.front = shorter[1] /\ less[shorter[1]].pre = NOWHERE
  <2> SUFFICES ASSUME m # 0
               PROVE  /\ new.rear = shorter[m] /\ less[shorter[m]].next = NOWHERE
                      /\ new.front = shorter[1] /\ less[shorter[1]].pre = NOWHERE
    OBVIOUS
  <2>1. 1 \in 1..m /\ m \in 1..m /\ n # 1
    BY <1>1, <1>3
  <2>2. shorter[m] = path[n - 1] /\ shorter[1] = path[1]
    BY <1>1, <1>3, <2>1
  <2>3. shorter[m] \in DOMAIN less /\ shorter[1] \in DOMAIN less
    BY <1>7, <2>1 DEF Visits
  <2>4. less[shorter[m]].next = NOWHERE
    BY <1>8, <2>2, <2>3 DEF Relinked
  <2>5. less[shorter[1]].pre = NOWHERE
    BY <1>1, <1>6, <2>2, <2>3 DEF SameLinks
  <2>. QED
    BY <1>1, <1>2, <1>4, <2>1, <2>2, <2>4, <2>5
<1>11. m = 0 => new.front = NOWHERE /\ new.rear = NOWHERE
    BY <1>2, <1>5
<1> HIDE DEF shorter, m
<1>12. DequeLinks(new.nodes, new.front, new.rear, shorter, new.size)
    BY <1>2, <1>9, <1>10, <1>11 DEF DequeLinks
<1>13. DequeChainOK(new, shorter)
    BY <1>2, <1>3, <1>6, <1>7, <1>12 DEF DequeChainOK
<1>14. Vals(new.nodes, shorter, new.size) = WithoutLast(Vals(more, path, n))
    BY <1>2, <1>7
<1>. QED
    BY <1>13, <1>14 DEF new, shorter, n, more

(***************************************************************************)
(* The two deques.                                                         *)
(***************************************************************************)
DequeInv ==
    /\ DequeRingOK(dequeRing)
    /\ \E path : /\ DequeChainOK(dequeChain, path)
                 /\ Vals(dequeChain.nodes, path, dequeChain.size) = DequeItems(dequeRing)

LEMMA DequeChainIs ==
    ASSUME NEW path, DequeChainOK(dequeChain, path)
    PROVE  /\ Deques!ChainItems = Vals(dequeChain.nodes, path, dequeChain.size)
           /\ Deques!ValuesAlong(dequeChain.nodes, dequeChain.rear, "pre", dequeChain.size)
                = Backwards(Vals(dequeChain.nodes, path, dequeChain.size), dequeChain.size)
<1> DEFINE n == dequeChain.size
           nodes == dequeChain.nodes
           p == dequeChain.front
           q == dequeChain.rear
<1>1. /\ n \in Nat /\ path \in [1..n -> DOMAIN nodes]
      /\ Follows(nodes, path, n, "next") /\ Precedes(nodes, path, n, "pre")
      /\ n # 0 => p = path[1] /\ q = path[n]
    BY DequeChainParts DEF Visits
<1>2. /\ Deques!ChainItems = Linked!ValuesAlong(nodes, p, "next", n)
      /\ Deques!ValuesAlong(nodes, q, "pre", n) = Linked!ValuesAlong(nodes, q, "pre", n)
    BY DEF Deques!ChainItems, Deques!ValuesAlong, Linked!ValuesAlong, Deques!Walk, Linked!Walk,
           Deques!IsNode, Linked!IsNode
<1> HIDE DEF n, nodes, p, q
<1>3. Linked!ValuesAlong(nodes, p, "next", n) = Vals(nodes, path, n)
    BY <1>1, AlongPath
<1>4. Linked!ValuesAlong(nodes, q, "pre", n) = Backwards(Vals(nodes, path, n), n)
    BY <1>1, BackAlong
<1>. QED
    BY <1>2, <1>3, <1>4 DEF n, nodes, q

LEMMA DequeItemsAre ==
    DequeInv => /\ Deques!RingItems = DequeItems(dequeRing)
                /\ Deques!ChainItems = DequeItems(dequeRing)
                /\ dequeChain.size = dequeRing.size
<1> SUFFICES ASSUME DequeInv
             PROVE  /\ Deques!RingItems = DequeItems(dequeRing)
                    /\ Deques!ChainItems = DequeItems(dequeRing)
                    /\ dequeChain.size = dequeRing.size
    OBVIOUS
<1>1. PICK path : /\ DequeChainOK(dequeChain, path)
                  /\ Vals(dequeChain.nodes, path, dequeChain.size) = DequeItems(dequeRing)
    BY DEF DequeInv
<1>2. DequeRingOK(dequeRing)
    BY DEF DequeInv
<1>3. Deques!RingItems = DequeItems(dequeRing)
    BY <1>2, DequeRingIs
<1>4. Deques!ChainItems = DequeItems(dequeRing)
    BY <1>1, DequeChainIs
<1>5. Len(DequeItems(dequeRing)) = dequeRing.size
    BY <1>2, DequeItemsIs
<1>6. Len(Vals(dequeChain.nodes, path, dequeChain.size)) = dequeChain.size
    BY <1>1, ValsAre DEF DequeChainOK
<1>. QED
    BY <1>1, <1>3, <1>4, <1>5, <1>6

LEMMA DequeStarts == Deques!Init => DequeInv /\ dequeRing.size = 0
<1> SUFFICES ASSUME Deques!Init
             PROVE  DequeInv /\ dequeRing.size = 0
    OBVIOUS
<1>1. /\ dequeRing.data = [i \in 0..(FirstSize - 1) |-> EMPTY]
      /\ dequeRing.front = 0 /\ dequeRing.rear = 0
      /\ dequeRing.size = 0 /\ dequeRing.capacity = FirstSize
      /\ dequeRing = [data |-> dequeRing.data, front |-> dequeRing.front,
                      rear |-> dequeRing.rear, capacity |-> dequeRing.capacity,
                      size |-> dequeRing.size]
    BY DEF Deques!Init, Deques!Fresh
<1>2. dequeRing.data \in Array(FirstSize, Held) /\ 0 \in 0..(FirstSize - 1)
    BY <1>1, SizesAssumption DEF Array, Held
<1>3. DequeRingOK(dequeRing)
  <2>1. 0 \in 0..FirstSize
    BY SizesAssumption
  <2>2. dequeRing \in [data : Array(dequeRing.capacity, Held),
                       front : 0..(dequeRing.capacity - 1), rear : 0..(dequeRing.capacity - 1),
                       capacity : Nat \ {0}, size : 0..dequeRing.capacity]
    BY <1>1, <1>2, <2>1, SizesAssumption
  <2>. QED
    BY <1>1, <2>2 DEF DequeRingOK
<1>4. DequeItems(dequeRing) = <<>>
    BY <1>1, <1>3, DequeItemsIs
<1>5. /\ dequeChain.size = 0 /\ DOMAIN dequeChain.nodes = {} /\ dequeChain.nodes = <<>>
      /\ dequeChain.front = NOWHERE /\ dequeChain.rear = NOWHERE
      /\ dequeChain = [nodes |-> dequeChain.nodes, front |-> dequeChain.front,
                       rear |-> dequeChain.rear, size |-> dequeChain.size]
    BY DEF Deques!Init
<1>6. DequeNodes(dequeChain.nodes)
    BY <1>5 DEF DequeNodes
<1>7. Visits(dequeChain.nodes, <<>>, 0) /\ HoldsValues(dequeChain.nodes, 0, <<>>)
    BY <1>5 DEF Visits, HoldsValues
<1>8. DequeLinks(dequeChain.nodes, dequeChain.front, dequeChain.rear, <<>>, 0)
    BY <1>5 DEF DequeLinks, Follows, Precedes
<1>9. DequeChainOK(dequeChain, <<>>)
    BY <1>5, <1>6, <1>7, <1>8 DEF DequeChainOK
<1>10. Vals(dequeChain.nodes, <<>>, dequeChain.size) = <<>>
    BY <1>5 DEF Vals
<1>. QED
    BY <1>1, <1>3, <1>4, <1>9, <1>10 DEF DequeInv

\* What the sequences make of a step of both deques.
LEMMA DequeMoves ==
    ASSUME DequeInv, DequeInv'
    PROVE  /\ Deques!RingItems = DequeItems(dequeRing)
           /\ Deques!ChainItems = DequeItems(dequeRing)
           /\ Deques!RingItems' = DequeItems(dequeRing')
           /\ Deques!ChainItems' = DequeItems(dequeRing')
<1>1. Deques!RingItems = DequeItems(dequeRing) /\ Deques!ChainItems = DequeItems(dequeRing)
    BY DequeItemsAre
<1>2. (/\ Deques!RingItems = DequeItems(dequeRing)
       /\ Deques!ChainItems = DequeItems(dequeRing)
       /\ dequeChain.size = dequeRing.size)'
    BY DequeItemsAre, PTL
<1>. QED
    BY <1>1, <1>2

LEMMA DequePushBackKeeps ==
    ASSUME DequeInv, NEW v \in Pushed, Deques!push_back(v)
    PROVE  DequeInv' /\ Deques!RingSequence!Next /\ Deques!ChainSequence!Next
<1>1. DequeRingOK(dequeRing) /\ dequeRing.size < MaxLength
    BY DEF DequeInv, Deques!push_back
<1>2. PICK path : /\ DequeChainOK(dequeChain, path)
                  /\ Vals(dequeChain.nodes, path, dequeChain.size) = DequeItems(dequeRing)
    BY DEF DequeInv
<1> DEFINE g == Deques!Resized
           node == Deques!New(dequeChain.nodes)
<1>3. DequeRingOK(g) /\ DequeItems(g) = DequeItems(dequeRing) /\ g.size < g.capacity
    BY <1>1, DequeResizes
<1>4. dequeRing' = DequePushedBack(g, v)
    BY DEF Deques!push_back, Deques!RingPushBack, DequePushedBack
<1>5. node \in Nat /\ node \notin DOMAIN dequeChain.nodes
  <2>1. IsFiniteSet(DOMAIN dequeChain.nodes)
    BY <1>2, HowMany DEF DequeChainOK
  <2>2. Deques!New(dequeChain.nodes) = Linked!New(dequeChain.nodes)
    BY DEF Deques!New, Linked!New, Deques!IsNode, Linked!IsNode, Deques!Cardinality,
           Linked!Cardinality
  <2>. QED
    BY <2>1, <2>2, FreshNode
<1>6. dequeChain' = DequeLinkedBack(dequeChain, v, node)
    BY DEF Deques!push_back, Deques!ChainPushBack, DequeLinkedBack, LinkedBack, Deques!With,
           Linked!With
<1> HIDE DEF g, node
<1>7. DequeRingOK(dequeRing') /\ DequeItems(dequeRing') = WithLast(DequeItems(dequeRing), v)
    BY <1>3, <1>4, DequePushesBack
<1> DEFINE longer == Further(path, dequeChain.size, node)
<1>8. /\ DequeChainOK(dequeChain', longer)
      /\ Vals(dequeChain'.nodes, longer, dequeChain'.size)
            = WithLast(Vals(dequeChain.nodes, path, dequeChain.size), v)
    BY <1>2, <1>5, <1>6, DequeLinksBack
<1> HIDE DEF longer
<1>9. DequeInv'
    BY <1>2, <1>7, <1>8 DEF DequeInv
<1>10. Len(DequeItems(dequeRing)) < MaxLength
    BY <1>1, DequeItemsIs
<1>11. Deques!RingSequence!PushBack(v)
    BY <1>7, <1>9, <1>10, DequeMoves DEF Deques!RingSequence!PushBack, WithLast, Deques!Both
<1>12. Deques!ChainSequence!PushBack(v)
    BY <1>7, <1>9, <1>10, DequeMoves DEF Deques!ChainSequence!PushBack, WithLast, Deques!Both
<1>. QED
    BY <1>9, <1>11, <1>12 DEF Deques!RingSequence!Next, Deques!ChainSequence!Next

LEMMA DequePushFrontKeeps ==
    ASSUME DequeInv, NEW v \in Pushed, Deques!push_front(v)
    PROVE  DequeInv' /\ Deques!RingSequence!Next /\ Deques!ChainSequence!Next
<1>1. DequeRingOK(dequeRing) /\ dequeRing.size < MaxLength
    BY DEF DequeInv, Deques!push_front
<1>2. PICK path : /\ DequeChainOK(dequeChain, path)
                  /\ Vals(dequeChain.nodes, path, dequeChain.size) = DequeItems(dequeRing)
    BY DEF DequeInv
<1> DEFINE g == Deques!Resized
           node == Deques!New(dequeChain.nodes)
<1>3. DequeRingOK(g) /\ DequeItems(g) = DequeItems(dequeRing) /\ g.size < g.capacity
    BY <1>1, DequeResizes
<1>4. dequeRing' = DequePushedFront(g, v)
    BY DEF Deques!push_front, Deques!RingPushFront, DequePushedFront
<1>5. node \in Nat /\ node \notin DOMAIN dequeChain.nodes
  <2>1. IsFiniteSet(DOMAIN dequeChain.nodes)
    BY <1>2, HowMany DEF DequeChainOK
  <2>2. Deques!New(dequeChain.nodes) = Linked!New(dequeChain.nodes)
    BY DEF Deques!New, Linked!New, Deques!IsNode, Linked!IsNode, Deques!Cardinality,
           Linked!Cardinality
  <2>. QED
    BY <2>1, <2>2, FreshNode
<1>6. dequeChain' = DequeLinkedFront(dequeChain, v, node)
    BY DEF Deques!push_front, Deques!ChainPushFront, DequeLinkedFront, LinkedFront, Deques!With,
           Linked!With
<1> HIDE DEF g, node
<1>7. DequeRingOK(dequeRing') /\ DequeItems(dequeRing') = WithFirst(v, DequeItems(dequeRing))
    BY <1>3, <1>4, DequePushesFront
<1> DEFINE longer == Earlier(path, dequeChain.size, node)
<1>8. /\ DequeChainOK(dequeChain', longer)
      /\ Vals(dequeChain'.nodes, longer, dequeChain'.size)
            = WithFirst(v, Vals(dequeChain.nodes, path, dequeChain.size))
    BY <1>2, <1>5, <1>6, DequeLinksFront
<1> HIDE DEF longer
<1>9. DequeInv'
    BY <1>2, <1>7, <1>8 DEF DequeInv
<1>10. Len(DequeItems(dequeRing)) < MaxLength
    BY <1>1, DequeItemsIs
<1>11. Deques!RingSequence!PushFront(v)
    BY <1>7, <1>9, <1>10, DequeMoves DEF Deques!RingSequence!PushFront, WithFirst, Deques!Both
<1>12. Deques!ChainSequence!PushFront(v)
    BY <1>7, <1>9, <1>10, DequeMoves DEF Deques!ChainSequence!PushFront, WithFirst, Deques!Both
<1>. QED
    BY <1>9, <1>11, <1>12 DEF Deques!RingSequence!Next, Deques!ChainSequence!Next

LEMMA DequePopFrontKeeps ==
    ASSUME DequeInv, Deques!pop_front
    PROVE  DequeInv' /\ Deques!RingSequence!Next /\ Deques!ChainSequence!Next
<1>1. DequeRingOK(dequeRing)
    BY DEF DequeInv
<1>2. PICK path : /\ DequeChainOK(dequeChain, path)
                  /\ Vals(dequeChain.nodes, path, dequeChain.size) = DequeItems(dequeRing)
    BY DEF DequeInv
<1>3. dequeRing.size # 0 /\ dequeChain.size # 0
    BY DequeItemsAre DEF Deques!pop_front
<1>4. dequeRing' = DequePoppedFront(dequeRing)
    BY DEF Deques!pop_front, Deques!RingPopFront, DequePoppedFront
<1>5. dequeChain' = DequeUnlinkedFront(dequeChain)
    BY DEF Deques!pop_front, Deques!ChainPopFront, DequeUnlinkedFront, UnlinkedFront,
           Deques!Deleted, Linked!Deleted
<1>6. /\ DequeRingOK(dequeRing')
      /\ DequeItems(dequeRing') = WithoutFirst(DequeItems(dequeRing))
    BY <1>1, <1>3, <1>4, DequePopsFront
<1> DEFINE shorter == Later(path, dequeChain.size)
<1>7. /\ DequeChainOK(dequeChain', shorter)
      /\ Vals(dequeChain'.nodes, shorter, dequeChain'.size)
            = WithoutFirst(Vals(dequeChain.nodes, path, dequeChain.size))
    BY <1>2, <1>3, <1>5, DequeUnlinksFront
<1> HIDE DEF shorter
<1>8. DequeInv'
    BY <1>2, <1>6, <1>7 DEF DequeInv
<1>9. DequeItems(dequeRing) # <<>>
    BY <1>1, <1>3, DequeItemsIs
<1>10. Deques!RingSequence!PopFront
    BY <1>6, <1>8, <1>9, DequeMoves DEF Deques!RingSequence!PopFront, WithoutFirst, Deques!Both
<1>11. Deques!ChainSequence!PopFront
    BY <1>6, <1>8, <1>9, DequeMoves DEF Deques!ChainSequence!PopFront, WithoutFirst, Deques!Both
<1>. QED
    BY <1>8, <1>10, <1>11 DEF Deques!RingSequence!Next, Deques!ChainSequence!Next

LEMMA DequePopBackKeeps ==
    ASSUME DequeInv, Deques!pop_back
    PROVE  DequeInv' /\ Deques!RingSequence!Next /\ Deques!ChainSequence!Next
<1>1. DequeRingOK(dequeRing)
    BY DEF DequeInv
<1>2. PICK path : /\ DequeChainOK(dequeChain, path)
                  /\ Vals(dequeChain.nodes, path, dequeChain.size) = DequeItems(dequeRing)
    BY DEF DequeInv
<1>3. dequeRing.size # 0 /\ dequeChain.size # 0
    BY DequeItemsAre DEF Deques!pop_back
<1>4. dequeRing' = DequePoppedBack(dequeRing)
    BY DEF Deques!pop_back, Deques!RingPopBack, DequePoppedBack
<1>5. dequeChain' = DequeUnlinkedBack(dequeChain)
    BY DEF Deques!pop_back, Deques!ChainPopBack, DequeUnlinkedBack, UnlinkedBack, Deques!Deleted,
           Linked!Deleted
<1>6. /\ DequeRingOK(dequeRing')
      /\ DequeItems(dequeRing') = WithoutLast(DequeItems(dequeRing))
    BY <1>1, <1>3, <1>4, DequePopsBack
<1> DEFINE shorter == Shorter(path, dequeChain.size)
<1>7. /\ DequeChainOK(dequeChain', shorter)
      /\ Vals(dequeChain'.nodes, shorter, dequeChain'.size)
            = WithoutLast(Vals(dequeChain.nodes, path, dequeChain.size))
    BY <1>2, <1>3, <1>5, DequeUnlinksBack
<1> HIDE DEF shorter
<1>8. DequeInv'
    BY <1>2, <1>6, <1>7 DEF DequeInv
<1>9. DequeItems(dequeRing) # <<>>
    BY <1>1, <1>3, DequeItemsIs
<1>10. Deques!RingSequence!PopBack
    BY <1>6, <1>8, <1>9, DequeMoves DEF Deques!RingSequence!PopBack, WithoutLast, Deques!Both
<1>11. Deques!ChainSequence!PopBack
    BY <1>6, <1>8, <1>9, DequeMoves DEF Deques!ChainSequence!PopBack, WithoutLast, Deques!Both
<1>. QED
    BY <1>8, <1>10, <1>11 DEF Deques!RingSequence!Next, Deques!ChainSequence!Next

LEMMA DequeAgrees == DequeInv => Deques!AnswersAgree
<1> SUFFICES ASSUME DequeInv
             PROVE  Deques!AnswersAgree
    OBVIOUS
<1> DEFINE r == dequeRing
           n == r.size
           c == r.capacity
           s == StartOf(r)
           nodes == dequeChain.nodes
<1>1. DequeRingOK(r)
    BY DEF DequeInv
<1>2. PICK path : /\ DequeChainOK(dequeChain, path)
                  /\ Vals(nodes, path, dequeChain.size) = DequeItems(r)
    BY DEF DequeInv
<1>3. Deques!RingItems = DequeItems(r) /\ dequeChain.size = n
    BY DequeItemsAre
<1>4. Deques!Cardinality(DOMAIN nodes) = n
  <2>1. Cardinality(DOMAIN nodes) = dequeChain.size
    BY <1>2, HowMany DEF DequeChainOK
  <2>2. Deques!Cardinality(DOMAIN nodes) = Cardinality(DOMAIN nodes)
    BY DEF Deques!Cardinality, Cardinality
  <2>. QED
    BY <1>3, <2>1, <2>2
<1>5. /\ c \in Nat \ {0} /\ r.front \in 0..(c - 1) /\ r.rear \in 0..(c - 1)
      /\ n \in 0..c /\ s \in 0..(c - 1)
    BY <1>1, DequeParts
<1>6. /\ n = 0 => dequeChain.front = NOWHERE /\ dequeChain.rear = NOWHERE
      /\ n # 0 => dequeChain.front = path[1] /\ dequeChain.rear = path[n]
    BY <1>2, <1>3, DequeChainParts
<1>7. ASSUME n # 0
      PROVE  /\ r.data[Deques!Forth(r, r.front)] = nodes[dequeChain.front].val
             /\ r.data[Deques!Back(r, r.rear)] = nodes[dequeChain.rear].val
  <2>1. 1 \in 1..n /\ n \in 1..n
    BY <1>5, <1>7
  <2>2. \A i \in 1..n : nodes[path[i]].val = r.data[Wrap(s + i - 1, c)]
    <3>1. Vals(nodes, path, n) = Along(r.data, c, s, n)
      BY <1>2, <1>3 DEF DequeItems
    <3>. QED
      BY <3>1 DEF Vals, Along
  <2>3. Deques!Forth(r, r.front) = s /\ Wrap(s + 1 - 1, c) = s
    <3>1. Deques!Forth(r, r.front) = Wrap(r.front + 1, c)
      BY <1>5, ForthAndBack
    <3>2. Deques!Forth(r, r.front) = s
      BY <3>1 DEF StartOf
    <3> HIDE DEF s, c
    <3>. QED
      BY <1>5, <3>2 DEF Wrap
  <2>4. Deques!Back(r, r.rear) = Wrap(s + n - 1, c)
    <3>1. Deques!Back(r, r.rear) = Wrap(r.rear - 1 + c, c)
      BY <1>5, ForthAndBack
    <3>2. r.rear = Wrap(s + n, c)
      BY <1>1, <1>7 DEF DequeRingOK
    <3> HIDE DEF s, c, n
    <3>. QED
      BY <1>5, <1>7, <3>1, <3>2 DEF Wrap
  <2>5. nodes[path[1]].val = r.data[Wrap(s + 1 - 1, c)]
    BY <2>1, <2>2
  <2>6. nodes[path[n]].val = r.data[Wrap(s + n - 1, c)]
    BY <2>1, <2>2
  <2>. QED
    BY <1>6, <1>7, <2>3, <2>4, <2>5, <2>6
<1>8. Deques!ValuesAlong(nodes, dequeChain.rear, "pre", dequeChain.size)
        = [i \in 1..n |-> Deques!RingItems[n + 1 - i]]
  <2>1. Deques!ValuesAlong(nodes, dequeChain.rear, "pre", dequeChain.size)
          = Backwards(Vals(nodes, path, dequeChain.size), dequeChain.size)
    BY <1>2, DequeChainIs
  <2>. QED
    BY <1>2, <1>3, <2>1 DEF Backwards
<1> HIDE DEF n, c, s
<1>. QED
    BY <1>3, <1>4, <1>6, <1>7, <1>8 DEF Deques!AnswersAgree, n

\* deque.hpp:75-130, 175-230: the ring of ArrayDeque and the nodes of LinkedListDeque are one
\* sequence with two ends, and the nodes are linked backwards as they are forwards.
THEOREM DequesAreSequences ==
    Deques!Spec => /\ Deques!RingSequence!Spec /\ Deques!ChainSequence!Spec
                   /\ []Deques!AnswersAgree
<1>1. Deques!Init => DequeInv
    BY DequeStarts
<1>2. DequeInv /\ [Deques!Next]_<<dequeRing, dequeChain>> =>
        /\ DequeInv'
        /\ [Deques!RingSequence!Next]_(Deques!RingItems)
        /\ [Deques!ChainSequence!Next]_(Deques!ChainItems)
  <2> SUFFICES ASSUME DequeInv, [Deques!Next]_<<dequeRing, dequeChain>>
               PROVE  /\ DequeInv'
                      /\ [Deques!RingSequence!Next]_(Deques!RingItems)
                      /\ [Deques!ChainSequence!Next]_(Deques!ChainItems)
    OBVIOUS
  <2>1. ASSUME NEW v \in Pushed, Deques!push_back(v)
        PROVE  DequeInv' /\ Deques!RingSequence!Next /\ Deques!ChainSequence!Next
    BY <2>1, DequePushBackKeeps
  <2>2. ASSUME NEW v \in Pushed, Deques!push_front(v)
        PROVE  DequeInv' /\ Deques!RingSequence!Next /\ Deques!ChainSequence!Next
    BY <2>2, DequePushFrontKeeps
  <2>3. ASSUME Deques!pop_front
        PROVE  DequeInv' /\ Deques!RingSequence!Next /\ Deques!ChainSequence!Next
    BY <2>3, DequePopFrontKeeps
  <2>4. ASSUME Deques!pop_back
        PROVE  DequeInv' /\ Deques!RingSequence!Next /\ Deques!ChainSequence!Next
    BY <2>4, DequePopBackKeeps
  <2>5. CASE UNCHANGED <<dequeRing, dequeChain>>
    <3>1. DequeInv'
      BY <2>5 DEF DequeInv
    <3>2. Deques!RingItems' = Deques!RingItems /\ Deques!ChainItems' = Deques!ChainItems
      BY <2>5, <3>1, DequeMoves
    <3>. QED
      BY <3>1, <3>2
  <2>. QED
    BY <2>1, <2>2, <2>3, <2>4, <2>5 DEF Deques!Next
<1>3. DequeInv => Deques!AnswersAgree
    BY DequeAgrees
<1>4. Deques!Init => Deques!RingSequence!Init /\ Deques!ChainSequence!Init
  <2> SUFFICES ASSUME Deques!Init
               PROVE  Deques!RingItems = <<>> /\ Deques!ChainItems = <<>>
    BY DEF Deques!RingSequence!Init, Deques!ChainSequence!Init
  <2>1. DequeInv /\ dequeRing.size = 0
    BY DequeStarts
  <2>. QED
    BY <2>1, DequeItemsAre, DequeItemsIs DEF DequeInv
<1>. QED
    BY <1>1, <1>2, <1>3, <1>4, PTL
       DEF Deques!Spec, Deques!RingSequence!Spec, Deques!ChainSequence!Spec

(***************************************************************************)
(* The hash table.                                                         *)
(***************************************************************************)

\* Induction up to N, over a set.
LEMMA UptoInduction ==
    ASSUME NEW N \in Nat, NEW S, 0 \in S,
           \A i \in 0..N : i \in S /\ i + 1 \in 0..N => i + 1 \in S
    PROVE  \A i \in 0..N : i \in S
<1> DEFINE T == {i \in Nat : i <= N => i \in S}
<1>1. T \in SUBSET Nat /\ 0 \in T
  OBVIOUS
<1>2. ASSUME NEW i \in Nat, i \in T
      PROVE  i + 1 \in T
  <2>1. CASE i + 1 <= N
    <3>1. i \in 0..N /\ i + 1 \in 0..N /\ i <= N
      BY <2>1
    <3>2. i \in S
      BY <1>2, <3>1
    <3>3. i + 1 \in S
      BY <3>1, <3>2
    <3>. QED
      BY <3>3
  <2>2. CASE ~(i + 1 <= N)
    BY <2>2
  <2>. QED
    BY <2>1, <2>2
<1>3. T = Nat => \A i \in 0..N : i \in S
  OBVIOUS
<1>4. \A i \in T : i \in Nat
  OBVIOUS
<1> HIDE DEF T
<1>. QED
  BY <1>1, <1>2, <1>3, <1>4, SetInduction

\* What a definition by recursion computes: at[i] from at[i - 1].
Recurs(N, D, b, step, at) == /\ at \in [0..N -> D] /\ at[0] = b
                             /\ \A i \in 1..N : at[i] = step[at[i - 1]][i]

LEMMA RecursionExists ==
    ASSUME NEW N \in Nat, NEW D, NEW b \in D, NEW step \in [D -> [1..N -> D]]
    PROVE  \E at : Recurs(N, D, b, step, at)
<1> DEFINE Upto(n, at) == /\ at \in [0..n -> D] /\ at[0] = b
                          /\ \A i \in 1..n : at[i] = step[at[i - 1]][i]
           T == {n \in Nat : n <= N => \E at : Upto(n, at)}
<1>1. 0 \in T
  <2>1. Upto(0, [i \in 0..0 |-> b])
    OBVIOUS
  <2>. QED
    BY <2>1
<1>2. ASSUME NEW n \in T, n + 1 <= N
      PROVE  \E at : Upto(n + 1, at)
  <2>1. n \in Nat /\ n <= N /\ n + 1 \in 1..N
    BY <1>2
  <2>2. PICK at : Upto(n, at)
    BY <1>2, <2>1
  <2> DEFINE next == [i \in 0..(n + 1) |-> IF i = n + 1 THEN step[at[n]][n + 1] ELSE at[i]]
  <2>3. step[at[n]][n + 1] \in D
    BY <2>1, <2>2
  <2>4. next \in [0..(n + 1) -> D] /\ next[0] = b
    BY <2>1, <2>2, <2>3
  <2>5. ASSUME NEW i \in 1..(n + 1)
        PROVE  next[i] = step[next[i - 1]][i]
    <3>1. i - 1 \in 0..n /\ i - 1 \in 0..(n + 1) /\ i \in 0..(n + 1) /\ i - 1 # n + 1
      BY <2>1
    <3>2. next[i - 1] = at[i - 1]
      BY <3>1
    <3>3. CASE i = n + 1
      BY <2>1, <3>1, <3>2, <3>3
    <3>4. CASE i # n + 1
      <4>1. i \in 1..n
        BY <2>1, <3>4
      <4>. QED
        BY <2>2, <3>1, <3>2, <3>4, <4>1
    <3>. QED
      BY <3>3, <3>4
  <2>6. Upto(n + 1, next)
    BY <2>4, <2>5
  <2>. QED
    BY <2>6
<1> HIDE DEF Upto
<1>3. \A n \in T : n + 1 \in T
  <2> SUFFICES ASSUME NEW n \in T
               PROVE  n + 1 \in T
    OBVIOUS
  <2>1. n \in Nat /\ n + 1 \in Nat
    OBVIOUS
  <2>2. n + 1 <= N => \E at : Upto(n + 1, at)
    BY <1>2
  <2>. QED
    BY <2>1, <2>2
<1>4. T = Nat
  <2>1. T \in SUBSET Nat
    OBVIOUS
  <2> HIDE DEF T
  <2>. QED
    BY <1>1, <1>3, <2>1, SetInduction
<1>5. \E at : Upto(N, at)
  <2>1. N \in T
    BY <1>4
  <2>. QED
    BY <2>1
<1>. QED
  BY <1>5 DEF Upto, Recurs

\* slot is where the key belongs in a table of n chains.
Slotted(k, n) == Hash[k] % n
TableKeys == Table!TreeKeys
TableEntries == {Table!Entry(p[1], p[2]) : p \in HashPairs}

LEMMA SlotIsIn ==
    ASSUME NEW k \in TableKeys, NEW n \in Nat, n # 0
    PROVE  Slotted(k, n) \in 0..(n - 1)
<1>1. Hash[k] \in Nat
  BY HashAssumption DEF TableKeys, Table!TreeKeys
<1> DEFINE h == Hash[k]
<1>2. h \in Nat
  BY <1>1
<1> HIDE DEF h
<1>3. h % n \in 0..(n - 1)
  BY <1>2
<1>. QED
  BY <1>3 DEF h, Slotted

LEMMA EntryIs ==
    ASSUME NEW e \in TableEntries
    PROVE  /\ e.key \in TableKeys /\ e.val # EMPTY
           /\ \E p \in HashPairs : e.key = p[1] /\ e.val = p[2] /\ e = Table!Entry(p[1], p[2])
<1>1. PICK p \in HashPairs : e = Table!Entry(p[1], p[2])
  BY DEF TableEntries
<1>2. e.key = p[1] /\ e.val = p[2]
  BY <1>1 DEF Table!Entry
<1>3. p[2] # EMPTY
  BY HashAssumption
<1>. QED
  BY <1>1, <1>2, <1>3 DEF TableKeys, Table!TreeKeys

\* t is a table of n chains; every entry is in the chain where it belongs, and no chain
\* holds two of one key.
Tables(n) == [0..(n - 1) -> Seq(TableEntries)]
Hashed(t, n) ==
    /\ t \in Tables(n)
    /\ \A s \in 0..(n - 1) : \A i \in 1..Len(t[s]) : Slotted(t[s][i].key, n) = s
    /\ \A s \in 0..(n - 1) : \A i, j \in 1..Len(t[s]) : t[s][i].key = t[s][j].key => i = j
InTable(t, n, e) == \E s \in 0..(n - 1) : \E i \in 1..Len(t[s]) : t[s][i] = e

\* at counts the entries of the first chains of t, and all n of them hold c.
Counts(t, n, at) == /\ at \in [0..n -> Int] /\ at[0] = 0
                    /\ \A i \in 1..n : at[i] = at[i - 1] + Len(t[i - 1])
Counted(t, n, c) == \E at : Counts(t, n, at) /\ at[n] = c

\* An entry is found in the one chain where its key belongs.
LEMMA InItsSlot ==
    ASSUME NEW n \in Nat, NEW t, Hashed(t, n), NEW e, InTable(t, n, e)
    PROVE  /\ e \in TableEntries
           /\ \E i \in 1..Len(t[Slotted(e.key, n)]) : t[Slotted(e.key, n)][i] = e
<1>1. PICK s \in 0..(n - 1) : \E i \in 1..Len(t[s]) : t[s][i] = e
  BY DEF InTable
<1>2. PICK i \in 1..Len(t[s]) : t[s][i] = e
  BY <1>1
<1>3. t[s] \in Seq(TableEntries)
  BY DEF Hashed, Tables
<1>4. e \in TableEntries
  BY <1>2, <1>3
<1>5. Slotted(e.key, n) = s
  BY <1>2 DEF Hashed
<1>. QED
  BY <1>2, <1>4, <1>5

\* One key, one entry.
LEMMA OneEntry ==
    ASSUME NEW n \in Nat, NEW t, Hashed(t, n),
           NEW e, NEW f, InTable(t, n, e), InTable(t, n, f), e.key = f.key
    PROVE  e = f
<1> DEFINE s == Slotted(e.key, n)
<1>1. PICK i \in 1..Len(t[s]) : t[s][i] = e
  BY InItsSlot
<1>2. PICK j \in 1..Len(t[s]) : t[s][j] = f
  BY InItsSlot
<1>3. n # 0
  <2>1. CASE n = 0
    BY <2>1 DEF InTable
  <2>. QED
    BY <2>1
<1>4. s \in 0..(n - 1)
  BY <1>3, InItsSlot, EntryIs, SlotIsIn
<1> HIDE DEF s
<1>5. i = j
  BY <1>1, <1>2, <1>4 DEF Hashed
<1>. QED
  BY <1>1, <1>2, <1>5

\* u is the table t with the chain c in slot s.
Replaced(t, n, s, c, u) ==
    u \in Tables(n) /\ u[s] = c /\ \A r \in 0..(n - 1) : r # s => u[r] = t[r]

LEMMA ReplacedIs ==
    ASSUME NEW n \in Nat, NEW t \in Tables(n), NEW s \in 0..(n - 1),
           NEW c \in Seq(TableEntries)
    PROVE  Replaced(t, n, s, c, [t EXCEPT ![s] = c])
BY DEF Replaced, Tables

LEMMA CountChanges ==
    ASSUME NEW n \in Nat, NEW t \in Tables(n), NEW s \in 0..(n - 1),
           NEW c \in Seq(TableEntries), NEW u, Replaced(t, n, s, c, u),
           NEW k \in Int, Counted(t, n, k)
    PROVE  Counted(u, n, k + (Len(c) - Len(t[s])))
<1>1. PICK at : Counts(t, n, at) /\ at[n] = k
  BY DEF Counted
<1> DEFINE d == Len(c) - Len(t[s])
           bt == [i \in 0..n |-> IF i <= s THEN at[i] ELSE at[i] + d]
<1>2. /\ t[s] \in Seq(TableEntries) /\ d \in Int /\ Len(c) = Len(t[s]) + d
  BY DEF Tables
<1> HIDE DEF d
<1>3. bt \in [0..n -> Int] /\ bt[0] = 0 /\ bt[n] = k + d
  BY <1>1, <1>2 DEF Counts
<1>4. ASSUME NEW i \in 1..n
      PROVE  bt[i] = bt[i - 1] + Len(u[i - 1])
  <2>1. /\ i - 1 \in 0..(n - 1) /\ i - 1 \in 0..n /\ i \in 0..n
        /\ at[i] = at[i - 1] + Len(t[i - 1]) /\ at[i] \in Int /\ at[i - 1] \in Int
    BY <1>1 DEF Counts
  <2>2. t[i - 1] \in Seq(TableEntries)
    BY <2>1 DEF Tables
  <2>3. Len(t[i - 1]) \in Nat
    BY <2>2
  <2>4. bt[i] = (IF i <= s THEN at[i] ELSE at[i] + d)
        /\ bt[i - 1] = (IF i - 1 <= s THEN at[i - 1] ELSE at[i - 1] + d)
    BY <2>1
  <2> HIDE DEF bt
  <2>5. CASE i - 1 = s
    <3>1. Len(u[i - 1]) = Len(t[i - 1]) + d
      BY <1>2, <2>5 DEF Replaced
    <3>. QED
      BY <1>2, <2>1, <2>3, <2>4, <2>5, <3>1
  <2>6. CASE i - 1 # s
    <3>1. u[i - 1] = t[i - 1]
      BY <2>1, <2>6 DEF Replaced
    <3>2. i <= s <=> i - 1 <= s
      BY <2>6
    <3>. QED
      BY <1>2, <2>1, <2>3, <2>4, <3>1, <3>2
  <2>. QED
    BY <2>5, <2>6
<1> HIDE DEF bt
<1>5. Counts(u, n, bt)
  BY <1>3, <1>4 DEF Counts
<1>. QED
  BY <1>3, <1>5 DEF Counted, d

LEMMA Prepended ==
    ASSUME NEW S, NEW c \in Seq(S), NEW e \in S
    PROVE  /\ <<e>> \o c \in Seq(S) /\ Len(<<e>> \o c) = Len(c) + 1
           /\ (<<e>> \o c)[1] = e
           /\ \A i \in 1..Len(c) : (<<e>> \o c)[i + 1] = c[i]
<1>1. <<e>> \in Seq(S) /\ Len(<<e>>) = 1 /\ <<e>>[1] = e
  OBVIOUS
<1>2. Len(c) \in Nat
  OBVIOUS
<1>3. <<e>> \o c \in Seq(S) /\ Len(<<e>> \o c) = Len(c) + 1 /\ (<<e>> \o c)[1] = e
  BY <1>1, <1>2
<1>4. ASSUME NEW i \in 1..Len(c)
      PROVE  (<<e>> \o c)[i + 1] = c[i]
  BY <1>1, <1>2
<1>. QED
  BY <1>3, <1>4

PutIs(t, n, e, u) ==
    LET s == Slotted(e.key, n)
    IN  /\ Replaced(t, n, s, u[s], u)
        /\ Len(u[s]) = Len(t[s]) + 1 /\ u[s][1] = e
        /\ \A i \in 1..Len(t[s]) : u[s][i + 1] = t[s][i]

LEMMA PutFirstIs ==
    ASSUME NEW n \in Nat, n # 0, NEW t \in Tables(n), NEW e \in TableEntries
    PROVE  PutIs(t, n, e, Table!PutFirst(t, n, e))
<1> DEFINE s == Slotted(e.key, n)
           c == <<e>> \o t[s]
           u == Table!PutFirst(t, n, e)
<1>1. s \in 0..(n - 1)
  BY EntryIs, SlotIsIn
<1>2. u = [t EXCEPT ![s] = c]
  BY DEF Table!PutFirst, Slotted
<1>3. t[s] \in Seq(TableEntries)
  BY <1>1 DEF Tables
<1>4. /\ c \in Seq(TableEntries) /\ Len(c) = Len(t[s]) + 1 /\ c[1] = e
      /\ \A i \in 1..Len(t[s]) : c[i + 1] = t[s][i]
  BY <1>3, Prepended
<1> HIDE DEF s, c, u
<1>5. Replaced(t, n, s, c, u)
  BY <1>1, <1>2, <1>4, ReplacedIs
<1>6. u[s] = c
  BY <1>5 DEF Replaced
<1>. QED
  BY <1>4, <1>5, <1>6 DEF PutIs, s, u

\* An entry whose key is new goes to the head of its chain and changes nothing else.
LEMMA PutKeepsHashed ==
    ASSUME NEW n \in Nat, n # 0, NEW t, Hashed(t, n), NEW e \in TableEntries,
           \A f : InTable(t, n, f) => f.key # e.key,
           NEW u, PutIs(t, n, e, u)
    PROVE  Hashed(u, n) /\ \A f : InTable(u, n, f) <=> InTable(t, n, f) \/ f = e
<1> DEFINE s == Slotted(e.key, n)
           m == Len(t[s])
<1>1. s \in 0..(n - 1)
  BY EntryIs, SlotIsIn
<1>2. /\ t \in Tables(n) /\ u \in Tables(n)
      /\ \A r \in 0..(n - 1) : r # s => u[r] = t[r]
      /\ Len(u[s]) = m + 1 /\ u[s][1] = e
      /\ \A i \in 1..m : u[s][i + 1] = t[s][i]
  BY DEF Hashed, PutIs, Replaced
<1>3. t[s] \in Seq(TableEntries) /\ m \in Nat
  BY <1>1, <1>2 DEF Tables
<1>4. \A i \in 1..m : t[s][i].key # e.key
  BY <1>1 DEF InTable
<1>5. /\ \A i \in 1..m : Slotted(t[s][i].key, n) = s
      /\ \A i, j \in 1..m : t[s][i].key = t[s][j].key => i = j
      /\ Slotted(e.key, n) = s
  BY <1>1 DEF Hashed
<1> HIDE DEF s, m
<1>6. \A i \in 1..Len(u[s]) : (i = 1 /\ u[s][i] = e)
                              \/ (i - 1 \in 1..m /\ u[s][i] = t[s][i - 1])
  <2> SUFFICES ASSUME NEW i \in 1..Len(u[s]), i # 1
               PROVE  i - 1 \in 1..m /\ u[s][i] = t[s][i - 1]
    BY <1>2
  <2>1. i - 1 \in 1..m /\ (i - 1) + 1 = i
    BY <1>2, <1>3
  <2>. QED
    BY <1>2, <2>1
<1>7. \A r \in 0..(n - 1) : \A i \in 1..Len(u[r]) : Slotted(u[r][i].key, n) = r
  <2> SUFFICES ASSUME NEW r \in 0..(n - 1), NEW i \in 1..Len(u[r])
               PROVE  Slotted(u[r][i].key, n) = r
    OBVIOUS
  <2>1. CASE r = s
    BY <1>5, <1>6, <2>1
  <2>2. CASE r # s
    BY <1>2, <2>2 DEF Hashed
  <2>. QED
    BY <2>1, <2>2
<1>8. \A r \in 0..(n - 1) : \A i, j \in 1..Len(u[r]) : u[r][i].key = u[r][j].key => i = j
  <2> SUFFICES ASSUME NEW r \in 0..(n - 1), NEW i \in 1..Len(u[r]), NEW j \in 1..Len(u[r]),
                      u[r][i].key = u[r][j].key
               PROVE  i = j
    OBVIOUS
  <2>1. CASE r = s
    <3>1. /\ i \in Int /\ j \in Int
          /\ (i = 1 /\ u[s][i] = e) \/ (i - 1 \in 1..m /\ u[s][i] = t[s][i - 1])
          /\ (j = 1 /\ u[s][j] = e) \/ (j - 1 \in 1..m /\ u[s][j] = t[s][j - 1])
      BY <1>2, <1>3, <1>6, <2>1
    <3>2. CASE i = 1 \/ j = 1
      BY <1>4, <2>1, <3>1, <3>2
    <3>3. CASE i # 1 /\ j # 1
      <4>1. i - 1 = j - 1
        BY <1>5, <2>1, <3>1, <3>3
      <4>. QED
        BY <3>1, <4>1
    <3>. QED
      BY <3>2, <3>3
  <2>2. CASE r # s
    BY <1>2, <2>2 DEF Hashed
  <2>. QED
    BY <2>1, <2>2
<1>9. ASSUME NEW f
      PROVE  InTable(u, n, f) <=> InTable(t, n, f) \/ f = e
  <2>1. ASSUME InTable(u, n, f)
        PROVE  InTable(t, n, f) \/ f = e
    <3>1. PICK r \in 0..(n - 1) : \E i \in 1..Len(u[r]) : u[r][i] = f
      BY <2>1 DEF InTable
    <3>2. CASE r = s
      BY <1>1, <1>6, <3>1, <3>2 DEF InTable, m
    <3>3. CASE r # s
      BY <1>2, <3>1, <3>3 DEF InTable
    <3>. QED
      BY <3>2, <3>3
  <2>2. ASSUME InTable(t, n, f)
        PROVE  InTable(u, n, f)
    <3>1. PICK r \in 0..(n - 1) : \E i \in 1..Len(t[r]) : t[r][i] = f
      BY <2>2 DEF InTable
    <3>2. CASE r = s
      <4>1. PICK i \in 1..m : t[s][i] = f
        BY <3>1, <3>2 DEF m
      <4>2. i + 1 \in 1..Len(u[s]) /\ u[s][i + 1] = f
        BY <1>2, <1>3, <4>1
      <4>. QED
        BY <1>1, <4>2 DEF InTable
    <3>3. CASE r # s
      BY <1>2, <3>1, <3>3 DEF InTable
    <3>. QED
      BY <3>2, <3>3
  <2>3. InTable(u, n, e)
    <3>1. 1 \in 1..Len(u[s])
      BY <1>2, <1>3
    <3>. QED
      BY <1>1, <1>2, <3>1 DEF InTable
  <2>. QED
    BY <2>1, <2>2, <2>3
<1>10. Hashed(u, n)
  BY <1>2, <1>7, <1>8 DEF Hashed
<1>. QED
  BY <1>9, <1>10

LEMMA PutCounted ==
    ASSUME NEW n \in Nat, n # 0, NEW t \in Tables(n), NEW e \in TableEntries,
           NEW u, PutIs(t, n, e, u), NEW k \in Int, Counted(t, n, k)
    PROVE  Counted(u, n, k + 1)
<1> DEFINE s == Slotted(e.key, n)
<1>1. s \in 0..(n - 1)
  BY EntryIs, SlotIsIn
<1>2. Replaced(t, n, s, u[s], u) /\ Len(u[s]) = Len(t[s]) + 1
  BY DEF PutIs
<1> HIDE DEF s
<1>3. u[s] \in Seq(TableEntries) /\ Len(t[s]) \in Nat
  BY <1>1, <1>2 DEF Replaced, Tables
<1>4. Counted(u, n, k + (Len(u[s]) - Len(t[s])))
  BY <1>1, <1>2, <1>3, CountChanges
<1>5. k + (Len(u[s]) - Len(t[s])) = k + 1
  BY <1>2, <1>3
<1>. QED
  BY <1>4, <1>5

LEMMA PutIsTable ==
    ASSUME NEW n \in Nat, n # 0, NEW t \in Tables(n), NEW e \in TableEntries
    PROVE  Table!PutFirst(t, n, e) \in Tables(n)
BY PutFirstIs DEF PutIs, Replaced

\* The chain c has been moved to the table: at tells how it fills.
Moves(t, n, c, at) ==
    /\ at \in [0..Len(c) -> Tables(n)] /\ at[0] = t
    /\ \A i \in 1..Len(c) : at[i] = Table!PutFirst(at[i - 1], n, c[i])

LEMMA MovedIs ==
    ASSUME NEW n \in Nat, n # 0, NEW t \in Tables(n), NEW c \in Seq(TableEntries)
    PROVE  \E at : Moves(t, n, c, at) /\ Table!Moved(t, n, c) = at[Len(c)]
<1> DEFINE N == Len(c)
           D == Tables(n)
           step == [x \in D |-> [i \in 1..N |-> Table!PutFirst(x, n, c[i])]]
<1>1. N \in Nat /\ \A i \in 1..N : c[i] \in TableEntries
  OBVIOUS
<1>2. step \in [D -> [1..N -> D]]
  <2> SUFFICES ASSUME NEW x \in D, NEW i \in 1..N
               PROVE  Table!PutFirst(x, n, c[i]) \in D
    OBVIOUS
  <2>1. x \in Tables(n) /\ c[i] \in TableEntries
    BY <1>1
  <2>. QED
    BY <2>1, PutIsTable
<1>3. \A x \in D, i \in 1..N : step[x][i] = Table!PutFirst(x, n, c[i])
  OBVIOUS
<1>4. t \in D
  OBVIOUS
<1> HIDE DEF D, step, N
<1>5. PICK at : Recurs(N, D, t, step, at)
  <2>1. N \in Nat
    BY <1>1
  <2>. QED
    BY <1>2, <1>4, <2>1, RecursionExists
<1>6. /\ at \in [0..N -> D] /\ at[0] = t
       /\ \A i \in 1..N : at[i] = step[at[i - 1]][i]
  BY <1>5 DEF Recurs
<1> DEFINE F(f) == [i \in 0..N |-> IF i = 0 THEN t ELSE Table!PutFirst(f[i - 1], n, c[i])]
           w == CHOOSE f : f = F(f)
<1>7. \A i \in 1..N : at[i - 1] \in D /\ at[i] = Table!PutFirst(at[i - 1], n, c[i])
  <2> SUFFICES ASSUME NEW i \in 1..N
               PROVE  at[i - 1] \in D /\ at[i] = Table!PutFirst(at[i - 1], n, c[i])
    OBVIOUS
  <2>1. i - 1 \in 0..N
    BY <1>1
  <2>2. at[i - 1] \in D
    BY <1>6, <2>1
  <2>. QED
    BY <1>3, <1>6, <2>2
<1>8. at = F(at)
  <2>1. \A i \in 0..N : i # 0 => i \in 1..N
    BY <1>1
  <2>. QED
    BY <1>7, <1>6, <2>1
<1>9. w = F(w)
  BY <1>8, Zenon
<1>10. Table!Moved(t, n, c) = w[N]
  BY Zenon DEF Table!Moved, N
<1> HIDE DEF w
<1>11. w[0] = t /\ \A i \in 1..N : w[i] = Table!PutFirst(w[i - 1], n, c[i])
  <2>1. \A i \in 0..N : w[i] = F(w)[i]
    BY <1>9
  <2>2. 0 \in 0..N /\ \A i \in 1..N : i \in 0..N /\ i # 0
    BY <1>1
  <2>. QED
    BY <2>1, <2>2
<1>12. \A i \in 0..N : w[i] = at[i]
  <2> DEFINE S == {i \in 0..N : w[i] = at[i]}
  <2>1. 0 \in S
    <3>1. 0 \in 0..N
      BY <1>1
    <3>. QED
      BY <1>11, <1>6, <3>1
  <2>2. ASSUME NEW i \in 0..N, i \in S, i + 1 \in 0..N
        PROVE  i + 1 \in S
    <3>1. i + 1 \in 1..N /\ (i + 1) - 1 = i
      BY <1>1, <2>2
    <3>2. w[i] = at[i]
      BY <2>2
    <3>3. /\ w[i + 1] = Table!PutFirst(w[i], n, c[i + 1])
          /\ at[i + 1] = Table!PutFirst(at[i], n, c[i + 1])
      BY <1>7, <1>11, <3>1
    <3>4. w[i + 1] = at[i + 1]
      BY <3>2, <3>3
    <3>. QED
      BY <2>2, <3>4
  <2>3. (\A i \in 0..N : i \in S) => \A i \in 0..N : w[i] = at[i]
    OBVIOUS
  <2> HIDE DEF S
  <2>. QED
    BY <1>1, <2>1, <2>2, <2>3, UptoInduction
<1>13. N \in 0..N
  BY <1>1
<1>14. Table!Moved(t, n, c) = at[N]
  BY <1>10, <1>12, <1>13
<1>15. Moves(t, n, c, at)
  BY <1>7, <1>6 DEF Moves, D, N
<1>. QED
  BY <1>14, <1>15 DEF N

\* A chain whose keys are new to the table, and all different, moves there whole.
LEMMA MovedKeepsHashed ==
    ASSUME NEW n \in Nat, n # 0, NEW t, Hashed(t, n), NEW c \in Seq(TableEntries),
           \A f : InTable(t, n, f) => \A i \in 1..Len(c) : c[i].key # f.key,
           \A i, j \in 1..Len(c) : c[i].key = c[j].key => i = j,
           NEW k \in Int, Counted(t, n, k)
    PROVE  LET u == Table!Moved(t, n, c)
           IN  /\ Hashed(u, n) /\ Counted(u, n, k + Len(c))
               /\ \A f : InTable(u, n, f) <=> InTable(t, n, f) \/ \E i \in 1..Len(c) : c[i] = f
<1> DEFINE N == Len(c)
           Good(u, i) == /\ Hashed(u, n) /\ Counted(u, n, k + i)
                         /\ \A f : InTable(u, n, f)
                                     <=> InTable(t, n, f) \/ \E j \in 1..i : c[j] = f
<1>1. N \in Nat /\ t \in Tables(n) /\ \A i \in 1..N : c[i] \in TableEntries
  BY DEF Hashed
<1>2. PICK at : Moves(t, n, c, at) /\ Table!Moved(t, n, c) = at[N]
  BY <1>1, MovedIs
<1>3. /\ at[0] = t /\ \A i \in 0..N : at[i] \in Tables(n)
      /\ \A i \in 1..N : at[i] = Table!PutFirst(at[i - 1], n, c[i])
  BY <1>2 DEF Moves
<1> HIDE DEF N
<1>4. Good(at[0], 0)
  <2>1. k + 0 = k /\ \A j \in 1..0 : FALSE
    OBVIOUS
  <2>. QED
    BY <1>3, <2>1
<1>5. ASSUME NEW i \in 0..N, i + 1 \in 0..N, Good(at[i], i)
      PROVE  Good(at[i + 1], i + 1)
  <2>1. /\ i \in Nat /\ i + 1 \in 1..N /\ (i + 1) - 1 = i /\ k + i \in Int
        /\ (k + i) + 1 = k + (i + 1) /\ \A j \in 1..i : j \in 1..N /\ j # i + 1
        /\ \A j \in 1..(i + 1) : j = i + 1 \/ j \in 1..i
        /\ \A j \in 1..i : j \in 1..(i + 1)
        /\ i + 1 \in 1..(i + 1)
    BY <1>1, <1>5
  <2> DEFINE e == c[i + 1]
             v == at[i]
             u == at[i + 1]
  <2>2. e \in TableEntries /\ v \in Tables(n) /\ u = Table!PutFirst(v, n, e)
    BY <1>1, <1>3, <2>1
  <2>3. PutIs(v, n, e, u)
    BY <2>2, PutFirstIs
  <2>4. ASSUME NEW f, InTable(v, n, f)
        PROVE  f.key # e.key
    <3>1. InTable(t, n, f) \/ \E j \in 1..i : c[j] = f
      BY <1>5, <2>4
    <3>2. CASE InTable(t, n, f)
      BY <2>1, <3>2 DEF N
    <3>3. ASSUME NEW j \in 1..i, c[j] = f
          PROVE  f.key # e.key
      BY <2>1, <3>3 DEF N
    <3>. QED
      BY <3>1, <3>2, <3>3
  <2>5. Hashed(v, n) /\ Counted(v, n, k + i)
    BY <1>5
  <2> HIDE DEF e, v, u
  <2>6. Hashed(u, n) /\ \A f : InTable(u, n, f) <=> InTable(v, n, f) \/ f = e
    BY <2>2, <2>3, <2>4, <2>5, PutKeepsHashed
  <2>7. Counted(u, n, k + (i + 1))
    BY <2>1, <2>2, <2>3, <2>5, PutCounted
  <2>8. ASSUME NEW f
        PROVE  InTable(u, n, f) <=> InTable(t, n, f) \/ \E j \in 1..(i + 1) : c[j] = f
    <3>1. InTable(v, n, f) <=> InTable(t, n, f) \/ \E j \in 1..i : c[j] = f
      BY <1>5 DEF v
    <3>2. (\E j \in 1..(i + 1) : c[j] = f) <=> (\E j \in 1..i : c[j] = f) \/ f = e
      BY <2>1 DEF e
    <3>. QED
      BY <2>6, <3>1, <3>2
  <2>9. Good(u, i + 1)
    BY <2>6, <2>7, <2>8
  <2>. QED
    BY <2>9 DEF u
<1> HIDE DEF Good
<1>6. \A i \in 0..N : Good(at[i], i)
  <2> DEFINE S == {i \in 0..N : Good(at[i], i)}
  <2>1. 0 \in S
    <3>1. 0 \in 0..N
      BY <1>1
    <3>. QED
      BY <1>4, <3>1
  <2>2. ASSUME NEW i \in 0..N, i \in S, i + 1 \in 0..N
        PROVE  i + 1 \in S
    <3>1. Good(at[i], i)
      BY <2>2
    <3>2. Good(at[i + 1], i + 1)
      BY <1>5, <2>2, <3>1
    <3>. QED
      BY <2>2, <3>2
  <2>3. (\A i \in 0..N : i \in S) => \A i \in 0..N : Good(at[i], i)
    OBVIOUS
  <2> HIDE DEF S
  <2>. QED
    BY <1>1, <2>1, <2>2, <2>3, UptoInduction
<1>7. N \in 0..N
  BY <1>1
<1>8. Good(Table!Moved(t, n, c), N)
  BY <1>2, <1>6, <1>7
<1>. QED
  BY <1>8 DEF Good, N

LEMMA MovedIsTable ==
    ASSUME NEW n \in Nat, n # 0, NEW t \in Tables(n), NEW c \in Seq(TableEntries)
    PROVE  Table!Moved(t, n, c) \in Tables(n)
<1>1. PICK at : Moves(t, n, c, at) /\ Table!Moved(t, n, c) = at[Len(c)]
  BY MovedIs
<1>2. Len(c) \in 0..Len(c)
  OBVIOUS
<1>. QED
  BY <1>1, <1>2 DEF Moves

NoChains(n) == [slot \in 0..(n - 1) |-> <<>>]

LEMMA NoChainsHashed ==
    ASSUME NEW n \in Nat
    PROVE  Hashed(NoChains(n), n) /\ Counted(NoChains(n), n, 0)
           /\ \A f : ~InTable(NoChains(n), n, f)
<1> DEFINE t == NoChains(n)
           at == [i \in 0..n |-> 0]
<1>1. <<>> \in Seq(TableEntries)
  OBVIOUS
<1>2. t \in Tables(n) /\ \A s \in 0..(n - 1) : t[s] = <<>>
  BY <1>1 DEF NoChains, Tables
<1>3. \A s \in 0..(n - 1) : Len(t[s]) = 0
  BY <1>2
<1>4. at \in [0..n -> Int] /\ at[0] = 0 /\ at[n] = 0
  OBVIOUS
<1>5. \A i \in 1..n : at[i] = at[i - 1] + Len(t[i - 1])
  <2> SUFFICES ASSUME NEW i \in 1..n
               PROVE  at[i] = at[i - 1] + Len(t[i - 1])
    OBVIOUS
  <2>1. i \in 0..n /\ i - 1 \in 0..n /\ i - 1 \in 0..(n - 1)
    OBVIOUS
  <2>. QED
    BY <1>3, <2>1
<1> HIDE DEF t, at
<1>6. Counted(t, n, 0)
  BY <1>4, <1>5 DEF Counted, Counts
<1>7. \A s \in 0..(n - 1) : \A i \in 1..Len(t[s]) : FALSE
  BY <1>3
<1>8. Hashed(t, n) /\ \A f : ~InTable(t, n, f)
  BY <1>2, <1>7 DEF Hashed, InTable
<1>. QED
  BY <1>6, <1>8 DEF t

\* The chains have been moved to a table of cap chains: at tells how it fills.
Rehashes(cap, at) ==
    /\ at \in [0..Table!size -> Tables(cap)] /\ at[0] = NoChains(cap)
    /\ \A i \in 1..Table!size : at[i] = Table!Moved(at[i - 1], cap, chains[i - 1])

LEMMA RehashedIs ==
    ASSUME NEW cap \in Nat, cap # 0, Table!size \in Nat, chains \in Tables(Table!size)
    PROVE  \E at : Rehashes(cap, at) /\ Table!Rehashed(cap) = at[Table!size]
<1> DEFINE N == Table!size
           D == Tables(cap)
           step == [x \in D |-> [i \in 1..N |-> Table!Moved(x, cap, chains[i - 1])]]
<1>1. N \in Nat /\ \A i \in 1..N : chains[i - 1] \in Seq(TableEntries)
  <2>1. \A i \in 1..N : i - 1 \in 0..(N - 1)
    OBVIOUS
  <2>. QED
    BY <2>1 DEF Tables
<1>2. step \in [D -> [1..N -> D]]
  <2> SUFFICES ASSUME NEW x \in D, NEW i \in 1..N
               PROVE  Table!Moved(x, cap, chains[i - 1]) \in D
    OBVIOUS
  <2>1. x \in Tables(cap) /\ chains[i - 1] \in Seq(TableEntries)
    BY <1>1
  <2>. QED
    BY <2>1, MovedIsTable
<1>3. \A x \in D, i \in 1..N : step[x][i] = Table!Moved(x, cap, chains[i - 1])
  OBVIOUS
<1>4. NoChains(cap) \in D
  BY NoChainsHashed DEF Hashed
<1> HIDE DEF D, step, N
<1>5. PICK at : Recurs(N, D, NoChains(cap), step, at)
  <2>1. N \in Nat
    BY <1>1
  <2>. QED
    BY <1>2, <1>4, <2>1, RecursionExists
<1>6. /\ at \in [0..N -> D] /\ at[0] = NoChains(cap)
      /\ \A i \in 1..N : at[i] = step[at[i - 1]][i]
  BY <1>5 DEF Recurs
<1> DEFINE F(f) == [i \in 0..N |-> IF i = 0 THEN NoChains(cap)
                                   ELSE Table!Moved(f[i - 1], cap, chains[i - 1])]
           w == CHOOSE f : f = F(f)
<1>7. \A i \in 1..N : at[i - 1] \in D /\ at[i] = Table!Moved(at[i - 1], cap, chains[i - 1])
  <2> SUFFICES ASSUME NEW i \in 1..N
               PROVE  at[i - 1] \in D /\ at[i] = Table!Moved(at[i - 1], cap, chains[i - 1])
    OBVIOUS
  <2>1. i - 1 \in 0..N
    BY <1>1
  <2>2. at[i - 1] \in D
    BY <1>6, <2>1
  <2>. QED
    BY <1>3, <1>6, <2>2
<1>8. at = F(at)
  <2>1. \A i \in 0..N : i # 0 => i \in 1..N
    BY <1>1
  <2>. QED
    BY <1>6, <1>7, <2>1
<1>9. w = F(w)
  BY <1>8, Zenon
<1>10. Table!Rehashed(cap) = w[N]
  BY Zenon DEF Table!Rehashed, N, NoChains
<1> HIDE DEF w
<1>11. /\ w[0] = NoChains(cap)
       /\ \A i \in 1..N : w[i] = Table!Moved(w[i - 1], cap, chains[i - 1])
  <2>1. \A i \in 0..N : w[i] = F(w)[i]
    BY <1>9
  <2>2. 0 \in 0..N /\ \A i \in 1..N : i \in 0..N /\ i # 0
    BY <1>1
  <2>. QED
    BY <2>1, <2>2
<1>12. \A i \in 0..N : w[i] = at[i]
  <2> DEFINE S == {i \in 0..N : w[i] = at[i]}
  <2>1. 0 \in S
    <3>1. 0 \in 0..N
      BY <1>1
    <3>. QED
      BY <1>6, <1>11, <3>1
  <2>2. ASSUME NEW i \in 0..N, i \in S, i + 1 \in 0..N
        PROVE  i + 1 \in S
    <3>1. i + 1 \in 1..N /\ (i + 1) - 1 = i
      BY <1>1, <2>2
    <3>2. w[i] = at[i]
      BY <2>2
    <3>3. /\ w[i + 1] = Table!Moved(w[i], cap, chains[i])
          /\ at[i + 1] = Table!Moved(at[i], cap, chains[i])
      BY <1>7, <1>11, <3>1
    <3>4. w[i + 1] = at[i + 1]
      BY <3>2, <3>3
    <3>. QED
      BY <2>2, <3>4
  <2>3. (\A i \in 0..N : i \in S) => \A i \in 0..N : w[i] = at[i]
    OBVIOUS
  <2> HIDE DEF S
  <2>. QED
    BY <1>1, <2>1, <2>2, <2>3, UptoInduction
<1>13. N \in 0..N
  BY <1>1
<1>14. Table!Rehashed(cap) = at[N]
  BY <1>10, <1>12, <1>13
<1>15. Rehashes(cap, at)
  BY <1>6, <1>7 DEF Rehashes, D, N
<1>. QED
  BY <1>14, <1>15 DEF N

\* Growth keeps every entry and puts it where the new size says.
LEMMA RehashedKeeps ==
    ASSUME NEW cap \in Nat, cap # 0, Table!size \in Nat, Hashed(chains, Table!size),
           NEW k \in Int, Counted(chains, Table!size, k)
    PROVE  LET u == Table!Rehashed(cap)
           IN  /\ Hashed(u, cap) /\ Counted(u, cap, k)
               /\ \A f : InTable(u, cap, f) <=> InTable(chains, Table!size, f)
<1> DEFINE N == Table!size
           t == chains
<1>1. N \in Nat /\ t \in Tables(N) /\ Hashed(t, N)
  BY DEF Hashed
<1>2. PICK at : Rehashes(cap, at) /\ Table!Rehashed(cap) = at[N]
  BY <1>1, RehashedIs
<1>3. PICK sum : Counts(t, N, sum) /\ sum[N] = k
  BY DEF Counted
<1>4. /\ at[0] = NoChains(cap)
      /\ \A i \in 1..N : at[i] = Table!Moved(at[i - 1], cap, t[i - 1])
  BY <1>2 DEF Rehashes
<1> DEFINE Before(i, f) == \E s \in 0..(i - 1) : \E j \in 1..Len(t[s]) : t[s][j] = f
           Good(u, i) == /\ Hashed(u, cap) /\ Counted(u, cap, sum[i])
                         /\ \A f : InTable(u, cap, f) <=> Before(i, f)
<1> HIDE DEF N, t
<1>5. Good(at[0], 0)
  <2>1. sum[0] = 0 /\ \A s \in 0..(0 - 1) : FALSE
    BY <1>3 DEF Counts
  <2>2. \A f : ~Before(0, f)
    BY <2>1
  <2> HIDE DEF Before
  <2>. QED
    BY <1>4, <2>1, <2>2, NoChainsHashed
<1>6. ASSUME NEW i \in 0..N, i + 1 \in 0..N, Good(at[i], i)
      PROVE  Good(at[i + 1], i + 1)
  <2>1. /\ i \in 0..(N - 1) /\ i + 1 \in 1..N /\ (i + 1) - 1 = i
        /\ \A s \in 0..(i - 1) : s \in 0..(N - 1) /\ s # i /\ s \in 0..((i + 1) - 1)
        /\ \A s \in 0..((i + 1) - 1) : s = i \/ s \in 0..(i - 1)
        /\ i \in 0..((i + 1) - 1)
    BY <1>1, <1>6
  <2> DEFINE c == t[i]
             v == at[i]
             u == at[i + 1]
             m == sum[i]
  <2>2. c \in Seq(TableEntries)
    BY <1>1, <2>1 DEF Tables
  <2>3. u = Table!Moved(v, cap, c)
    BY <1>4, <2>1
  <2>4. m \in Int /\ sum[i + 1] = m + Len(c)
    BY <1>3, <2>1 DEF Counts
  <2>5. Hashed(v, cap) /\ Counted(v, cap, m) /\ \A f : InTable(v, cap, f) <=> Before(i, f)
    BY <1>6
  <2>6. ASSUME NEW f, InTable(v, cap, f), NEW j \in 1..Len(c)
        PROVE  c[j].key # f.key
    <3>1. PICK s \in 0..(i - 1) : \E l \in 1..Len(t[s]) : t[s][l] = f
      BY <2>5, <2>6
    <3>2. Slotted(f.key, N) = s
      BY <1>1, <2>1, <3>1 DEF Hashed
    <3>3. Slotted(c[j].key, N) = i
      BY <1>1, <2>1, <2>6 DEF Hashed
    <3>4. s # i
      BY <2>1, <3>1
    <3>. QED
      BY <3>2, <3>3, <3>4
  <2>7. \A j, l \in 1..Len(c) : c[j].key = c[l].key => j = l
    BY <1>1, <2>1 DEF Hashed
  <2>8. \A f : Before(i + 1, f) <=> Before(i, f) \/ \E j \in 1..Len(c) : c[j] = f
    BY <2>1
  <2> HIDE DEF c, v, u, m, Before
  <2>9. /\ Hashed(u, cap) /\ Counted(u, cap, m + Len(c))
        /\ \A f : InTable(u, cap, f) <=> InTable(v, cap, f) \/ \E j \in 1..Len(c) : c[j] = f
    BY <2>2, <2>3, <2>4, <2>5, <2>6, <2>7, MovedKeepsHashed
  <2>10. \A f : InTable(u, cap, f) <=> Before(i + 1, f)
    BY <2>5, <2>8, <2>9
  <2>. QED
    BY <2>4, <2>9, <2>10 DEF u
<1>7. \A f : Before(N, f) <=> InTable(t, N, f)
  BY DEF InTable
<1> HIDE DEF Good, Before
<1>8. \A i \in 0..N : Good(at[i], i)
  <2> DEFINE S == {i \in 0..N : Good(at[i], i)}
  <2>1. 0 \in S
    <3>1. 0 \in 0..N
      BY <1>1
    <3>. QED
      BY <1>5, <3>1
  <2>2. ASSUME NEW i \in 0..N, i \in S, i + 1 \in 0..N
        PROVE  i + 1 \in S
    <3>1. Good(at[i], i)
      BY <2>2
    <3>2. Good(at[i + 1], i + 1)
      BY <1>6, <2>2, <3>1
    <3>. QED
      BY <2>2, <3>2
  <2>3. (\A i \in 0..N : i \in S) => \A i \in 0..N : Good(at[i], i)
    OBVIOUS
  <2> HIDE DEF S
  <2>. QED
    BY <1>1, <2>1, <2>2, <2>3, UptoInduction
<1>9. N \in 0..N
  BY <1>1
<1>10. Good(Table!Rehashed(cap), N)
  BY <1>2, <1>8, <1>9
<1>. QED
  BY <1>3, <1>7, <1>10 DEF Good, N, t

LEMMA TableSize ==
    ASSUME NEW n \in Nat, NEW t \in Tables(n)
    PROVE  DOMAIN t = 0..(n - 1) /\ Cardinality(DOMAIN t) = n
<1>1. DOMAIN t = 0..(n - 1)
  BY DEF Tables
<1>2. Cardinality(0..(n - 1)) = n
  <2>1. CASE n = 0
    <3>1. 0..(n - 1) = {}
      BY <2>1
    <3>. QED
      BY <2>1, <3>1, FS_EmptySet
  <2>2. CASE n # 0
    <3>1. 0 \in Int /\ n - 1 \in Int /\ 0 <= n - 1 /\ (n - 1) - 0 + 1 = n
      BY <2>2
    <3>. QED
      BY <3>1, FS_Interval
  <2>. QED
    BY <2>1, <2>2
<1>. QED
  BY <1>1, <1>2

\* What hash_table_find finds in a table of n chains.
HasIn(t, n, k) == n # 0 /\ Table!HasKey(t[Slotted(k, n)], k)
PlaceIn(t, n, k) == Table!At(t[Slotted(k, n)], k)
ValueIn(t, n, k) == IF HasIn(t, n, k) THEN t[Slotted(k, n)][PlaceIn(t, n, k)].val ELSE EMPTY

LEMMA FindIs ==
    ASSUME NEW n \in Nat, NEW t, Hashed(t, n), NEW k \in TableKeys
    PROVE  /\ HasIn(t, n, k) <=> \E e : InTable(t, n, e) /\ e.key = k
           /\ \A e : InTable(t, n, e) /\ e.key = k => ValueIn(t, n, k) = e.val
           /\ HasIn(t, n, k) => /\ PlaceIn(t, n, k) \in 1..Len(t[Slotted(k, n)])
                                /\ t[Slotted(k, n)][PlaceIn(t, n, k)].key = k
<1> DEFINE s == Slotted(k, n)
           a == PlaceIn(t, n, k)
           P(i) == i \in DOMAIN t[s] /\ t[s][i].key = k /\ \A j \in 1..(i - 1) : t[s][j].key # k
<1>1. ASSUME n # 0, NEW i \in 1..Len(t[s]), t[s][i].key = k
      PROVE  /\ a \in 1..Len(t[s]) /\ t[s][a].key = k
             /\ ValueIn(t, n, k) = t[s][i].val /\ HasIn(t, n, k)
  <2>1. s \in 0..(n - 1)
    BY <1>1, SlotIsIn
  <2> HIDE DEF s
  <2>2. t[s] \in Seq(TableEntries) /\ DOMAIN t[s] = 1..Len(t[s]) /\ Len(t[s]) \in Nat
    BY <2>1 DEF Hashed, Tables
  <2>3. ASSUME NEW j \in 1..(i - 1), t[s][j].key = k
        PROVE  FALSE
    <3>1. j \in 1..Len(t[s]) /\ j # i
      BY <2>2
    <3>2. j = i
      BY <1>1, <2>1, <2>3, <3>1 DEF Hashed
    <3>. QED
      BY <3>1, <3>2
  <2>4. P(i)
    BY <1>1, <2>2, <2>3
  <2>5. a = CHOOSE j \in DOMAIN t[s] :
                t[s][j].key = k /\ \A l \in 1..(j - 1) : t[s][l].key # k
    BY DEF PlaceIn, Table!At, s
  <2> HIDE DEF a
  <2>6. a \in DOMAIN t[s] /\ t[s][a].key = k
    BY <2>4, <2>5
  <2>7. a = i
    BY <1>1, <2>1, <2>2, <2>6 DEF Hashed
  <2>8. HasIn(t, n, k)
    BY <1>1, <2>2 DEF HasIn, Table!HasKey, s
  <2>9. ValueIn(t, n, k) = t[s][a].val
    BY <2>8 DEF ValueIn, s, a
  <2>. QED
    BY <2>2, <2>6, <2>7, <2>8, <2>9
<1>2. ASSUME NEW e, InTable(t, n, e), e.key = k
      PROVE  HasIn(t, n, k) /\ ValueIn(t, n, k) = e.val
  <2>1. n # 0
    <3>1. CASE n = 0
      BY <1>2, <3>1 DEF InTable
    <3>. QED
      BY <3>1
  <2>2. PICK i \in 1..Len(t[s]) : t[s][i] = e
    BY <1>2, InItsSlot
  <2>. QED
    BY <1>1, <1>2, <2>1, <2>2
<1>3. ASSUME HasIn(t, n, k)
      PROVE  /\ \E e : InTable(t, n, e) /\ e.key = k
             /\ a \in 1..Len(t[s]) /\ t[s][a].key = k
  <2>1. n # 0 /\ \E i \in DOMAIN t[s] : t[s][i].key = k
    BY <1>3 DEF HasIn, Table!HasKey
  <2>2. s \in 0..(n - 1)
    BY <2>1, SlotIsIn
  <2> HIDE DEF s
  <2>3. DOMAIN t[s] = 1..Len(t[s])
    BY <2>2 DEF Hashed, Tables
  <2>4. PICK i \in 1..Len(t[s]) : t[s][i].key = k
    BY <2>1, <2>3
  <2>5. InTable(t, n, t[s][i])
    BY <2>2 DEF InTable
  <2>. QED
    BY <1>1, <2>1, <2>4, <2>5
<1> HIDE DEF s, a
<1>4. HasIn(t, n, k) => a \in 1..Len(t[s]) /\ t[s][a].key = k
  BY <1>3
<1>. QED
  BY <1>2, <1>3, <1>4 DEF s, a

\* What the table holds afterwards: e and what was there of other keys; or all but key.
HoldsToo(t, n, u, m, e) ==
    \A f : InTable(u, m, f) <=> (InTable(t, n, f) /\ f.key # e.key) \/ f = e
HoldsNot(t, n, u, m, key) == \A f : InTable(u, m, f) <=> InTable(t, n, f) /\ f.key # key
HoldsSame(t, n, u, m) == \A f : InTable(u, m, f) <=> InTable(t, n, f)

\* The same entries, the same answers.
LEMMA SameEntries ==
    ASSUME NEW n \in Nat, NEW t, Hashed(t, n), NEW m \in Nat, NEW u, Hashed(u, m),
           HoldsSame(t, n, u, m), NEW k \in TableKeys
    PROVE  (HasIn(u, m, k) <=> HasIn(t, n, k)) /\ ValueIn(u, m, k) = ValueIn(t, n, k)
<1>1. HasIn(u, m, k) <=> HasIn(t, n, k)
  <2>1. HasIn(t, n, k) <=> \E e : InTable(t, n, e) /\ e.key = k
    BY FindIs
  <2>2. HasIn(u, m, k) <=> \E e : InTable(u, m, e) /\ e.key = k
    BY FindIs
  <2>. QED
    BY <2>1, <2>2 DEF HoldsSame
<1>2. CASE HasIn(t, n, k)
  <2>1. PICK e : InTable(t, n, e) /\ e.key = k
    BY <1>2, FindIs
  <2>2. ValueIn(t, n, k) = e.val
    BY <2>1, FindIs
  <2>3. InTable(u, m, e)
    BY <2>1 DEF HoldsSame
  <2>4. ValueIn(u, m, k) = e.val
    BY <2>1, <2>3, FindIs
  <2>. QED
    BY <1>1, <2>2, <2>4
<1>3. CASE ~HasIn(t, n, k)
  BY <1>1, <1>3 DEF ValueIn
<1>. QED
  BY <1>2, <1>3

\* One entry more, in the place of what was there for its key.
LEMMA EntrySet ==
    ASSUME NEW n \in Nat, NEW t, Hashed(t, n), NEW m \in Nat, NEW u, Hashed(u, m),
           NEW e \in TableEntries,
           HoldsToo(t, n, u, m, e), NEW k \in TableKeys
    PROVE  ValueIn(u, m, k) = IF k = e.key THEN e.val ELSE ValueIn(t, n, k)
<1>1. CASE k = e.key
  <2>1. InTable(u, m, e) /\ e.key = k
    BY <1>1 DEF HoldsToo
  <2>2. ValueIn(u, m, k) = e.val
    BY <2>1, FindIs
  <2>. QED
    BY <1>1, <2>2
<1>2. CASE k # e.key
  <2>1. \A f : f.key = k => (InTable(u, m, f) <=> InTable(t, n, f))
    BY <1>2 DEF HoldsToo
  <2>2. CASE HasIn(t, n, k)
    <3>1. PICK f : InTable(t, n, f) /\ f.key = k
      BY <2>2, FindIs
    <3>2. ValueIn(t, n, k) = f.val
      BY <3>1, FindIs
    <3>3. InTable(u, m, f)
      BY <2>1, <3>1
    <3>4. ValueIn(u, m, k) = f.val
      BY <3>1, <3>3, FindIs
    <3>. QED
      BY <1>2, <3>2, <3>4
  <2>3. CASE ~HasIn(t, n, k)
    <3>1. HasIn(t, n, k) <=> \E f : InTable(t, n, f) /\ f.key = k
      BY FindIs
    <3>2. HasIn(u, m, k) <=> \E f : InTable(u, m, f) /\ f.key = k
      BY FindIs
    <3>3. ~HasIn(u, m, k)
      BY <2>1, <2>3, <3>1, <3>2
    <3>. QED
      BY <1>2, <2>3, <3>3 DEF ValueIn
  <2>. QED
    BY <2>2, <2>3
<1>. QED
  BY <1>1, <1>2

\* What was there for a key is gone.
LEMMA EntryGone ==
    ASSUME NEW n \in Nat, NEW t, Hashed(t, n), NEW m \in Nat, NEW u, Hashed(u, m),
           NEW key, HoldsNot(t, n, u, m, key),
           NEW k \in TableKeys
    PROVE  ValueIn(u, m, k) = IF k = key THEN EMPTY ELSE ValueIn(t, n, k)
<1>1. HasIn(u, m, k) <=> \E f : InTable(u, m, f) /\ f.key = k
  BY FindIs
<1>2. HasIn(t, n, k) <=> \E f : InTable(t, n, f) /\ f.key = k
  BY FindIs
<1>3. CASE k = key
  <2>1. ~HasIn(u, m, k)
    BY <1>1, <1>3 DEF HoldsNot
  <2>. QED
    BY <1>3, <2>1 DEF ValueIn
<1>4. CASE k # key
  <2>1. \A f : f.key = k => (InTable(u, m, f) <=> InTable(t, n, f))
    BY <1>4 DEF HoldsNot
  <2>2. CASE HasIn(t, n, k)
    <3>1. PICK f : InTable(t, n, f) /\ f.key = k
      BY <1>2, <2>2
    <3>2. ValueIn(t, n, k) = f.val
      BY <3>1, FindIs
    <3>3. InTable(u, m, f)
      BY <2>1, <3>1
    <3>4. ValueIn(u, m, k) = f.val
      BY <3>1, <3>3, FindIs
    <3>. QED
      BY <1>4, <3>2, <3>4
  <2>3. CASE ~HasIn(t, n, k)
    <3>1. ~HasIn(u, m, k)
      BY <1>1, <1>2, <2>1, <2>3
    <3>. QED
      BY <1>4, <2>3, <3>1 DEF ValueIn
  <2>. QED
    BY <2>2, <2>3
<1>. QED
  BY <1>3, <1>4

SetAt(c, a, e) == [c EXCEPT ![a] = e]

LEMMA OneReplaced ==
    ASSUME NEW S, NEW c \in Seq(S), NEW a \in 1..Len(c), NEW e \in S
    PROVE  /\ SetAt(c, a, e) \in Seq(S) /\ Len(SetAt(c, a, e)) = Len(c)
           /\ SetAt(c, a, e)[a] = e
           /\ \A i \in 1..Len(c) : i # a => SetAt(c, a, e)[i] = c[i]
BY DEF SetAt

Overwritten(t, n, e) ==
    [t EXCEPT ![Slotted(e.key, n)] = [@ EXCEPT ![PlaceIn(t, n, e.key)] = e]]

\* An entry that is there takes the new value in its place.
LEMMA OverwriteKeeps ==
    ASSUME NEW n \in Nat, NEW t, Hashed(t, n), NEW e \in TableEntries, HasIn(t, n, e.key),
           NEW k \in Int, Counted(t, n, k),
           NEW u, u = Overwritten(t, n, e)
    PROVE  /\ Hashed(u, n) /\ Counted(u, n, k)
           /\ \A f : InTable(u, n, f) <=> (InTable(t, n, f) /\ f.key # e.key) \/ f = e
<1> DEFINE s == Slotted(e.key, n)
           a == PlaceIn(t, n, e.key)
           old == t[s]
           c == SetAt(old, a, e)
<1>1. e.key \in TableKeys /\ n # 0
  BY EntryIs DEF HasIn
<1>2. s \in 0..(n - 1)
  BY <1>1, SlotIsIn
<1>3. a \in 1..Len(t[s]) /\ t[s][a].key = e.key
  BY <1>1, FindIs
<1>4. u = [t EXCEPT ![s] = c] /\ Slotted(e.key, n) = s
  BY DEF SetAt, Overwritten
<1> HIDE DEF s, a
<1>5. t \in Tables(n) /\ t[s] \in Seq(TableEntries)
  BY <1>2 DEF Hashed, Tables
<1>6. /\ c \in Seq(TableEntries) /\ Len(c) = Len(t[s]) /\ c[a] = e
      /\ \A i \in 1..Len(c) : i # a => c[i] = t[s][i]
  <2>1. old \in Seq(TableEntries) /\ a \in 1..Len(old)
    BY <1>3, <1>5
  <2> HIDE DEF old
  <2>2. /\ c \in Seq(TableEntries) /\ Len(c) = Len(old) /\ c[a] = e
        /\ \A i \in 1..Len(old) : i # a => c[i] = old[i]
    BY <2>1, OneReplaced
  <2> HIDE DEF c
  <2>. QED
    BY <2>2 DEF old
<1> HIDE DEF c
<1>7. Replaced(t, n, s, c, u)
  <2>1. Replaced(t, n, s, c, [t EXCEPT ![s] = c])
    BY <1>2, <1>5, <1>6, ReplacedIs
  <2>. QED
    BY <1>4, <2>1
<1>8. u \in Tables(n) /\ u[s] = c /\ \A r \in 0..(n - 1) : r # s => u[r] = t[r]
  BY <1>7 DEF Replaced
<1>9. Counted(u, n, k)
  <2>1. Counted(u, n, k + (Len(c) - Len(t[s])))
    BY <1>2, <1>5, <1>6, <1>7, CountChanges
  <2>2. k + (Len(c) - Len(t[s])) = k
    BY <1>5, <1>6
  <2>. QED
    BY <2>1, <2>2
<1>10. \A i \in 1..Len(c) : c[i].key = t[s][i].key
  BY <1>3, <1>6
<1>11. \A r \in 0..(n - 1) : \A i \in 1..Len(u[r]) :
          i \in 1..Len(t[r]) /\ u[r][i].key = t[r][i].key
  <2> SUFFICES ASSUME NEW r \in 0..(n - 1), NEW i \in 1..Len(u[r])
               PROVE  i \in 1..Len(t[r]) /\ u[r][i].key = t[r][i].key
    OBVIOUS
  <2>1. CASE r = s
    BY <1>6, <1>8, <1>10, <2>1
  <2>2. CASE r # s
    BY <1>8, <2>2
  <2>. QED
    BY <2>1, <2>2
<1>12. Hashed(u, n)
  <2>1. \A r \in 0..(n - 1) : \A i \in 1..Len(u[r]) : Slotted(u[r][i].key, n) = r
    BY <1>11 DEF Hashed
  <2>2. \A r \in 0..(n - 1) : \A i, j \in 1..Len(u[r]) : u[r][i].key = u[r][j].key => i = j
    BY <1>11 DEF Hashed
  <2>. QED
    BY <1>8, <2>1, <2>2 DEF Hashed
<1>13. InTable(u, n, e)
  BY <1>2, <1>3, <1>6, <1>8 DEF InTable
<1>14. ASSUME NEW f, InTable(u, n, f), f # e
       PROVE  InTable(t, n, f) /\ f.key # e.key
  <2>1. f.key # e.key
    BY <1>12, <1>13, <1>14, OneEntry
  <2>2. PICK r \in 0..(n - 1) : \E i \in 1..Len(u[r]) : u[r][i] = f
    BY <1>14 DEF InTable
  <2>3. PICK i \in 1..Len(u[r]) : u[r][i] = f
    BY <2>2
  <2>4. i \in 1..Len(t[r])
    BY <1>11
  <2>5. t[r][i] = f
    <3>1. CASE r = s
      BY <1>6, <1>8, <1>14, <2>3, <3>1
    <3>2. CASE r # s
      BY <1>8, <2>3, <3>2
    <3>. QED
      BY <3>1, <3>2
  <2>6. InTable(t, n, f)
    BY <2>4, <2>5 DEF InTable
  <2>. QED
    BY <2>1, <2>6
<1>15. ASSUME NEW f, InTable(t, n, f), f.key # e.key
       PROVE  InTable(u, n, f)
  <2>1. PICK r \in 0..(n - 1) : \E i \in 1..Len(t[r]) : t[r][i] = f
    BY <1>15 DEF InTable
  <2>2. PICK i \in 1..Len(t[r]) : t[r][i] = f
    BY <2>1
  <2>3. i \in 1..Len(u[r]) /\ u[r][i] = f
    <3>1. CASE r = s
      <4>1. i # a
        BY <1>3, <1>15, <2>2, <3>1
      <4>. QED
        BY <1>6, <1>8, <2>2, <3>1, <4>1
    <3>2. CASE r # s
      BY <1>8, <2>2, <3>2
    <3>. QED
      BY <3>1, <3>2
  <2>. QED
    BY <2>3 DEF InTable
<1>16. ASSUME NEW f
       PROVE  InTable(u, n, f) <=> (InTable(t, n, f) /\ f.key # e.key) \/ f = e
  BY <1>13, <1>14, <1>15
<1>. QED
  BY <1>9, <1>12, <1>16

WithoutKey(t, n, key) == [t EXCEPT ![Slotted(key, n)] = Table!Unlinked(@, key)]

\* The entry of a key is taken out of its chain.
LEMMA UnlinkKeeps ==
    ASSUME NEW n \in Nat, NEW t, Hashed(t, n), NEW key \in TableKeys, HasIn(t, n, key),
           NEW k \in Int, Counted(t, n, k),
           NEW u, u = WithoutKey(t, n, key)
    PROVE  /\ Hashed(u, n) /\ Counted(u, n, k - 1)
           /\ \A f : InTable(u, n, f) <=> InTable(t, n, f) /\ f.key # key
<1> DEFINE s == Slotted(key, n)
           a == PlaceIn(t, n, key)
           c == Table!Unlinked(t[s], key)
<1>1. n # 0
  BY DEF HasIn
<1>2. s \in 0..(n - 1)
  BY <1>1, SlotIsIn
<1>3. a \in 1..Len(t[s]) /\ t[s][a].key = key
  BY FindIs
<1>4. u = [t EXCEPT ![s] = c]
  BY DEF WithoutKey
<1>5. c = [i \in 1..(Len(t[s]) - 1) |-> IF i < a THEN t[s][i] ELSE t[s][i + 1]]
  BY DEF Table!Unlinked, PlaceIn
<1> HIDE DEF s, a, c
<1>6. /\ t \in Tables(n) /\ t[s] \in Seq(TableEntries) /\ Len(t[s]) \in Nat
      /\ \A i, j \in 1..Len(t[s]) : t[s][i].key = t[s][j].key => i = j
      /\ \A i \in 1..Len(t[s]) : Slotted(t[s][i].key, n) = s
  BY <1>2 DEF Hashed, Tables
<1> DEFINE from(i) == IF i < a THEN i ELSE i + 1
<1>7. /\ c \in Seq(TableEntries) /\ Len(c) = Len(t[s]) - 1
      /\ \A i \in 1..Len(c) : /\ from(i) \in 1..Len(t[s]) /\ from(i) # a
                              /\ c[i] = t[s][from(i)]
  <2>1. Len(t[s]) - 1 \in Nat
    BY <1>3, <1>6
  <2>2. \A i \in 1..(Len(t[s]) - 1) :
           /\ from(i) \in 1..Len(t[s]) /\ from(i) # a /\ c[i] = t[s][from(i)]
    BY <1>3, <1>5, <1>6
  <2>3. \A i \in 1..Len(t[s]) : t[s][i] \in TableEntries
    BY <1>6
  <2>4. \A i \in 1..(Len(t[s]) - 1) : c[i] \in TableEntries
    BY <2>2, <2>3
  <2>5. c = [i \in 1..(Len(t[s]) - 1) |-> c[i]]
    BY <1>5
  <2> HIDE DEF from
  <2>6. c \in [1..(Len(t[s]) - 1) -> TableEntries]
    BY <2>4, <2>5
  <2>7. c \in Seq(TableEntries) /\ Len(c) = Len(t[s]) - 1
    BY <2>1, <2>6
  <2>. QED
    BY <2>2, <2>7
<1>8. \A i, j \in 1..Len(c) : from(i) = from(j) => i = j
  BY <1>3, <1>6
<1>9. \A j \in 1..Len(t[s]) : j # a => \E i \in 1..Len(c) : from(i) = j
  <2> SUFFICES ASSUME NEW j \in 1..Len(t[s]), j # a
               PROVE  \E i \in 1..Len(c) : from(i) = j
    OBVIOUS
  <2>1. CASE j < a
    <3>1. j \in 1..Len(c) /\ from(j) = j
      BY <1>3, <1>6, <1>7, <2>1
    <3>. QED
      BY <3>1
  <2>2. CASE j > a
    <3>1. j - 1 \in 1..Len(c) /\ from(j - 1) = j
      BY <1>3, <1>6, <1>7, <2>2
    <3>. QED
      BY <3>1
  <2>3. j < a \/ j > a
    BY <1>3, <1>6
  <2>. QED
    BY <2>1, <2>2, <2>3
<1> HIDE DEF from
<1>10. Replaced(t, n, s, c, u)
  <2>1. t \in Tables(n) /\ c \in Seq(TableEntries)
    BY <1>6, <1>7
  <2>2. Replaced(t, n, s, c, [t EXCEPT ![s] = c])
    BY <1>2, <2>1, ReplacedIs
  <2>. QED
    BY <1>4, <2>2
<1>11. u \in Tables(n) /\ u[s] = c /\ \A r \in 0..(n - 1) : r # s => u[r] = t[r]
  BY <1>10 DEF Replaced
<1>12. Counted(u, n, k - 1)
  <2>1. Counted(u, n, k + (Len(c) - Len(t[s])))
    BY <1>2, <1>6, <1>7, <1>10, CountChanges
  <2>2. k + (Len(c) - Len(t[s])) = k - 1
    BY <1>6, <1>7
  <2>. QED
    BY <2>1, <2>2
<1>13. Hashed(u, n)
  <2>1. ASSUME NEW r \in 0..(n - 1), NEW i \in 1..Len(u[r])
        PROVE  Slotted(u[r][i].key, n) = r
    <3>1. CASE r = s
      <4>1. i \in 1..Len(c) /\ u[r][i] = c[i]
        BY <1>11, <3>1
      <4>2. from(i) \in 1..Len(t[s]) /\ c[i] = t[s][from(i)]
        BY <1>7, <4>1
      <4>3. Slotted(t[s][from(i)].key, n) = s
        BY <1>6, <4>2
      <4>. QED
        BY <3>1, <4>1, <4>2, <4>3
    <3>2. CASE r # s
      BY <1>11, <3>2 DEF Hashed
    <3>. QED
      BY <3>1, <3>2
  <2>2. ASSUME NEW r \in 0..(n - 1), NEW i \in 1..Len(u[r]), NEW j \in 1..Len(u[r]),
               u[r][i].key = u[r][j].key
        PROVE  i = j
    <3>1. CASE r = s
      <4>1. /\ i \in 1..Len(c) /\ j \in 1..Len(c) /\ c[i].key = c[j].key
        BY <1>11, <2>2, <3>1
      <4>2. /\ from(i) \in 1..Len(t[s]) /\ c[i] = t[s][from(i)]
            /\ from(j) \in 1..Len(t[s]) /\ c[j] = t[s][from(j)]
        BY <1>7, <4>1
      <4>3. from(i) = from(j)
        BY <1>6, <4>1, <4>2
      <4>. QED
        BY <1>8, <4>1, <4>3
    <3>2. CASE r # s
      BY <1>11, <2>2, <3>2 DEF Hashed
    <3>. QED
      BY <3>1, <3>2
  <2>. QED
    BY <1>11, <2>1, <2>2 DEF Hashed
<1>14. ASSUME NEW f, InTable(u, n, f)
       PROVE  InTable(t, n, f) /\ f.key # key
  <2>1. PICK r \in 0..(n - 1) : \E i \in 1..Len(u[r]) : u[r][i] = f
    BY <1>14 DEF InTable
  <2>2. PICK i \in 1..Len(u[r]) : u[r][i] = f
    BY <2>1
  <2>3. CASE r = s
    <3>1. from(i) \in 1..Len(t[s]) /\ from(i) # a /\ t[s][from(i)] = f
      BY <1>7, <1>11, <2>2, <2>3
    <3>2. f.key # key
      BY <1>3, <1>6, <3>1
    <3>. QED
      BY <1>2, <3>1, <3>2 DEF InTable
  <2>4. CASE r # s
    <3>1. i \in 1..Len(t[r]) /\ t[r][i] = f
      BY <1>11, <2>2, <2>4
    <3>2. Slotted(f.key, n) = r
      BY <3>1 DEF Hashed
    <3>3. f.key # key
      BY <2>4, <3>2 DEF s
    <3>. QED
      BY <3>1, <3>3 DEF InTable
  <2>. QED
    BY <2>3, <2>4
<1>15. ASSUME NEW f, InTable(t, n, f), f.key # key
       PROVE  InTable(u, n, f)
  <2>1. PICK r \in 0..(n - 1) : \E i \in 1..Len(t[r]) : t[r][i] = f
    BY <1>15 DEF InTable
  <2>2. PICK j \in 1..Len(t[r]) : t[r][j] = f
    BY <2>1
  <2>3. \E i \in 1..Len(u[r]) : u[r][i] = f
    <3>1. CASE r = s
      <4>1. j # a
        BY <1>3, <1>15, <2>2, <3>1
      <4>2. PICK i \in 1..Len(c) : from(i) = j
        BY <1>9, <3>1, <4>1
      <4>. QED
        BY <1>7, <1>11, <2>2, <3>1, <4>2
    <3>2. CASE r # s
      BY <1>11, <2>2, <3>2
    <3>. QED
      BY <3>1, <3>2
  <2>. QED
    BY <2>3 DEF InTable
<1>. QED
  BY <1>12, <1>13, <1>14, <1>15

\* t is a table of n chains that holds c entries.
TableIs(t, n, c) == /\ n \in Nat /\ Hashed(t, n) /\ c \in Int /\ Counted(t, n, c)
                    /\ n = 0 => t = <<>>

\* What the hash table is between two calls.
HashInv == TableIs(chains, Table!size, use)

\* What a dictionary would hold.
DictOf(t, n) == [k \in TableKeys |-> ValueIn(t, n, k)]

\* The instance has a Cardinality of its own, defined alike.
LEMMA CardinalityAlike ==
    ASSUME NEW S
    PROVE  Table!Cardinality(S) = Cardinality(S)
BY Zenon DEF Table!Cardinality, Cardinality

LEMMA TableCounts == Table!size = Cardinality(DOMAIN chains)
BY CardinalityAlike DEF Table!size

LEMMA SizeIs ==
    ASSUME NEW t, NEW n, NEW c, TableIs(t, n, c)
    PROVE  Cardinality(DOMAIN t) = n /\ (t # <<>> <=> n # 0)
<1>1. n \in Nat /\ t \in Tables(n) /\ (n = 0 => t = <<>>)
  BY DEF TableIs, Hashed
<1>2. Cardinality(DOMAIN t) = n /\ DOMAIN t = 0..(n - 1)
  BY <1>1, TableSize
<1>3. ASSUME n # 0
      PROVE  t # <<>>
  <2>1. 0 \in DOMAIN t
    BY <1>1, <1>2, <1>3
  <2>2. 0 \notin DOMAIN <<>>
    OBVIOUS
  <2>. QED
    BY <2>1, <2>2
<1>. QED
  BY <1>1, <1>2, <1>3

LEMMA HashStarts ==
    ASSUME Table!Init
    PROVE  HashInv /\ DictOf(chains, Table!size) = [k \in TableKeys |-> EMPTY]
<1>1. chains = <<>> /\ use = 0
  BY DEF Table!Init
<1>2. DOMAIN chains = {}
  <2>1. DOMAIN <<>> = {}
    OBVIOUS
  <2>. QED
    BY <1>1, <2>1
<1>3. Table!size = 0
  <2>1. Cardinality({}) = 0
    BY FS_EmptySet
  <2>2. Table!size = Cardinality(DOMAIN chains)
    BY TableCounts
  <2>. QED
    BY <1>2, <2>1, <2>2
<1>4. chains = NoChains(0)
  <2>1. 0..(0 - 1) = {} /\ <<>> = [i \in {} |-> <<>>]
    OBVIOUS
  <2>. QED
    BY <1>1, <2>1 DEF NoChains
<1>5. Hashed(chains, 0) /\ Counted(chains, 0, 0)
  BY <1>4, NoChainsHashed
<1>6. HashInv
  BY <1>1, <1>3, <1>5 DEF HashInv, TableIs
<1>7. \A k \in TableKeys : ValueIn(chains, 0, k) = EMPTY
  BY DEF ValueIn, HasIn
<1>. QED
  BY <1>3, <1>6, <1>7 DEF DictOf

\* A dictionary with another value for a key.
Setting(d, k, v) == [d EXCEPT ![k] = v]

\* Whether the table grows or the allocation fails, no entry is lost.
LEMMA GrowthKeeps ==
    ASSUME HashInv, NEW table \in Table!Grown
    PROVE  \E m : TableIs(table, m, use) /\ HoldsSame(chains, Table!size, table, m)
<1> DEFINE Kept == \E m : TableIs(table, m, use) /\ HoldsSame(chains, Table!size, table, m)
<1>1. /\ Table!size \in Nat /\ Hashed(chains, Table!size)
      /\ use \in Int /\ Counted(chains, Table!size, use)
  BY DEF HashInv, TableIs
<1>2. CASE table = chains
  BY <1>2 DEF HashInv, HoldsSame
<1>3. ASSUME NEW cap \in Nat, cap # 0, table = Table!Rehashed(cap)
      PROVE  Kept
  <2>1. /\ Hashed(table, cap) /\ Counted(table, cap, use)
        /\ HoldsSame(chains, Table!size, table, cap)
    BY <1>1, <1>3, RehashedKeeps DEF HoldsSame
  <2>2. TableIs(table, cap, use)
    BY <1>1, <1>3, <2>1 DEF TableIs
  <2>. QED
    BY <2>1, <2>2
<1>4. CASE table # chains
  <2>1. \/ table = Table!Rehashed(FirstSize)
        \/ Table!size # 0 /\ table = Table!Rehashed(2 * Table!size)
    BY <1>4 DEF Table!Grown
  <2>2. CASE table = Table!Rehashed(FirstSize)
    <3>1. FirstSize \in Nat /\ FirstSize # 0
      BY SizesAssumption
    <3>. QED
      BY <1>3, <2>2, <3>1
  <2>3. CASE Table!size # 0 /\ table = Table!Rehashed(2 * Table!size)
    <3>1. 2 * Table!size \in Nat /\ 2 * Table!size # 0
      BY <1>1, <2>3
    <3>. QED
      BY <1>3, <2>3, <3>1
  <2>. QED
    BY <2>1, <2>2, <2>3
<1>. QED
  BY <1>2, <1>4

LEMMA SameDict ==
    ASSUME NEW t, NEW n, NEW c, TableIs(t, n, c), NEW u, NEW m, NEW d, TableIs(u, m, d),
           HoldsSame(t, n, u, m)
    PROVE  DictOf(u, m) = DictOf(t, n)
<1>1. n \in Nat /\ Hashed(t, n) /\ m \in Nat /\ Hashed(u, m)
  BY DEF TableIs
<1>2. \A k \in TableKeys : ValueIn(u, m, k) = ValueIn(t, n, k)
  BY <1>1, SameEntries
<1>. QED
  BY <1>2 DEF DictOf

LEMMA SetDict ==
    ASSUME NEW t, NEW n, NEW c, TableIs(t, n, c), NEW u, NEW m, NEW d, TableIs(u, m, d),
           NEW e \in TableEntries, HoldsToo(t, n, u, m, e)
    PROVE  DictOf(u, m) = Setting(DictOf(t, n), e.key, e.val)
<1>1. n \in Nat /\ Hashed(t, n) /\ m \in Nat /\ Hashed(u, m)
  BY DEF TableIs
<1>2. \A k \in TableKeys :
         ValueIn(u, m, k) = IF k = e.key THEN e.val ELSE ValueIn(t, n, k)
  BY <1>1, EntrySet
<1>3. e.key \in TableKeys
  BY EntryIs
<1>. QED
  BY <1>2, <1>3 DEF DictOf, Setting

LEMMA GoneDict ==
    ASSUME NEW t, NEW n, NEW c, TableIs(t, n, c), NEW u, NEW m, NEW d, TableIs(u, m, d),
           NEW key \in TableKeys, HoldsNot(t, n, u, m, key)
    PROVE  DictOf(u, m) = Setting(DictOf(t, n), key, EMPTY)
<1>1. n \in Nat /\ Hashed(t, n) /\ m \in Nat /\ Hashed(u, m)
  BY DEF TableIs
<1>2. \A k \in TableKeys :
         ValueIn(u, m, k) = IF k = key THEN EMPTY ELSE ValueIn(t, n, k)
  BY <1>1, EntryGone
<1>. QED
  BY <1>2 DEF DictOf, Setting

LEMMA ValueThere ==
    ASSUME NEW t, NEW n, NEW c, TableIs(t, n, c), NEW k \in TableKeys
    PROVE  /\ DictOf(t, n)[k] = ValueIn(t, n, k)
           /\ ValueIn(t, n, k) # EMPTY <=> HasIn(t, n, k)
<1>1. n \in Nat /\ Hashed(t, n)
  BY DEF TableIs
<1>2. ASSUME HasIn(t, n, k)
      PROVE  ValueIn(t, n, k) # EMPTY
  <2>1. PICK e : InTable(t, n, e) /\ e.key = k
    BY <1>1, <1>2, FindIs
  <2>2. ValueIn(t, n, k) = e.val
    BY <1>1, <2>1, FindIs
  <2>3. e \in TableEntries
    BY <1>1, <2>1, InItsSlot
  <2>. QED
    BY <2>2, <2>3, EntryIs
<1>3. ~HasIn(t, n, k) => ValueIn(t, n, k) = EMPTY
  BY DEF ValueIn
<1>. QED
  BY <1>2, <1>3 DEF DictOf

LEMMA DictIs ==
    /\ [k \in Table!TreeKeys |-> Table!find(k)] = DictOf(chains, Table!size)
    /\ \A k \in TableKeys : Table!Found(k) <=> HasIn(chains, Table!size, k)
    /\ \A k \in TableKeys : Table!Slot(k) = Slotted(k, Table!size)
BY DEF DictOf, TableKeys, Table!find, Table!Found, Table!Slot, Slotted, HasIn, ValueIn, PlaceIn

\* The three changes of a table, and what they do to its dictionary.
LEMMA OverwriteSets ==
    ASSUME NEW t, NEW n, NEW c, TableIs(t, n, c), NEW e \in TableEntries, HasIn(t, n, e.key),
           NEW u, u = Overwritten(t, n, e)
    PROVE  TableIs(u, n, c) /\ DictOf(u, n) = Setting(DictOf(t, n), e.key, e.val)
<1>1. n \in Nat /\ n # 0 /\ Hashed(t, n) /\ c \in Int /\ Counted(t, n, c)
  BY DEF TableIs, HasIn
<1>2. Hashed(u, n) /\ Counted(u, n, c) /\ HoldsToo(t, n, u, n, e)
  BY <1>1, OverwriteKeeps DEF HoldsToo
<1>3. TableIs(u, n, c)
  BY <1>1, <1>2 DEF TableIs
<1>. QED
  BY <1>2, <1>3, SetDict

LEMMA PutSets ==
    ASSUME NEW t, NEW n, NEW c, TableIs(t, n, c), n # 0, NEW e \in TableEntries,
           ~HasIn(t, n, e.key),
           NEW u, u = Table!PutFirst(t, n, e)
    PROVE  TableIs(u, n, c + 1) /\ DictOf(u, n) = Setting(DictOf(t, n), e.key, e.val)
<1>1. n \in Nat /\ Hashed(t, n) /\ c \in Int /\ Counted(t, n, c) /\ t \in Tables(n)
  BY DEF TableIs, Hashed
<1>2. PutIs(t, n, e, u)
  BY <1>1, PutFirstIs
<1>3. \A f : InTable(t, n, f) => f.key # e.key
  <2>1. e.key \in TableKeys
    BY EntryIs
  <2>2. HasIn(t, n, e.key) <=> \E f : InTable(t, n, f) /\ f.key = e.key
    BY <1>1, <2>1, FindIs
  <2>. QED
    BY <2>2
<1>4. Hashed(u, n) /\ \A f : InTable(u, n, f) <=> InTable(t, n, f) \/ f = e
  BY <1>1, <1>2, <1>3, PutKeepsHashed
<1>5. HoldsToo(t, n, u, n, e)
  BY <1>3, <1>4 DEF HoldsToo
<1>6. Counted(u, n, c + 1)
  BY <1>1, <1>2, PutCounted
<1>7. TableIs(u, n, c + 1)
  BY <1>1, <1>4, <1>6 DEF TableIs
<1>. QED
  BY <1>5, <1>7, SetDict

LEMMA UnlinkUnsets ==
    ASSUME NEW t, NEW n, NEW c, TableIs(t, n, c), NEW key \in TableKeys, HasIn(t, n, key),
           NEW u, u = WithoutKey(t, n, key)
    PROVE  TableIs(u, n, c - 1) /\ DictOf(u, n) = Setting(DictOf(t, n), key, EMPTY)
<1>1. n \in Nat /\ n # 0 /\ Hashed(t, n) /\ c \in Int /\ Counted(t, n, c)
  BY DEF TableIs, HasIn
<1>2. Hashed(u, n) /\ Counted(u, n, c - 1) /\ HoldsNot(t, n, u, n, key)
  BY <1>1, UnlinkKeeps DEF HoldsNot
<1>3. TableIs(u, n, c - 1)
  BY <1>1, <1>2 DEF TableIs
<1>. QED
  BY <1>2, <1>3, GoneDict

\* A table that is right after a step is the table, with its size and its entries.
LEMMA NextTable ==
    ASSUME NEW m, TableIs(chains', m, use')
    PROVE  HashInv' /\ Table!size' = m
<1>1. Table!size' = Cardinality(DOMAIN chains')
  <2>1. (Table!size = Cardinality(DOMAIN chains))'
    BY TableCounts, PTL
  <2>. QED
    BY <2>1
<1>2. Cardinality(DOMAIN chains') = m
  BY SizeIs
<1>. QED
  BY <1>1, <1>2 DEF HashInv

\* The dictionary of the table, and its steps.
TableDict == [k \in Table!TreeKeys |-> Table!find(k)]
DictStep == [Table!Dict!Next]_(<<TableDict, hashRet>>)

LEMMA TableDictIs == TableDict = DictOf(chains, Table!size)
BY DictIs DEF TableDict

LEMMA DictSteps ==
    ASSUME NEW old, TableDict = old, NEW new, TableDict' = new
    PROVE  /\ \A p \in HashPairs :
                 /\ old[p[1]] = EMPTY /\ hashRet' = TRUE /\ new = Setting(old, p[1], p[2])
                       => DictStep
                 /\ old[p[1]] # EMPTY /\ hashRet' = FALSE /\ new = Setting(old, p[1], p[2])
                       => DictStep
           /\ \A k \in TableKeys :
                 hashRet' = (old[k] # EMPTY) /\ new = Setting(old, k, EMPTY) => DictStep
           /\ new = old /\ hashRet' = hashRet => DictStep
BY DEF Setting, TableDict, DictStep, Table!Dict!Next, Table!Dict!Insert, Table!Dict!Delete,
       Table!Dict!TreeKeys, TableKeys, Table!TreeKeys

LEMMA NextFinds ==
    ASSUME NEW m, TableIs(chains', m, use')
    PROVE  HashInv' /\ TableDict' = DictOf(chains', m)
<1>1. HashInv' /\ Table!size' = m
  BY NextTable
<1>2. (TableDict = DictOf(chains, Table!size))'
  BY TableDictIs, PTL
<1>3. TableDict' = DictOf(chains', Table!size')
  BY <1>2 DEF DictOf, ValueIn, HasIn, PlaceIn
<1>. QED
  BY <1>1, <1>3

LEMMA InsertOverwrites ==
    ASSUME HashInv, NEW p \in HashPairs, Table!Found(p[1]),
           Table!hash_table_insert(p[1], p[2])
    PROVE  HashInv' /\ DictStep
<1> DEFINE k == p[1]
           v == p[2]
           e == Table!Entry(k, v)
           n == Table!size
           old == DictOf(chains, n)
<1>1. k \in TableKeys /\ e \in TableEntries /\ e.key = k /\ e.val = v
  BY DEF TableKeys, Table!TreeKeys, TableEntries, Table!Entry
<1>2. /\ hashRet' = FALSE /\ use' = use
      /\ chains' = [chains EXCEPT ![Table!Slot(k)] = [@ EXCEPT ![Table!At(@, k)] = e]]
  BY DEF Table!hash_table_insert
<1>3. HasIn(chains, n, k) /\ Table!Slot(k) = Slotted(k, n)
  BY <1>1, DictIs
<1>4. chains' = Overwritten(chains, n, e)
  BY <1>1, <1>2, <1>3 DEF Overwritten, PlaceIn
<1>5. TableIs(chains, n, use) /\ TableDict = old
  BY TableDictIs DEF HashInv, n
<1> HIDE DEF k, v, e, n, old
<1>6. TableIs(chains', n, use) /\ DictOf(chains', n) = Setting(DictOf(chains, n), e.key, e.val)
  BY <1>1, <1>3, <1>4, <1>5, OverwriteSets
<1>7. HashInv' /\ TableDict' = Setting(old, k, v)
  BY <1>1, <1>2, <1>6, NextFinds DEF old
<1>8. old[k] # EMPTY
  BY <1>1, <1>3, <1>5, ValueThere DEF old
<1>. QED
  BY <1>2, <1>5, <1>7, <1>8, DictSteps DEF k, v

LEMMA InsertPuts ==
    ASSUME HashInv, NEW p \in HashPairs, ~Table!Found(p[1]),
           Table!hash_table_insert(p[1], p[2])
    PROVE  HashInv' /\ DictStep
<1> DEFINE k == p[1]
           v == p[2]
           e == Table!Entry(k, v)
           n == Table!size
           old == DictOf(chains, n)
<1>1. k \in TableKeys /\ e \in TableEntries /\ e.key = k /\ e.val = v
  BY DEF TableKeys, Table!TreeKeys, TableEntries, Table!Entry
<1>2. PICK table \in Table!Grown :
          \/ chains' = table /\ UNCHANGED <<use, hashRet, crashed>>
          \/ UNCHANGED <<chains, use, hashRet>>
          \/ /\ table # <<>>
             /\ chains' = Table!PutFirst(table, Table!Cardinality(DOMAIN table), e)
             /\ use' = use + 1 /\ hashRet' = TRUE
  BY DEF Table!hash_table_insert
<1>3. PICK m : TableIs(table, m, use) /\ HoldsSame(chains, n, table, m)
  BY GrowthKeeps
<1>4. TableIs(chains, n, use) /\ TableDict = old
  BY TableDictIs DEF HashInv, n
<1>5. ~HasIn(chains, n, k)
  BY <1>1, DictIs
<1> HIDE DEF k, v, e, n, old
<1>6. DictOf(table, m) = old
  BY <1>3, <1>4, SameDict DEF old
<1>7. CASE chains' = table /\ UNCHANGED <<use, hashRet, crashed>>
  <2>1. HashInv' /\ TableDict' = old
    BY <1>3, <1>6, <1>7, NextFinds
  <2>. QED
    BY <1>4, <1>7, <2>1, DictSteps
<1>8. CASE UNCHANGED <<chains, use, hashRet>>
  <2>1. HashInv' /\ TableDict' = old
    BY <1>4, <1>8, NextFinds DEF old
  <2>. QED
    BY <1>4, <1>8, <2>1, DictSteps
<1>9. CASE /\ table # <<>>
           /\ chains' = Table!PutFirst(table, Table!Cardinality(DOMAIN table), e)
           /\ use' = use + 1 /\ hashRet' = TRUE
  <2>1. m # 0 /\ Table!Cardinality(DOMAIN table) = m
    BY <1>3, <1>9, SizeIs, CardinalityAlike
  <2>2. chains' = Table!PutFirst(table, m, e)
    BY <1>9, <2>1
  <2>3. ~HasIn(table, m, e.key)
    <3>1. old[k] = EMPTY
      BY <1>1, <1>4, <1>5, ValueThere DEF old
    <3>2. DictOf(table, m)[k] = EMPTY
      BY <1>6, <3>1
    <3>. QED
      BY <1>1, <1>3, <3>2, ValueThere
  <2>4. TableIs(chains', m, use + 1) /\ DictOf(chains', m) = Setting(DictOf(table, m), e.key, e.val)
    BY <1>1, <1>3, <2>1, <2>2, <2>3, PutSets
  <2>5. HashInv' /\ TableDict' = Setting(old, k, v)
    BY <1>1, <1>6, <1>9, <2>4, NextFinds
  <2>6. old[k] = EMPTY
    BY <1>1, <1>4, <1>5, ValueThere DEF old
  <2>. QED
    BY <1>4, <1>9, <2>5, <2>6, DictSteps DEF k, v
<1>. QED
  BY <1>2, <1>7, <1>8, <1>9

LEMMA DeleteUnlinks ==
    ASSUME HashInv, NEW k \in TableKeys, Table!hash_table_del(k)
    PROVE  HashInv' /\ DictStep
<1> DEFINE n == Table!size
           old == DictOf(chains, n)
<1>1. /\ Table!Found(k) <=> HasIn(chains, n, k)
      /\ Table!Slot(k) = Slotted(k, n)
  BY DictIs
<1>2. \/ UNCHANGED <<chains, use, hashRet>>
      \/ /\ HasIn(chains, n, k)
         /\ chains' = [chains EXCEPT ![Slotted(k, n)] = Table!Unlinked(@, k)]
         /\ use' = use - 1 /\ hashRet' = TRUE
      \/ /\ ~HasIn(chains, n, k)
         /\ hashRet' = FALSE
         /\ UNCHANGED <<chains, use>>
  BY <1>1 DEF Table!hash_table_del
<1>3. TableIs(chains, n, use) /\ TableDict = old
  BY TableDictIs DEF HashInv
<1>4. old[k] # EMPTY <=> HasIn(chains, n, k)
  BY <1>3, ValueThere
<1> HIDE DEF n, old
<1>5. CASE UNCHANGED <<chains, use, hashRet>>
  <2>1. HashInv' /\ TableDict' = old
    BY <1>3, <1>5, NextFinds DEF old
  <2>. QED
    BY <1>3, <1>5, <2>1, DictSteps
<1>6. CASE /\ HasIn(chains, n, k)
           /\ chains' = [chains EXCEPT ![Slotted(k, n)] = Table!Unlinked(@, k)]
           /\ use' = use - 1 /\ hashRet' = TRUE
  <2>1. chains' = WithoutKey(chains, n, k)
    BY <1>6 DEF WithoutKey
  <2>2. TableIs(chains', n, use - 1) /\ DictOf(chains', n) = Setting(DictOf(chains, n), k, EMPTY)
    BY <1>3, <1>6, <2>1, UnlinkUnsets
  <2>3. HashInv' /\ TableDict' = Setting(old, k, EMPTY)
    BY <1>6, <2>2, NextFinds DEF old
  <2>4. hashRet' = (old[k] # EMPTY)
    BY <1>4, <1>6
  <2>. QED
    BY <1>3, <2>3, <2>4, DictSteps
<1>7. CASE ~HasIn(chains, n, k) /\ hashRet' = FALSE /\ UNCHANGED <<chains, use>>
  <2>1. HashInv' /\ TableDict' = old
    BY <1>3, <1>7, NextFinds DEF old
  <2>2. old = Setting(old, k, EMPTY)
    <3>1. \A x \in TableKeys : old[x] = Setting(old, k, EMPTY)[x]
      BY <1>4, <1>7 DEF Setting, old, DictOf
    <3>. QED
      BY <3>1 DEF Setting, old, DictOf
  <2>3. hashRet' = (old[k] # EMPTY)
    BY <1>4, <1>7
  <2>. QED
    BY <1>3, <2>1, <2>2, <2>3, DictSteps
<1>. QED
  BY <1>2, <1>5, <1>6, <1>7

\* What hash_table_clear frees is what use_ counts.
LEMMA ClearCounts ==
    ASSUME HashInv
    PROVE  Table!ClearMeetsAll
<1> DEFINE N == Table!size
<1>1. N \in Nat /\ Counted(chains, N, use)
  BY DEF HashInv, TableIs
<1>2. PICK at : Counts(chains, N, at) /\ at[N] = use
  BY <1>1 DEF Counted
<1> DEFINE F(f) == [i \in 0..N |-> IF i = 0 THEN 0 ELSE f[i - 1] + Len(chains[i - 1])]
           w == CHOOSE f : f = F(f)
<1>3. Table!alreadyDel = w[N]
  BY Zenon DEF Table!alreadyDel
<1> HIDE DEF N
<1>4. at \in [0..N -> Int] /\ at[0] = 0 /\ \A i \in 1..N : at[i] = at[i - 1] + Len(chains[i - 1])
  BY <1>2 DEF Counts
<1>5. at = F(at)
  <2>1. \A i \in 0..N : i # 0 => i \in 1..N
    BY <1>1
  <2>. QED
    BY <1>4, <2>1
<1>6. w = F(w)
  BY <1>5, Zenon
<1> HIDE DEF w
<1>7. w[0] = 0 /\ \A i \in 1..N : w[i] = w[i - 1] + Len(chains[i - 1])
  <2>1. \A i \in 0..N : w[i] = F(w)[i]
    BY <1>6
  <2>2. 0 \in 0..N /\ \A i \in 1..N : i \in 0..N /\ i # 0
    BY <1>1
  <2>. QED
    BY <2>1, <2>2
<1>8. \A i \in 0..N : w[i] = at[i]
  <2> DEFINE S == {i \in 0..N : w[i] = at[i]}
  <2>1. 0 \in S
    <3>1. 0 \in 0..N
      BY <1>1
    <3>. QED
      BY <1>4, <1>7, <3>1
  <2>2. ASSUME NEW i \in 0..N, i \in S, i + 1 \in 0..N
        PROVE  i + 1 \in S
    <3>1. i + 1 \in 1..N /\ (i + 1) - 1 = i
      BY <1>1, <2>2
    <3>2. w[i] = at[i]
      BY <2>2
    <3>3. w[i + 1] = w[i] + Len(chains[i]) /\ at[i + 1] = at[i] + Len(chains[i])
      BY <1>4, <1>7, <3>1
    <3>4. w[i + 1] = at[i + 1]
      BY <3>2, <3>3
    <3>. QED
      BY <2>2, <3>4
  <2>3. (\A i \in 0..N : i \in S) => \A i \in 0..N : w[i] = at[i]
    OBVIOUS
  <2> HIDE DEF S
  <2>. QED
    BY <1>1, <2>1, <2>2, <2>3, UptoInduction
<1>9. N \in 0..N
  BY <1>1
<1>10. Table!alreadyDel = use
  BY <1>2, <1>3, <1>8, <1>9
<1>. QED
  BY <1>10 DEF Table!ClearMeetsAll

\* hash_table.c: whatever the hashes and the allocations that fail, a search finds what a
\* dictionary of the same calls holds, and hash_table_clear would free all use_ counts.
THEOREM TableIsDictionary == Table!Spec => Table!Dict!Spec /\ []Table!ClearMeetsAll
<1>1. Table!Init => HashInv /\ Table!Dict!Init
  <2> SUFFICES ASSUME Table!Init
               PROVE  HashInv /\ Table!Dict!Init
    OBVIOUS
  <2>1. HashInv /\ TableDict = [k \in TableKeys |-> EMPTY]
    BY HashStarts, TableDictIs
  <2>2. hashRet = TRUE
    BY DEF Table!Init
  <2>. QED
    BY <2>1, <2>2 DEF Table!Dict!Init, Table!Dict!TreeKeys, TableDict, TableKeys, Table!TreeKeys
<1>2. HashInv /\ [Table!Next]_tableVars => HashInv' /\ DictStep
  <2> SUFFICES ASSUME HashInv, [Table!Next]_tableVars
               PROVE  HashInv' /\ DictStep
    OBVIOUS
  <2>1. ASSUME NEW p \in HashPairs, Table!hash_table_insert(p[1], p[2])
        PROVE  HashInv' /\ DictStep
    BY <2>1, InsertOverwrites, InsertPuts
  <2>2. ASSUME NEW k \in TableKeys, Table!hash_table_del(k)
        PROVE  HashInv' /\ DictStep
    BY <2>2, DeleteUnlinks
  <2>3. CASE UNCHANGED tableVars
    <3>1. UNCHANGED <<chains, use, hashRet>>
      BY <2>3 DEF tableVars
    <3>2. TableIs(chains, Table!size, use)
      BY DEF HashInv
    <3>3. HashInv' /\ TableDict' = DictOf(chains, Table!size)
      BY <3>1, <3>2, NextFinds
    <3>. QED
      BY <3>1, <3>3, TableDictIs, DictSteps
  <2>. QED
    BY <2>1, <2>2, <2>3 DEF Table!Next, TableKeys
<1>3. HashInv => Table!ClearMeetsAll
  BY ClearCounts
<1>. QED
  BY <1>1, <1>2, <1>3, PTL DEF Table!Spec, Table!Dict!Spec, DictStep, TableDict, tableVars

(***************************************************************************)
(* A program that uses all of them.                                        *)
(***************************************************************************)
\* queue.hpp, deque.hpp, stack.hpp, hash_table.c: the array and the linked class of each are
\* the same sequence and the hash table is a dictionary, for every first size, every limit
\* of the doubling, every hash and every allocation that fails.
THEOREM ContainersKeepTheirPromise ==
    Queues!Spec /\ Deques!Spec /\ Stacks!Spec /\ Table!Spec => ContainersRight
BY QueuesAreSequences, DequesAreSequences, StacksAreSequences, TableIsDictionary
   DEF ContainersRight

\* queue.hpp:55-91, deque.hpp:63-74, hash_table.c:146: both classes of queue and deque answer
\* alike at their ends and leak no node, and hash_table_clear frees what use_ counts.
THEOREM AnswersAlwaysRight ==
    Queues!Spec /\ Deques!Spec /\ Table!Spec => []AnswersRight
BY QueuesAreSequences, DequesAreSequences, TableIsDictionary, PTL DEF AnswersRight
==============================================================================
