---------------------------- MODULE TimeWheel_proofs ----------------------------
(***************************************************************************)
(* For every set of timers, every size of the wheels and every request:    *)
(* whatever the stale tails do to the lists, no pointer that Tick follows  *)
(* leads to a freed timer, and no counted timer runs too often.  And when  *)
(* the timeouts are short enough for the wheels, no timer is lost and none *)
(* fires early or late until a tail has gone stale (the second part).      *)
(***************************************************************************)
EXTENDS TimeWheel, TLAPS

(***************************************************************************)
(* The pointers that count: the heads of the slots outside W, the walk's   *)
(* own pointer, and next_ of the live timers outside X.  W is the slot     *)
(* being walked, whose head_ is reset when the walk is over; X are the     *)
(* timers that a handler or _AddTimer has in hand.                         *)
(***************************************************************************)
\* They lead to live timers, and never to one in hand.
LeadToLive(h, W, walk, X) ==
    /\ walk \in (h.alive \ X) \cup {NULL}
    /\ \A s \in Slots \ W : h.head[s] \in (h.alive \ X) \cup {NULL}
    /\ \A t \in h.alive \ X : h.next[t] \in (h.alive \ X) \cup {NULL}

\* No two of them lead to the same timer.
Apart(h, W, walk, X) ==
    /\ \A s \in Slots \ W : h.head[s] # NULL => h.head[s] # walk
    /\ \A t \in h.alive \ X : h.next[t] # NULL => h.next[t] # walk
    /\ \A r, s \in Slots \ W : h.head[r] = h.head[s] /\ h.head[r] # NULL => r = s
    /\ \A t, u \in h.alive \ X : h.next[t] = h.next[u] /\ h.next[t] # NULL => t = u
    /\ \A s \in Slots \ W, t \in h.alive \ X : h.next[t] # NULL => h.head[s] # h.next[t]

Linked(h, W, walk, X) == LeadToLive(h, W, walk, X) /\ Apart(h, W, walk, X)

Walking == pc \in {"cascade", "fire"}

\* Where Tick is: it owes no more ticks than the clock is ahead, it cascades from the
\* second wheel up and fires the first.
Places ==
    /\ quota <= lag
    /\ pc = "cascade" => level > 1
    /\ pc = "fire" => level = 1

Links == Linked(heap, IF Walking THEN {Slot} ELSE {}, IF Walking THEN node ELSE NULL, {})

\* The inductive invariant.
IInv == TypeOK /\ Places /\ Links

\* A caller that counts asks for one run at least: with none, the count wraps.
CountsArePositive ==
    \A r \in Requests \cup HandlerRequests : r.flag = Exec_Times => r.times > 0

\* What a live timer still has to run, and has run, is what was asked.
Fits(timer) ==
    IF timer.flag = Exec_Times THEN timer.times > 0 /\ timer.runs + timer.times = timer.asked
                               ELSE timer.runs = 0 /\ timer.asked = 1
CountsFit == \A t \in heap.alive : Fits(heap.timer[t])

(***************************************************************************)
(* The sizes, and the slots.                                               *)
(***************************************************************************)
LEMMA Units ==
    /\ Span \in Nat \ {0}
    /\ \A l \in 1..5 : Unit(l) \in Nat \ {0} /\ Width(l) \in Nat \ {0}
<1>1. TV1_SIZE \in Nat \ {0} /\ TV_SIZE \in Nat \ {0}
    BY SizesAssumption DEF SizesAssumption
<1>2. \A a, b \in Nat \ {0} : a * b \in Nat \ {0}
    OBVIOUS
<1> DEFINE u2 == TV1_SIZE
           u3 == TV1_SIZE * TV_SIZE
           u4 == TV1_SIZE * TV_SIZE * TV_SIZE
           u5 == TV1_SIZE * TV_SIZE * TV_SIZE * TV_SIZE
           u6 == TV1_SIZE * TV_SIZE * TV_SIZE * TV_SIZE * TV_SIZE
<1>3. u3 \in Nat \ {0}
    BY <1>1, <1>2
<1>4. u4 \in Nat \ {0}
    BY <1>1, <1>2, <1>3
<1>5. u5 \in Nat \ {0}
    BY <1>1, <1>2, <1>4
<1>6. u6 \in Nat \ {0}
    BY <1>1, <1>2, <1>5
<1>7. /\ Unit(1) = 1 /\ Unit(2) = u2 /\ Unit(3) = u3 /\ Unit(4) = u4 /\ Unit(5) = u5
      /\ Unit(6) = u6
    BY DEF Unit
<1> HIDE DEF u3, u4, u5, u6
<1>8. \A l \in 1..5 : Unit(l) \in Nat \ {0}
    BY <1>1, <1>3, <1>4, <1>5, <1>7
<1>9. \A l \in 1..5 : Width(l) \in Nat \ {0}
    BY <1>1 DEF Width
<1>. QED
    BY <1>6, <1>7, <1>8, <1>9 DEF Span

LEMMA ModSpan == \A d \in Int : d % Span \in 0..(Span - 1)
<1>1. \A d \in Int, m \in Nat \ {0} : d % m \in 0..(m - 1)
    OBVIOUS
<1>. QED
    BY <1>1, Units

LEMMA BitsRange ==
    ASSUME NEW time \in Int, NEW l \in 1..5
    PROVE  Bits(time, l) \in 0..(Width(l) - 1)
<1>1. \A d \in Int, m \in Nat \ {0} : d % m \in 0..(m - 1)
    OBVIOUS
<1>2. \A d \in Int, m \in Nat \ {0} : d \div m \in Int
    OBVIOUS
<1>. QED
    BY <1>1, <1>2, Units DEF Bits

LEMMA SlotsAre ==
    ASSUME NEW l \in 1..5, NEW i \in 0..(Width(l) - 1)
    PROVE  <<l, i>> \in Slots
<1>1. TV1_SIZE \in Nat \ {0} /\ TV_SIZE \in Nat \ {0}
    BY SizesAssumption DEF SizesAssumption
<1>2. i \in 0..(TV1_SIZE + TV_SIZE) /\ i < Width(l)
    BY <1>1 DEF Width
<1>. QED
    BY <1>2 DEF Slots

LEMMA SlotForRange ==
    ASSUME NEW expired \in Int, NEW now \in Int
    PROVE  SlotFor(expired, now) \in Slots
<1> DEFINE idx == Idx(expired, now)
           fit == {l \in 1..4 : idx < Unit(l + 1)}
           l   == IF fit = {} THEN 5 ELSE CHOOSE x \in fit : \A y \in fit : x <= y
<1>1. l \in 1..5
  <2>1. ASSUME fit # {} PROVE \E x \in fit : \A y \in fit : x <= y
    <3>1. CASE 1 \in fit
        BY <3>1
    <3>2. CASE 1 \notin fit /\ 2 \in fit
        BY <3>2
    <3>3. CASE 1 \notin fit /\ 2 \notin fit /\ 3 \in fit
        BY <3>3
    <3>4. CASE 1 \notin fit /\ 2 \notin fit /\ 3 \notin fit
        BY <2>1, <3>4
    <3>. QED
        BY <3>1, <3>2, <3>3, <3>4
  <2>. QED
    BY <2>1
<1>2. SlotFor(expired, now) = <<IF l = 5 THEN 4 ELSE l, Bits(expired, l)>>
    BY DEF SlotFor
<1> HIDE DEF l
<1>3. Bits(expired, l) \in 0..(Width(l) - 1)
    BY <1>1, BitsRange
<1>4. CASE l = 5
  <2>1. Bits(expired, l) \in 0..(Width(4) - 1)
    BY <1>3, <1>4 DEF Width
  <2>. QED
    BY <1>2, <1>4, <2>1, SlotsAre
<1>5. CASE l # 5
    BY <1>1, <1>2, <1>3, <1>5, SlotsAre
<1>. QED
    BY <1>4, <1>5

(***************************************************************************)
(* The operations on the lists.                                            *)
(***************************************************************************)
\* Either the slot was empty, or one next_ is set; the timer's own is cut first.
LEMMA AddTimerListDoes ==
    ASSUME NEW h \in Heap, NEW s \in Slots, NEW t \in Timers
    PROVE  LET g   == AddTimerList(h, s, t)
               cut == [h.next EXCEPT ![t] = NULL]
           IN  /\ g \in Heap /\ AddTimerList(h, s, t).alive = h.alive /\ g.timer = h.timer
               /\ \/ g.head = [h.head EXCEPT ![s] = t] /\ g.next = cut
                  \/ /\ g.head = h.head
                     /\ h.tail[s] \in Timers /\ g.next = [cut EXCEPT ![h.tail[s]] = t]
<1> DEFINE g    == AddTimerList(h, s, t)
           cut  == [h.next EXCEPT ![t] = NULL]
           last == h.tail[s]
<1>1. /\ h.head \in [Slots -> Pointer] /\ h.tail \in [Slots -> Pointer]
      /\ h.next \in [Timers -> Pointer] /\ h.list \in [Timers -> Slots \cup {NULL}]
      /\ h.timer \in [Timers -> Timer] /\ h.alive \in SUBSET Timers /\ h.stale \in BOOLEAN
    BY DEF Heap
<1>2. cut \in [Timers -> Pointer] /\ t \in Pointer /\ last \in Pointer
    BY <1>1 DEF Pointer
<1>3. CASE last = NULL
  <2>1. g = [head |-> [h.head EXCEPT ![s] = t], tail |-> [h.tail EXCEPT ![s] = t],
             next |-> cut, list |-> [h.list EXCEPT ![t] = s], timer |-> h.timer,
             alive |-> h.alive, stale |-> h.stale]
    BY <1>3 DEF AddTimerList, Heap
  <2>. QED
    BY <1>1, <1>2, <2>1 DEF Heap
<1>4. CASE last # NULL
  <2>1. g = [head |-> h.head, tail |-> [h.tail EXCEPT ![s] = t],
             next |-> [cut EXCEPT ![last] = t], list |-> [h.list EXCEPT ![t] = s],
             timer |-> h.timer, alive |-> h.alive,
             stale |-> (h.stale \/ h.head[s] = NULL)]
    BY <1>4 DEF AddTimerList, Heap
  <2>2. last \in Timers
    BY <1>2, <1>4 DEF Pointer
  <2>. QED
    BY <1>1, <1>2, <2>1, <2>2 DEF Heap
<1>. QED
    BY <1>3, <1>4

\* A timer that is appended to a slot is no longer in hand, and the pointers stay right.
LEMMA AppendKeepsLinks ==
    ASSUME NEW h \in Heap, NEW s \in Slots, NEW t \in h.alive,
           NEW W, NEW walk, NEW X, t \notin X, Linked(h, W, walk, X \cup {t}), NULL \notin X
    PROVE  Linked(AddTimerList(h, s, t), W, walk, X)
<1>0. AddTimerList(h, s, t).alive = h.alive
  <2>1. t \in Timers
    BY DEF Heap
  <2>. QED
    BY <2>1, AddTimerListDoes, Zenon
<1> DEFINE g   == AddTimerList(h, s, t)
           cut == [h.next EXCEPT ![t] = NULL]
<1>1. /\ h.head \in [Slots -> Pointer] /\ h.next \in [Timers -> Pointer]
      /\ h.alive \subseteq Timers /\ t \in Timers /\ NULL \notin Timers
    BY SizesAssumption DEF Heap, SizesAssumption
<1>2. g.alive = h.alive
    BY <1>0
<1>3. cut \in [Timers -> Pointer] /\ cut[t] = NULL /\ \A u \in Timers \ {t} : cut[u] = h.next[u]
    BY <1>1 DEF Pointer
<1>4. /\ walk \in (h.alive \ (X \cup {t})) \cup {NULL}
      /\ \A r \in Slots \ W : h.head[r] \in (h.alive \ (X \cup {t})) \cup {NULL}
      /\ \A u \in h.alive \ (X \cup {t}) : h.next[u] \in (h.alive \ (X \cup {t})) \cup {NULL}
    BY DEF Linked, LeadToLive
<1>5. CASE g.head = [h.head EXCEPT ![s] = t] /\ g.next = cut
  <2>1. g.head[s] = t /\ \A r \in Slots \ {s} : g.head[r] = h.head[r]
    BY <1>1, <1>5
  <2>2. g.next[t] = NULL /\ \A u \in Timers \ {t} : g.next[u] = h.next[u]
    BY <1>3, <1>5
  <2> HIDE DEF g, cut
  <2>3. LeadToLive(g, W, walk, X)
    BY <1>1, <1>2, <1>4, <2>1, <2>2 DEF LeadToLive
  <2>4. Apart(g, W, walk, X)
    BY <1>1, <1>2, <1>4, <2>1, <2>2 DEF Linked, Apart
  <2>. QED
    BY <2>3, <2>4 DEF Linked, g
<1>6. CASE /\ g.head = h.head
           /\ h.tail[s] \in Timers /\ g.next = [cut EXCEPT ![h.tail[s]] = t]
  <2>1. \A r \in Slots : g.head[r] = h.head[r]
    BY <1>6
  <2>2. PICK last \in Timers : g.next = [cut EXCEPT ![last] = t]
    BY <1>6
  <2>3. /\ g.next[last] = t
        /\ t # last => g.next[t] = NULL
        /\ \A u \in Timers \ {t, last} : g.next[u] = h.next[u]
    BY <1>1, <1>3, <2>2
  <2> HIDE DEF g, cut
  <2>4. LeadToLive(g, W, walk, X)
    BY <1>1, <1>2, <1>4, <2>1, <2>3 DEF LeadToLive
  <2>5. Apart(g, W, walk, X)
    BY <1>1, <1>2, <1>4, <2>1, <2>3 DEF Linked, Apart
  <2>. QED
    BY <2>4, <2>5 DEF Linked, g
<1>. QED
    BY <1>1, <1>5, <1>6, AddTimerListDoes

\* Linked looks at nothing but the heads, next_ and the live timers.
LEMMA OnlyLinksMatter ==
    ASSUME NEW g, NEW h, NEW W, NEW walk, NEW X,
           g.head = h.head, g.next = h.next, g.alive = h.alive
    PROVE  Linked(h, W, walk, X) => Linked(g, W, walk, X)
BY DEF Linked, LeadToLive, Apart

\* A timer in hand can be freed.
LEMMA freeTimerDoes ==
    ASSUME NEW h \in Heap, NEW t \in h.alive
    PROVE  LET g == freeTimer(h, t)
           IN  /\ g \in Heap /\ g.alive = h.alive \ {t} /\ g.head = h.head
               /\ g.next = [h.next EXCEPT ![t] = NULL]
               /\ g.timer = [h.timer EXCEPT ![t] = Blank]
               /\ g.tail = h.tail /\ g.list = [h.list EXCEPT ![t] = NULL] /\ g.stale = h.stale
<1>1. /\ h.head \in [Slots -> Pointer] /\ h.tail \in [Slots -> Pointer]
      /\ h.next \in [Timers -> Pointer] /\ h.list \in [Timers -> Slots \cup {NULL}]
      /\ h.timer \in [Timers -> Timer] /\ h.alive \in SUBSET Timers /\ h.stale \in BOOLEAN
      /\ t \in Timers
    BY DEF Heap
<1>2. Blank \in Timer
  <2>1. 0 \in 0..(Span - 1) /\ 0 \in 0..(UINT - 1)
    BY Units, SizesAssumption DEF SizesAssumption
  <2>. QED
    BY <2>1 DEF Blank, Timer
<1>3. [h.next EXCEPT ![t] = NULL] \in [Timers -> Pointer]
    BY <1>1 DEF Pointer
<1>4. /\ freeTimer(h, t) \in Heap /\ freeTimer(h, t).alive = h.alive \ {t}
      /\ freeTimer(h, t).head = h.head
      /\ freeTimer(h, t).next = [h.next EXCEPT ![t] = NULL]
      /\ freeTimer(h, t).timer = [h.timer EXCEPT ![t] = Blank]
      /\ freeTimer(h, t).tail = h.tail /\ freeTimer(h, t).stale = h.stale
      /\ freeTimer(h, t).list = [h.list EXCEPT ![t] = NULL]
  <2> DEFINE g1 == [h EXCEPT !.alive = @ \ {t}]
             g2 == [g1 EXCEPT !.timer = [@ EXCEPT ![t] = Blank]]
             g3 == [g2 EXCEPT !.list = [@ EXCEPT ![t] = NULL]]
             g4 == [g3 EXCEPT !.next = [@ EXCEPT ![t] = NULL]]
  <2>1. freeTimer(h, t) = g4
    BY DEF freeTimer
  <2> HIDE DEF g1, g2, g3, g4
  <2>2. /\ g1.head = h.head /\ g1.tail = h.tail /\ g1.next = h.next /\ g1.list = h.list
        /\ g1.timer = h.timer /\ g1.alive = h.alive \ {t} /\ g1.stale = h.stale
        /\ g1 \in Heap
    BY DEF g1, Heap
  <2>3. /\ g2.head = h.head /\ g2.tail = h.tail /\ g2.next = h.next /\ g2.list = h.list
        /\ g2.timer = [h.timer EXCEPT ![t] = Blank] /\ g2.alive = h.alive \ {t}
        /\ g2.stale = h.stale /\ g2 \in Heap
    BY <1>1, <1>2, <2>2 DEF g2, Heap
  <2>4. /\ g3.head = h.head /\ g3.tail = h.tail /\ g3.next = h.next
        /\ g3.list = [h.list EXCEPT ![t] = NULL]
        /\ g3.timer = [h.timer EXCEPT ![t] = Blank] /\ g3.alive = h.alive \ {t}
        /\ g3.stale = h.stale /\ g3 \in Heap
    BY <1>1, <2>3 DEF g3, Heap
  <2>5. /\ g4.head = h.head /\ g4.next = [h.next EXCEPT ![t] = NULL]
        /\ g4.timer = [h.timer EXCEPT ![t] = Blank] /\ g4.alive = h.alive \ {t}
        /\ g4.tail = h.tail /\ g4.list = [h.list EXCEPT ![t] = NULL]
        /\ g4.stale = h.stale /\ g4 \in Heap
    BY <1>1, <1>3, <2>4 DEF g4, Heap
  <2>. QED
    BY <2>1, <2>5
<1>. QED
    BY <1>4

LEMMA freeTimerKeepsLinks ==
    ASSUME NEW h \in Heap, NEW t \in h.alive,
           NEW W, NEW walk, NEW X, t \notin X, Linked(h, W, walk, X \cup {t})
    PROVE  Linked(freeTimer(h, t), W, walk, X)
<1> DEFINE g == freeTimer(h, t)
<1>1. /\ g.alive = h.alive \ {t} /\ g.head = h.head
      /\ \A u \in h.alive \ {t} : g.next[u] = h.next[u]
  <2>1. h.next \in [Timers -> Pointer] /\ h.alive \subseteq Timers
    BY DEF Heap
  <2>2. g.next = [h.next EXCEPT ![t] = NULL] /\ g.alive = h.alive \ {t} /\ g.head = h.head
    BY freeTimerDoes
  <2>. QED
    BY <2>1, <2>2
<1> HIDE DEF g
<1>2. LeadToLive(g, W, walk, X)
    BY <1>1 DEF Linked, LeadToLive
<1>3. Apart(g, W, walk, X)
    BY <1>1 DEF Linked, Apart
<1>. QED
    BY <1>2, <1>3 DEF Linked, g

(***************************************************************************)
(* The operations on a timer.                                              *)
(***************************************************************************)
LEMMA HeapFields ==
    ASSUME NEW h \in Heap
    PROVE  /\ h.head \in [Slots -> Pointer] /\ h.tail \in [Slots -> Pointer]
           /\ h.next \in [Timers -> Pointer] /\ h.list \in [Timers -> Slots \cup {NULL}]
           /\ h.timer \in [Timers -> Timer] /\ h.alive \subseteq Timers /\ h.stale \in BOOLEAN
BY DEF Heap

LEMMA TimerChanged ==
    ASSUME NEW h \in Heap, NEW t \in Timers, NEW r \in Timer
    PROVE  LET g == [h EXCEPT !.timer[t] = r]
           IN  /\ g \in Heap /\ g.head = h.head /\ g.next = h.next /\ g.alive = h.alive
               /\ g.timer = [h.timer EXCEPT ![t] = r]
               /\ g.tail = h.tail /\ g.list = h.list /\ g.stale = h.stale
BY HeapFields DEF Heap

\* The counts of two timers, whatever their times.
SameCounts(a, b) == a.flag = b.flag /\ a.times = b.times /\ a.runs = b.runs /\ a.asked = b.asked

\* The timer t was handled: it was freed or it is live, and no other was touched.
Handed(g, h, t) ==
    /\ g \in Heap
    /\ g.alive \in {h.alive, h.alive \ {t}}
    /\ \A u \in h.alive \ {t} : g.timer[u] = h.timer[u]

LEMMA InsertRight ==
    ASSUME NEW h \in Heap, NEW t \in h.alive, NEW now \in Int,
           NEW W, NEW walk, NEW X, t \notin X, NULL \notin X, Linked(h, W, walk, X \cup {t})
    PROVE  LET g == Insert(h, t, now)
           IN  g \in Heap /\ g.alive = h.alive /\ g.timer = h.timer /\ Linked(g, W, walk, X)
<1>1. h.timer[t] \in Timer /\ t \in Timers
    BY HeapFields
<1>2. h.timer[t].expired \in Int
    BY <1>1, Units DEF Timer
<1> DEFINE s == SlotFor(h.timer[t].expired, now)
<1>3. s \in Slots
    BY <1>2, SlotForRange
<1>4. Insert(h, t, now) = AddTimerList(h, s, t)
    BY DEF Insert
<1> HIDE DEF s
<1>5. /\ AddTimerList(h, s, t) \in Heap /\ AddTimerList(h, s, t).alive = h.alive
      /\ AddTimerList(h, s, t).timer = h.timer
    BY <1>1, <1>3, AddTimerListDoes
<1>6. Linked(AddTimerList(h, s, t), W, walk, X)
    BY <1>3, AppendKeepsLinks
<1>. QED
    BY <1>4, <1>5, <1>6

LEMMA RunRight ==
    ASSUME NEW h \in Heap, NEW t \in h.alive
    PROVE  LET g == Run(h, t)
           IN  /\ g \in Heap /\ g.head = h.head /\ g.next = h.next /\ g.alive = h.alive
               /\ g.tail = h.tail /\ g.list = h.list /\ g.stale = h.stale
               /\ \A u \in Timers \ {t} : g.timer[u] = h.timer[u]
               /\ g.timer[t] \in Timer /\ g.timer[t].flag = h.timer[t].flag
               /\ g.timer[t].timeout = h.timer[t].timeout
               /\ g.timer[t].expired = h.timer[t].expired
               /\ g.timer[t].times = h.timer[t].times /\ g.timer[t].asked = h.timer[t].asked
               /\ g.timer[t].runs = IF h.timer[t].flag = Exec_All THEN h.timer[t].runs
                                                                  ELSE h.timer[t].runs + 1
<1>1. h.timer[t] \in Timer /\ t \in Timers /\ h.timer \in [Timers -> Timer]
    BY HeapFields
<1>2. CASE h.timer[t].flag = Exec_All
    BY <1>1, <1>2 DEF Run
<1>3. CASE h.timer[t].flag # Exec_All
  <2> DEFINE r == [h.timer[t] EXCEPT !.runs = @ + 1]
             g == [h EXCEPT !.timer[t] = r]
  <2>1. r \in Timer /\ r.flag = h.timer[t].flag /\ r.times = h.timer[t].times
        /\ r.asked = h.timer[t].asked /\ r.runs = h.timer[t].runs + 1
        /\ r.timeout = h.timer[t].timeout /\ r.expired = h.timer[t].expired
    BY <1>1 DEF Timer
  <2>2. Run(h, t) = g
    BY <1>3 DEF Run
  <2> HIDE DEF r
  <2>3. /\ g \in Heap /\ g.head = h.head /\ g.next = h.next /\ g.alive = h.alive
        /\ g.timer = [h.timer EXCEPT ![t] = r]
        /\ g.tail = h.tail /\ g.list = h.list /\ g.stale = h.stale
    BY <1>1, <2>1, TimerChanged
  <2> HIDE DEF g
  <2>4. g.timer[t] = r /\ \A u \in Timers \ {t} : g.timer[u] = h.timer[u]
    BY <1>1, <2>3
  <2>. QED
    BY <1>3, <2>1, <2>2, <2>3, <2>4
<1>. QED
    BY <1>2, <1>3

LEMMA AfterImmediateRight ==
    ASSUME NEW h \in Heap, NEW t \in h.alive, NEW now \in Int, NEW behind \in Int,
           NEW W, NEW walk, NEW X, t \notin X, NULL \notin X, Linked(h, W, walk, X \cup {t})
    PROVE  LET g == AfterImmediate(h, t, now, behind)
           IN  /\ Handed(g, h, t) /\ Linked(g, W, walk, X)
               /\ t \in g.alive => /\ h.timer[t].flag = Exec_All
                                   /\ SameCounts(g.timer[t], h.timer[t])
<1>1. h.timer[t] \in Timer /\ t \in Timers /\ h.timer \in [Timers -> Timer] /\ h.alive \subseteq Timers
    BY HeapFields
<1>2. CASE h.timer[t].flag = Exec_All
  <2> DEFINE ahead == behind - 1 + h.timer[t].timeout
             e == (now + (IF ahead > 0 THEN ahead ELSE 1)) % Span
             r == [h.timer[t] EXCEPT !.expired = e]
             g == [h EXCEPT !.timer[t] = r]
  <2>1. e \in 0..(Span - 1)
    <3>1. h.timer[t].timeout \in Int
        BY <1>1 DEF Timer
    <3>2. now + (IF ahead > 0 THEN ahead ELSE 1) \in Int
        BY <3>1
    <3>. QED
        BY <3>2, ModSpan
  <2>2. AfterImmediate(h, t, now, behind) = Insert(g, t, now)
    BY <1>2 DEF AfterImmediate
  <2> HIDE DEF e
  <2>3. r \in Timer /\ SameCounts(r, h.timer[t])
    BY <1>1, <2>1 DEF Timer, SameCounts
  <2> HIDE DEF r
  <2>4. /\ g \in Heap /\ g.head = h.head /\ g.next = h.next /\ g.alive = h.alive
        /\ g.timer = [h.timer EXCEPT ![t] = r]
    BY <1>1, <2>3, TimerChanged
  <2> HIDE DEF g
  <2>5. Linked(g, W, walk, X \cup {t})
    BY <2>4, OnlyLinksMatter
  <2> DEFINE i == Insert(g, t, now)
  <2>6. i \in Heap /\ i.alive = g.alive /\ i.timer = g.timer /\ Linked(i, W, walk, X)
    BY <2>4, <2>5, InsertRight
  <2> HIDE DEF i
  <2>7. i.timer[t] = r /\ \A u \in Timers \ {t} : i.timer[u] = h.timer[u]
    BY <1>1, <2>4, <2>6
  <2>8. Handed(i, h, t)
    BY <1>1, <2>4, <2>6, <2>7 DEF Handed
  <2>9. i = AfterImmediate(h, t, now, behind)
    BY <2>2 DEF i
  <2>. QED
    BY <1>2, <2>3, <2>6, <2>7, <2>8, <2>9
<1>3. CASE h.timer[t].flag # Exec_All
  <2> DEFINE g == freeTimer(h, t)
  <2>1. AfterImmediate(h, t, now, behind) = g
    BY <1>3 DEF AfterImmediate
  <2>2. /\ g \in Heap /\ g.alive = h.alive \ {t}
        /\ g.timer = [h.timer EXCEPT ![t] = Blank]
    BY freeTimerDoes
  <2>3. Linked(g, W, walk, X)
    BY freeTimerKeepsLinks
  <2> HIDE DEF g
  <2>4. \A u \in h.alive \ {t} : g.timer[u] = h.timer[u]
    BY <1>1, <2>2
  <2>. QED
    BY <2>1, <2>2, <2>3, <2>4 DEF Handed
<1>. QED
    BY <1>2, <1>3

LEMMA AddAgainRight ==
    ASSUME NEW h \in Heap, NEW t \in h.alive, NEW now \in Int, NEW behind \in Int,
           NEW W, NEW walk, NEW X, t \notin X, NULL \notin X, Linked(h, W, walk, X \cup {t})
    PROVE  LET g == AddAgain(h, t, now, behind)
           IN  /\ Handed(g, h, t) /\ Linked(g, W, walk, X)
               /\ t \in g.alive => SameCounts(g.timer[t], h.timer[t])
<1>1. t \in Timers /\ h.timer \in [Timers -> Timer] /\ h.alive \subseteq Timers
    BY HeapFields
<1>2. CASE Due(h, t, now)
  <2> DEFINE r == Run(h, t)
             g == AfterImmediate(r, t, now, behind)
  <2>1. /\ r \in Heap /\ r.head = h.head /\ r.next = h.next /\ r.alive = h.alive
        /\ \A u \in Timers \ {t} : r.timer[u] = h.timer[u]
        /\ r.timer[t].flag = h.timer[t].flag
        /\ r.timer[t].times = h.timer[t].times /\ r.timer[t].asked = h.timer[t].asked
        /\ r.timer[t].runs = IF h.timer[t].flag = Exec_All THEN h.timer[t].runs
                                                           ELSE h.timer[t].runs + 1
    BY RunRight
  <2>2. AddAgain(h, t, now, behind) = g
    BY <1>2 DEF AddAgain
  <2> HIDE DEF r
  <2>3. Linked(r, W, walk, X \cup {t})
    BY <2>1, OnlyLinksMatter
  <2>4. /\ Handed(g, r, t) /\ Linked(g, W, walk, X)
        /\ t \in g.alive => r.timer[t].flag = Exec_All /\ SameCounts(g.timer[t], r.timer[t])
    BY <2>1, <2>3, AfterImmediateRight
  <2> HIDE DEF g
  <2>. QED
    BY <1>1, <2>1, <2>2, <2>4 DEF Handed, SameCounts
<1>3. CASE ~Due(h, t, now)
  <2> DEFINE g == Insert(h, t, now)
  <2>1. AddAgain(h, t, now, behind) = g
    BY <1>3 DEF AddAgain
  <2>2. g \in Heap /\ g.alive = h.alive /\ g.timer = h.timer /\ Linked(g, W, walk, X)
    BY InsertRight
  <2> HIDE DEF g
  <2>. QED
    BY <2>1, <2>2 DEF Handed, SameCounts
<1>. QED
    BY <1>2, <1>3

\* A timer that AddTimer made for a request and that has not run.
NewCounts(timer, r) ==
    /\ timer.flag = r.flag /\ timer.times = r.times /\ timer.runs = 0
    /\ timer.asked = IF r.flag = Exec_Times THEN r.times ELSE 1

LEMMA AddTimerRight ==
    ASSUME NEW h \in Heap, NEW t \in Timers, t \notin h.alive, NEW r \in Request,
           NEW now \in Int, NEW behind \in Int,
           NEW W, NEW walk, NEW X, X \subseteq h.alive, Linked(h, W, walk, X)
    PROVE  LET g == AddTimer(h, t, r, now, behind)
           IN  /\ g \in Heap /\ g.alive \in {h.alive, h.alive \cup {t}}
               /\ Linked(g, W, walk, X)
               /\ \A u \in h.alive : g.timer[u] = h.timer[u]
               /\ t \in g.alive => NewCounts(g.timer[t], r)
<1> DEFINE fresh == [expired |-> (r.timeout + now) % Span, timeout |-> r.timeout,
                     flag |-> r.flag, times |-> r.times, runs |-> 0,
                     asked |-> IF r.flag = Exec_Times THEN r.times ELSE 1]
           g1 == [h EXCEPT !.alive = @ \cup {t}, !.next[t] = NULL, !.list[t] = NULL]
           g2 == [g1 EXCEPT !.timer[t] = fresh]
           g  == AddAgain(g2, t, now, behind)
<1>1. /\ h.head \in [Slots -> Pointer] /\ h.tail \in [Slots -> Pointer]
      /\ h.next \in [Timers -> Pointer] /\ h.list \in [Timers -> Slots \cup {NULL}]
      /\ h.timer \in [Timers -> Timer] /\ h.alive \subseteq Timers /\ h.stale \in BOOLEAN
      /\ NULL \notin Timers
    BY HeapFields, SizesAssumption DEF SizesAssumption
<1>2. fresh \in Timer
  <2>1. (r.timeout + now) % Span \in 0..(Span - 1)
    <3>1. r.timeout + now \in Int
        BY DEF Request
    <3>. QED
        BY <3>1, ModSpan
  <2>2. /\ r.timeout \in Nat /\ r.flag \in {Exec_Once, Exec_All, Exec_Times}
        /\ r.times \in 0..(UINT - 1) /\ r.times \in Nat
    BY SizesAssumption DEF Request, SizesAssumption
  <2>. QED
    BY <2>1, <2>2 DEF Timer
<1>3. AddTimer(h, t, r, now, behind) = g
    BY DEF AddTimer
<1>4. NewCounts(fresh, r)
    BY DEF NewCounts
<1> HIDE DEF fresh
<1>5. /\ g1 \in Heap /\ g1.head = h.head /\ g1.next = [h.next EXCEPT ![t] = NULL]
      /\ g1.timer = h.timer /\ g1.alive = h.alive \cup {t}
    BY <1>1 DEF Heap, Pointer
<1> HIDE DEF g1
<1>6. /\ g2 \in Heap /\ g2.head = h.head /\ g2.next = [h.next EXCEPT ![t] = NULL]
      /\ g2.timer = [h.timer EXCEPT ![t] = fresh] /\ g2.alive = h.alive \cup {t}
    BY <1>2, <1>5, TimerChanged
<1> HIDE DEF g2
<1>7. Linked(g2, W, walk, X \cup {t})
  <2>1. /\ g2.head = h.head /\ g2.alive \ (X \cup {t}) = h.alive \ X
        /\ \A u \in h.alive \ X : g2.next[u] = h.next[u]
    BY <1>1, <1>6
  <2>2. LeadToLive(g2, W, walk, X \cup {t})
    BY <1>1, <2>1 DEF Linked, LeadToLive
  <2>3. Apart(g2, W, walk, X \cup {t})
    BY <2>1 DEF Linked, Apart
  <2>. QED
    BY <2>2, <2>3 DEF Linked
<1>8. t \in g2.alive /\ t \notin X /\ NULL \notin X
    BY <1>1, <1>6
<1>9. /\ Handed(g, g2, t) /\ Linked(g, W, walk, X)
      /\ t \in g.alive => SameCounts(g.timer[t], g2.timer[t])
    BY <1>6, <1>7, <1>8, AddAgainRight
<1> HIDE DEF g
<1>10. g2.timer[t] = fresh /\ \A u \in h.alive : g2.timer[u] = h.timer[u]
    BY <1>1, <1>6
<1>11. g \in Heap /\ g.alive \in {h.alive, h.alive \cup {t}}
    BY <1>6, <1>9 DEF Handed
<1>12. \A u \in h.alive : g.timer[u] = h.timer[u]
    BY <1>6, <1>9, <1>10 DEF Handed
<1>13. t \in g.alive => NewCounts(g.timer[t], r)
    BY <1>4, <1>9, <1>10 DEF SameCounts, NewCounts
<1>. QED
    BY <1>3, <1>9, <1>11, <1>12, <1>13

LEMMA HandledRight ==
    ASSUME TypeOK, NEW h \in Heap, NEW W, NEW walk, NEW X, X \subseteq h.alive,
           Linked(h, W, walk, X), NEW g \in Handled(h)
    PROVE  /\ g \in Heap /\ h.alive \subseteq g.alive /\ Linked(g, W, walk, X)
           /\ \A u \in h.alive : g.timer[u] = h.timer[u]
           /\ CountsArePositive => \A u \in g.alive \ h.alive : Fits(g.timer[u])
<1>1. tick \in Int /\ lag \in Int
    BY Units, SizesAssumption DEF TypeOK, SizesAssumption
<1>2. CASE g = h
    BY <1>2
<1>3. CASE \E t \in Timers \ h.alive, r \in HandlerRequests : g = AddTimer(h, t, r, tick, lag)
  <2>1. PICK t \in Timers \ h.alive, r \in HandlerRequests : g = AddTimer(h, t, r, tick, lag)
    BY <1>3
  <2>2. r \in Request
    BY RequestsAssumption DEF RequestsAssumption
  <2>3. /\ g \in Heap /\ g.alive \in {h.alive, h.alive \cup {t}}
        /\ Linked(g, W, walk, X)
        /\ \A u \in h.alive : g.timer[u] = h.timer[u]
        /\ t \in g.alive => NewCounts(g.timer[t], r)
    <3>1. t \in Timers /\ t \notin h.alive
        OBVIOUS
    <3>2. LET k == AddTimer(h, t, r, tick, lag)
          IN  /\ k \in Heap /\ k.alive \in {h.alive, h.alive \cup {t}}
              /\ Linked(k, W, walk, X)
              /\ \A u \in h.alive : k.timer[u] = h.timer[u]
              /\ t \in k.alive => NewCounts(k.timer[t], r)
        BY <1>1, <2>2, <3>1, AddTimerRight
    <3>. QED
        BY <2>1, <3>2
  <2>4. r.times \in Nat
    BY <2>2, SizesAssumption DEF Request, SizesAssumption
  <2>5. ASSUME CountsArePositive, NEW u \in g.alive \ h.alive PROVE Fits(g.timer[u])
    <3>1. u = t
        BY <2>3, <2>5
    <3>2. r.flag = Exec_Times => r.times > 0
        BY <2>5 DEF CountsArePositive
    <3>. QED
        BY <2>3, <2>4, <2>5, <3>1, <3>2 DEF Fits, NewCounts
  <2>. QED
    BY <2>3, <2>5
<1>. QED
    BY <1>2, <1>3 DEF Handled

\* The timer in hand has just run.
Ran(timer) ==
    IF timer.flag = Exec_Times THEN timer.times > 0 /\ timer.runs + timer.times = timer.asked + 1
                               ELSE timer.flag = Exec_All => timer.runs = 0 /\ timer.asked = 1

LEMMA AfterFireRight ==
    ASSUME TypeOK, NEW h \in Heap, NEW t \in h.alive,
           NEW W, NEW walk, Linked(h, W, walk, {t})
    PROVE  LET g == AfterFire(h, t)
           IN  /\ Handed(g, h, t) /\ Linked(g, W, walk, {})
               /\ Ran(h.timer[t]) /\ t \in g.alive => Fits(g.timer[t])
<1> DEFINE left == (h.timer[t].times - 1) % UINT
           due  == (h.timer[t].timeout + tick) % Span
<1>1. tick \in Int /\ lag \in Int
    BY Units, SizesAssumption DEF TypeOK, SizesAssumption
<1>2. h.timer[t] \in Timer /\ t \in Timers /\ h.timer \in [Timers -> Timer] /\ h.alive \subseteq Timers
    BY HeapFields
<1>3. due \in 0..(Span - 1)
  <2>1. h.timer[t].timeout + tick \in Int
    BY <1>1, <1>2 DEF Timer
  <2>. QED
    BY <2>1, ModSpan
<1>4. left \in 0..(UINT - 1) /\ (h.timer[t].times > 0 => left = h.timer[t].times - 1)
  <2>1. \A m \in Nat \ {0} : \A k \in 0..(m - 1) :
            (k - 1) % m \in 0..(m - 1) /\ (k > 0 => (k - 1) % m = k - 1)
    OBVIOUS
  <2>2. h.timer[t].times \in 0..(UINT - 1) /\ UINT \in Nat \ {0}
    BY <1>2, SizesAssumption DEF Timer, SizesAssumption
  <2>. QED
    BY <2>1, <2>2
<1> HIDE DEF left, due
<1>5. /\ h.timer[t].runs \in Nat /\ h.timer[t].asked \in Nat /\ h.timer[t].times \in Nat
      /\ h.timer[t].flag \in {Exec_Once, Exec_All, Exec_Times}
    BY <1>2, SizesAssumption DEF Timer, SizesAssumption
<1>6. ASSUME NEW n \in 0..(UINT - 1), NEW g,
             LET r == [h.timer[t] EXCEPT !.expired = due, !.times = n]
             IN  g = AddAgain([h EXCEPT !.timer[t] = r], t, tick, lag)
      PROVE  /\ Handed(g, h, t) /\ Linked(g, W, walk, {})
             /\ t \in g.alive =>
                   /\ g.timer[t].flag = h.timer[t].flag /\ g.timer[t].times = n
                   /\ g.timer[t].runs = h.timer[t].runs /\ g.timer[t].asked = h.timer[t].asked
  <2> DEFINE r == [h.timer[t] EXCEPT !.expired = due, !.times = n]
             c == [h EXCEPT !.timer[t] = r]
  <2>1. /\ r \in Timer /\ r.flag = h.timer[t].flag /\ r.times = n
        /\ r.runs = h.timer[t].runs /\ r.asked = h.timer[t].asked
    BY <1>2, <1>3 DEF Timer
  <2>2. g = AddAgain(c, t, tick, lag)
    BY <1>6
  <2> HIDE DEF r
  <2>3. /\ c \in Heap /\ c.head = h.head /\ c.next = h.next /\ c.alive = h.alive
        /\ c.timer = [h.timer EXCEPT ![t] = r]
    BY <1>2, <2>1, TimerChanged
  <2> HIDE DEF c
  <2>4. Linked(c, W, walk, {} \cup {t})
    BY <2>3, OnlyLinksMatter
  <2>5. /\ Handed(g, c, t) /\ Linked(g, W, walk, {})
        /\ t \in g.alive => SameCounts(g.timer[t], c.timer[t])
    BY <1>1, <2>2, <2>3, <2>4, AddAgainRight
  <2>6. c.timer[t] = r /\ \A u \in Timers \ {t} : c.timer[u] = h.timer[u]
    BY <1>2, <2>3
  <2>. QED
    BY <1>2, <2>1, <2>3, <2>5, <2>6 DEF Handed, SameCounts
<1> DEFINE g == AfterFire(h, t)
<1>7. CASE h.timer[t].flag = Exec_All
  <2>1. g = AddAgain([h EXCEPT !.timer[t].expired = due], t, tick, lag)
    BY <1>7 DEF AfterFire, due, Exec_All, Exec_Times
  <2>2. [h EXCEPT !.timer[t].expired = due]
            = [h EXCEPT !.timer[t] = [h.timer[t] EXCEPT !.expired = due, !.times = h.timer[t].times]]
    BY <1>2 DEF Timer
  <2>3. h.timer[t].times \in 0..(UINT - 1)
    BY <1>2 DEF Timer
  <2> HIDE DEF g
  <2>4. /\ Handed(g, h, t) /\ Linked(g, W, walk, {})
        /\ t \in g.alive =>
              /\ g.timer[t].flag = h.timer[t].flag
              /\ g.timer[t].runs = h.timer[t].runs /\ g.timer[t].asked = h.timer[t].asked
    <3>1. g = AddAgain([h EXCEPT !.timer[t] = [h.timer[t] EXCEPT !.expired = due,
                                                              !.times = h.timer[t].times]],
                       t, tick, lag)
        BY <2>1, <2>2
    <3>. QED
        BY <1>6, <2>3, <3>1
  <2>5. Ran(h.timer[t]) /\ t \in g.alive => Fits(g.timer[t])
    BY <1>7, <2>4 DEF Ran, Fits, Exec_All, Exec_Times
  <2>. QED
    BY <2>4, <2>5 DEF g
<1>8. CASE h.timer[t].flag = Exec_Times /\ left # 0
  <2>1. g = AddAgain([h EXCEPT !.timer[t].expired = due, !.timer[t].times = left], t, tick, lag)
    BY <1>8 DEF AfterFire, due, left, Exec_All, Exec_Times
  <2>2. [h EXCEPT !.timer[t].expired = due, !.timer[t].times = left]
            = [h EXCEPT !.timer[t] = [h.timer[t] EXCEPT !.expired = due, !.times = left]]
    BY <1>2 DEF Timer
  <2> HIDE DEF g
  <2>4. /\ Handed(g, h, t) /\ Linked(g, W, walk, {})
        /\ t \in g.alive =>
              /\ g.timer[t].flag = h.timer[t].flag /\ g.timer[t].times = left
              /\ g.timer[t].runs = h.timer[t].runs /\ g.timer[t].asked = h.timer[t].asked
    BY <1>4, <1>6, <2>1, <2>2
  <2>5. Ran(h.timer[t]) /\ t \in g.alive => Fits(g.timer[t])
    BY <1>4, <1>5, <1>8, <2>4 DEF Ran, Fits
  <2>. QED
    BY <2>4, <2>5 DEF g
<1>9. CASE h.timer[t].flag # Exec_All /\ ~(h.timer[t].flag = Exec_Times /\ left # 0)
  <2>1. g = freeTimer(h, t)
    BY <1>9 DEF AfterFire, left
  <2>. HIDE DEF g
  <2>2. /\ g \in Heap /\ g.alive = h.alive \ {t}
        /\ g.timer = [h.timer EXCEPT ![t] = Blank]
    <3>1. /\ freeTimer(h, t) \in Heap /\ freeTimer(h, t).alive = h.alive \ {t}
          /\ freeTimer(h, t).timer = [h.timer EXCEPT ![t] = Blank]
      BY freeTimerDoes, Zenon
    <3>. QED
      BY <2>1, <3>1, Zenon
  <2>3. Linked(g, W, walk, {})
    <3>1. Linked(h, W, walk, {} \cup {t})
        OBVIOUS
    <3>. QED
        BY <2>1, <3>1, freeTimerKeepsLinks
  <2> HIDE DEF g
  <2>4. \A u \in h.alive \ {t} : g.timer[u] = h.timer[u]
    BY <1>2, <2>2
  <2>. QED
    BY <2>2, <2>3, <2>4 DEF Handed, g
<1>. QED
    BY <1>7, <1>8, <1>9

(***************************************************************************)
(* The walks.                                                              *)
(***************************************************************************)
\* A walk over s begins while the heads of W, which are reset, no longer count.
LEMMA EnterRight ==
    ASSUME NEW g, NEW h, NEW W, NEW s \in Slots \ W, Linked(h, W, NULL, {}),
           g.alive = h.alive, g.next = h.next, \A r \in Slots \ W : g.head[r] = h.head[r],
           \A r \in W : g.head[r] = NULL
    PROVE  Linked(g, {s}, h.head[s], {})
<1>1. LeadToLive(g, {s}, h.head[s], {})
    BY DEF Linked, LeadToLive
<1>2. Apart(g, {s}, h.head[s], {})
    BY DEF Linked, Apart
<1>. QED
    BY <1>1, <1>2 DEF Linked

\* The timer that the walk has come to can be taken in hand.
LEMMA NodeInHand ==
    ASSUME IInv, Walking, node # NULL
    PROVE  /\ node \in heap.alive /\ node \in Timers
           /\ Linked(heap, {Slot}, heap.next[node], {node})
<1>1. Linked(heap, {Slot}, node, {})
    BY DEF IInv, Links
<1>2. heap \in Heap
    BY DEF IInv, TypeOK
<1>3. node \in heap.alive /\ node \in Timers
    BY <1>1, <1>2, HeapFields DEF Linked, LeadToLive
<1>4. LeadToLive(heap, {Slot}, heap.next[node], {node})
    BY <1>1, <1>3 DEF Linked, LeadToLive, Apart
<1>5. Apart(heap, {Slot}, heap.next[node], {node})
    BY <1>1, <1>3 DEF Linked, LeadToLive, Apart
<1>. QED
    BY <1>3, <1>4, <1>5 DEF Linked

LEMMA SlotIsOne ==
    ASSUME TypeOK
    PROVE  /\ \A l \in 1..5 : <<l, Bits(tick, l)>> \in Slots
           /\ Slot \in Slots
<1>1. tick \in Int /\ level \in 1..5
    BY Units DEF TypeOK
<1>2. ASSUME NEW l \in 1..5 PROVE <<l, Bits(tick, l)>> \in Slots
    BY <1>1, BitsRange, SlotsAre
<1>. QED
    BY <1>1, <1>2 DEF Slot

\* The handler of the timer in hand has run, and has perhaps added a timer.
LEMMA NodeHasRun ==
    ASSUME IInv, Walking, node # NULL, NEW h \in Handled(Run(heap, node))
    PROVE  /\ h \in Heap /\ node \in h.alive
           /\ Linked(h, {Slot}, heap.next[node], {node})
           /\ CountsArePositive /\ CountsFit =>
                 /\ Ran(h.timer[node])
                 /\ h.timer[node].flag = Exec_All => Fits(h.timer[node])
                 /\ \A u \in h.alive \ {node} : Fits(h.timer[u])
<1> DEFINE a == Run(heap, node)
<1>1. /\ node \in heap.alive /\ node \in Timers
      /\ Linked(heap, {Slot}, heap.next[node], {node})
    BY NodeInHand
<1>2. heap \in Heap /\ TypeOK
    BY DEF IInv, TypeOK
<1>3. /\ a \in Heap /\ a.head = heap.head /\ a.next = heap.next /\ a.alive = heap.alive
      /\ \A u \in Timers \ {node} : a.timer[u] = heap.timer[u]
      /\ a.timer[node].flag = heap.timer[node].flag
      /\ a.timer[node].times = heap.timer[node].times
      /\ a.timer[node].asked = heap.timer[node].asked
      /\ a.timer[node].runs = IF heap.timer[node].flag = Exec_All
                              THEN heap.timer[node].runs ELSE heap.timer[node].runs + 1
    BY <1>1, <1>2, RunRight
<1>4. h \in Handled(a)
    OBVIOUS
<1> HIDE DEF a
<1>5. Linked(a, {Slot}, heap.next[node], {node})
    BY <1>1, <1>3, OnlyLinksMatter
<1>6. {node} \subseteq a.alive
    BY <1>1, <1>3
<1>7. /\ h \in Heap /\ a.alive \subseteq h.alive /\ Linked(h, {Slot}, heap.next[node], {node})
      /\ \A u \in a.alive : h.timer[u] = a.timer[u]
      /\ CountsArePositive => \A u \in h.alive \ a.alive : Fits(h.timer[u])
    BY <1>2, <1>3, <1>4, <1>5, <1>6, HandledRight
<1>8. ASSUME CountsArePositive, CountsFit
      PROVE  /\ Ran(h.timer[node])
             /\ h.timer[node].flag = Exec_All => Fits(h.timer[node])
             /\ \A u \in h.alive \ {node} : Fits(h.timer[u])
  <2>1. Fits(heap.timer[node])
    BY <1>1, <1>8 DEF CountsFit
  <2>2. heap.timer[node] \in Timer
    BY <1>1, <1>2, HeapFields
  <2>3. /\ heap.timer[node].runs \in Nat /\ heap.timer[node].asked \in Nat
        /\ heap.timer[node].times \in Nat
    BY <2>2, SizesAssumption DEF Timer, SizesAssumption
  <2>4. Ran(a.timer[node])
    BY <1>3, <2>1, <2>3 DEF Ran, Fits, Exec_All, Exec_Times
  <2>5. a.timer[node].flag = Exec_All => Fits(a.timer[node])
    BY <1>3, <2>1, <2>3 DEF Fits, Exec_All, Exec_Times
  <2>6. ASSUME NEW u \in h.alive \ {node} PROVE Fits(h.timer[u])
    <3>1. CASE u \in a.alive
      <4>1. u \in heap.alive /\ u \in Timers /\ h.timer[u] = heap.timer[u]
        BY <1>2, <1>3, <1>7, <2>6, <3>1, HeapFields
      <4>. QED
        BY <1>8, <4>1 DEF CountsFit
    <3>2. CASE u \notin a.alive
        BY <1>7, <1>8, <2>6, <3>2
    <3>. QED
        BY <3>1, <3>2
  <2>. QED
    BY <1>6, <1>7, <2>4, <2>5, <2>6
<1>. QED
    BY <1>6, <1>7, <1>8

(***************************************************************************)
(* The actions.                                                            *)
(***************************************************************************)
LEMMA InitRight == Init => IInv /\ CountsFit
<1> SUFFICES ASSUME Init PROVE IInv /\ CountsFit
    OBVIOUS
<1>1. Blank \in Timer
  <2>1. 0 \in 0..(Span - 1) /\ 0 \in 0..(UINT - 1)
    BY Units, SizesAssumption DEF SizesAssumption
  <2>. QED
    BY <2>1 DEF Blank, Timer
<1>2. heap \in Heap
    BY <1>1 DEF Init, Heap, Pointer
<1>3. TypeOK
    BY <1>2, SizesAssumption DEF Init, TypeOK, Pointer, SizesAssumption
<1>4. Places
    BY DEF Init, Places
<1>5. /\ heap.alive = {} /\ \A s \in Slots : heap.head[s] = NULL
      /\ ~Walking
    BY DEF Init, Walking
<1>6. Linked(heap, {}, NULL, {})
    BY <1>5 DEF Linked, LeadToLive, Apart
<1>. QED
    BY <1>3, <1>4, <1>5, <1>6 DEF IInv, Links, CountsFit

LEMMA Call_AddTimerKeeps ==
    ASSUME NEW t \in Timers, NEW r \in Requests, IInv, Call_AddTimer(t, r)
    PROVE  IInv' /\ (CountsArePositive /\ CountsFit => CountsFit')
<1>1. /\ tick \in Int /\ lag \in Int /\ heap \in Heap /\ r \in Request /\ TypeOK /\ Places
      /\ ~Walking /\ t \notin heap.alive /\ heap' = AddTimer(heap, t, r, tick, lag)
      /\ UNCHANGED <<tick, lag, quota, pc, level, node>>
    BY Units, SizesAssumption, RequestsAssumption
    DEF IInv, TypeOK, Call_AddTimer, Walking, SizesAssumption, RequestsAssumption
<1>2. Linked(heap, {}, NULL, {})
    BY <1>1 DEF IInv, Links
<1>3. LET g == AddTimer(heap, t, r, tick, lag)
      IN  /\ g \in Heap /\ g.alive \in {heap.alive, heap.alive \cup {t}}
          /\ Linked(g, {}, NULL, {})
          /\ \A u \in heap.alive : g.timer[u] = heap.timer[u]
          /\ t \in g.alive => NewCounts(g.timer[t], r)
  <2>1. {} \subseteq heap.alive
    OBVIOUS
  <2>2. tick \in Int /\ lag \in Int /\ heap \in Heap /\ r \in Request /\ t \notin heap.alive
    BY <1>1
  <2>. QED
    BY <1>2, <2>1, <2>2, AddTimerRight
<1>4. PICK g : g = AddTimer(heap, t, r, tick, lag)
    OBVIOUS
<1>5. /\ g \in Heap /\ g.alive \in {heap.alive, heap.alive \cup {t}} /\ Linked(g, {}, NULL, {})
      /\ \A u \in heap.alive : g.timer[u] = heap.timer[u]
      /\ t \in g.alive => NewCounts(g.timer[t], r)
      /\ heap' = g
    BY <1>1, <1>3, <1>4
<1>6. TypeOK' /\ Places'
    BY <1>1, <1>5 DEF TypeOK, Places
<1>7. Links'
    BY <1>1, <1>5 DEF Links, Walking
<1>8. ASSUME CountsArePositive, CountsFit PROVE CountsFit'
  <2>1. r.times \in Nat /\ (r.flag = Exec_Times => r.times > 0)
    BY <1>1, <1>8, SizesAssumption DEF Request, CountsArePositive, SizesAssumption
  <2>2. t \in g.alive => Fits(g.timer[t])
    BY <1>5, <2>1 DEF NewCounts, Fits
  <2>. QED
    BY <1>5, <1>8, <2>2 DEF CountsFit
<1>. QED
    BY <1>6, <1>7, <1>8 DEF IInv

\* The steps that leave the heap alone and do not walk.
LEMMA HeapKept ==
    ASSUME IInv, ~Walking, ~Walking', heap' = heap, TypeOK', Places'
    PROVE  IInv' /\ (CountsFit => CountsFit')
<1>1. Linked(heap, {}, NULL, {})
    BY DEF IInv, Links
<1>2. Links'
    BY <1>1 DEF Links
<1>. QED
    BY <1>2 DEF IInv, CountsFit

LEMMA ClockAdvancesKeeps == IInv /\ ClockAdvances => IInv' /\ (CountsFit => CountsFit')
<1> SUFFICES ASSUME IInv, ClockAdvances PROVE IInv' /\ (CountsFit => CountsFit')
    OBVIOUS
<1>1. /\ lag < MaxLag /\ lag' = lag + 1 /\ UNCHANGED <<tick, quota, pc, level, node, heap>>
      /\ TypeOK /\ Places
    BY DEF ClockAdvances, IInv
<1>2. lag \in Nat /\ quota \in Nat /\ MaxLag \in Nat
    BY <1>1, SizesAssumption DEF TypeOK, SizesAssumption
<1>3. TypeOK' /\ Places'
    BY <1>1, <1>2 DEF TypeOK, Places
<1>4. Links'
    BY <1>1 DEF IInv, Links, Walking, Slot
<1>. QED
    BY <1>1, <1>3, <1>4 DEF IInv, CountsFit

LEMMA TickKeeps == IInv /\ Tick => IInv' /\ (CountsFit => CountsFit')
<1> SUFFICES ASSUME IInv, Tick PROVE IInv' /\ (CountsFit => CountsFit')
    OBVIOUS
<1>1. TypeOK' /\ Places' /\ ~Walking /\ ~Walking' /\ heap' = heap
  <2>1. lag \in Nat
    BY SizesAssumption DEF IInv, TypeOK, SizesAssumption
  <2>. QED
    BY <2>1 DEF IInv, TypeOK, Tick, Places, Walking
<1>. QED
    BY <1>1, HeapKept

LEMMA TickReturnKeeps == IInv /\ TickReturn => IInv' /\ (CountsFit => CountsFit')
<1> SUFFICES ASSUME IInv, TickReturn PROVE IInv' /\ (CountsFit => CountsFit')
    OBVIOUS
<1>1. TypeOK' /\ Places' /\ ~Walking /\ ~Walking' /\ heap' = heap
    BY DEF IInv, TypeOK, TickReturn, Places, Walking
<1>. QED
    BY <1>1, HeapKept

LEMMA TickLoopKeeps == IInv /\ TickLoop => IInv' /\ (CountsFit => CountsFit')
<1> SUFFICES ASSUME IInv, TickLoop PROVE IInv' /\ (CountsFit => CountsFit')
    OBVIOUS
<1>1. /\ ~Walking /\ quota > 0 /\ lag' = lag - 1 /\ quota' = quota - 1 /\ heap' = heap
      /\ tick' = (tick + 1) % Span /\ heap \in Heap /\ TypeOK /\ Places
    BY DEF IInv, TypeOK, TickLoop, Walking
<1>2. PICK l \in {1, 2} :
        /\ level' = l /\ node' = heap.head[<<l, Bits(tick', l)>>]
        /\ pc' = IF l = 1 THEN "fire" ELSE "cascade"
    BY DEF TickLoop, EnterSlot
<1>3. tick' \in 0..(Span - 1)
  <2>1. tick + 1 \in Int
    BY <1>1, Units DEF TypeOK
  <2>. QED
    BY <1>1, <2>1, ModSpan
<1>4. lag' \in 0..MaxLag /\ quota' \in 0..MaxLag /\ quota' <= lag'
  <2>1. lag \in 0..MaxLag /\ quota \in 0..MaxLag /\ quota <= lag /\ MaxLag \in Nat
    BY <1>1, SizesAssumption DEF TypeOK, Places, SizesAssumption
  <2>. QED
    BY <1>1, <2>1
<1> DEFINE s == <<l, Bits(tick', l)>>
<1>5. s \in Slots
  <2>1. tick' \in Int /\ l \in 1..5
    BY <1>3, Units
  <2>. QED
    BY <2>1, BitsRange, SlotsAre
<1>6. Slot' = s /\ Walking'
    BY <1>2 DEF Slot, Walking
<1> HIDE DEF s
<1>7. node' = heap.head[s]
    BY <1>2 DEF s
<1>8. Linked(heap, {}, NULL, {})
    BY <1>1 DEF IInv, Links
<1>9. Linked(heap, {s}, heap.head[s], {})
    BY <1>5, <1>8, EnterRight
<1>10. Links'
    BY <1>1, <1>6, <1>7, <1>9 DEF Links
<1>11. node' \in Pointer
    BY <1>1, <1>5, <1>7, HeapFields
<1>12. TypeOK'
    BY <1>1, <1>2, <1>3, <1>4, <1>11 DEF TypeOK
<1>13. Places'
    BY <1>2, <1>4 DEF Places
<1>. QED
    BY <1>1, <1>10, <1>12, <1>13 DEF IInv, CountsFit

\* A timer of the walk has been handled.
LEMMA NodeHandled ==
    ASSUME IInv, Walking, node # NULL, node' = heap.next[node],
           UNCHANGED <<tick, lag, quota, pc, level>>,
           heap' \in Heap, Linked(heap', {Slot}, heap.next[node], {})
    PROVE  IInv'
<1>1. TypeOK /\ Places /\ heap \in Heap
    BY DEF IInv, TypeOK
<1>2. node \in Timers /\ node' \in Pointer
    BY <1>1, NodeInHand, HeapFields
<1>3. TypeOK' /\ Places'
    BY <1>1, <1>2 DEF TypeOK, Places
<1>4. Slot' = Slot /\ Walking'
    BY DEF Slot, Walking
<1>5. Links'
    BY <1>4 DEF Links
<1>. QED
    BY <1>3, <1>5 DEF IInv

LEMMA FireKeeps == IInv /\ Fire => IInv' /\ (CountsArePositive /\ CountsFit => CountsFit')
<1> SUFFICES ASSUME IInv, Fire PROVE IInv' /\ (CountsArePositive /\ CountsFit => CountsFit')
    OBVIOUS
<1>1. /\ Walking /\ node # NULL /\ node' = heap.next[node] /\ TypeOK
      /\ UNCHANGED <<tick, lag, quota, pc, level>>
    BY DEF Fire, Walking, IInv
<1>2. PICK h \in Handled(Run(heap, node)) : heap' = AfterFire(h, node)
    BY DEF Fire
<1>3. /\ h \in Heap /\ node \in h.alive
      /\ Linked(h, {Slot}, heap.next[node], {node})
      /\ CountsArePositive /\ CountsFit =>
            /\ Ran(h.timer[node])
            /\ h.timer[node].flag = Exec_All => Fits(h.timer[node])
            /\ \A u \in h.alive \ {node} : Fits(h.timer[u])
    BY <1>1, NodeHasRun
<1>4. LET g == AfterFire(h, node)
      IN  /\ Handed(g, h, node) /\ Linked(g, {Slot}, heap.next[node], {})
          /\ Ran(h.timer[node]) /\ node \in g.alive => Fits(g.timer[node])
    BY <1>1, <1>3, AfterFireRight
<1>5. /\ Handed(heap', h, node) /\ Linked(heap', {Slot}, heap.next[node], {})
      /\ Ran(h.timer[node]) /\ node \in heap'.alive => Fits(heap'.timer[node])
    BY <1>2, <1>4
<1>6. IInv'
    BY <1>1, <1>5, NodeHandled DEF Handed
<1>7. CountsArePositive /\ CountsFit => CountsFit'
    BY <1>3, <1>5 DEF Handed, CountsFit
<1>. QED
    BY <1>6, <1>7

LEMMA _SwitchOthWheelKeeps ==
    IInv /\ _SwitchOthWheel => IInv' /\ (CountsArePositive /\ CountsFit => CountsFit')
<1> SUFFICES ASSUME IInv, _SwitchOthWheel
             PROVE  IInv' /\ (CountsArePositive /\ CountsFit => CountsFit')
    OBVIOUS
<1>1. /\ Walking /\ node # NULL /\ node' = heap.next[node] /\ TypeOK /\ heap \in Heap
      /\ UNCHANGED <<tick, lag, quota, pc, level>>
    BY DEF _SwitchOthWheel, Walking, IInv, TypeOK
<1>2. tick \in Int /\ lag \in Int /\ NULL \notin {}
    BY <1>1, Units, SizesAssumption DEF TypeOK, SizesAssumption
<1>3. CASE Due(heap, node, tick)
  <2>1. PICK h \in Handled(Run(heap, node)) : heap' = AfterImmediate(h, node, tick, lag)
    BY <1>3 DEF _SwitchOthWheel
  <2>2. /\ h \in Heap /\ node \in h.alive
        /\ Linked(h, {Slot}, heap.next[node], {node})
        /\ CountsArePositive /\ CountsFit =>
              /\ Ran(h.timer[node])
              /\ h.timer[node].flag = Exec_All => Fits(h.timer[node])
              /\ \A u \in h.alive \ {node} : Fits(h.timer[u])
    BY <1>1, NodeHasRun
  <2>3. Linked(h, {Slot}, heap.next[node], {} \cup {node}) /\ node \notin {}
    BY <2>2
  <2>4. LET g == AfterImmediate(h, node, tick, lag)
        IN  /\ Handed(g, h, node) /\ Linked(g, {Slot}, heap.next[node], {})
            /\ node \in g.alive => /\ h.timer[node].flag = Exec_All
                                   /\ SameCounts(g.timer[node], h.timer[node])
    BY <1>2, <2>2, <2>3, AfterImmediateRight
  <2>5. /\ Handed(heap', h, node) /\ Linked(heap', {Slot}, heap.next[node], {})
        /\ node \in heap'.alive => /\ h.timer[node].flag = Exec_All
                                   /\ SameCounts(heap'.timer[node], h.timer[node])
    BY <2>1, <2>4
  <2>6. IInv'
    BY <1>1, <2>5, NodeHandled DEF Handed
  <2>7. ASSUME CountsArePositive, CountsFit PROVE CountsFit'
    <3>1. node \in heap'.alive => Fits(heap'.timer[node])
        BY <2>2, <2>5, <2>7 DEF SameCounts, Fits
    <3>. QED
        BY <2>2, <2>5, <2>7, <3>1 DEF Handed, CountsFit
  <2>. QED
    BY <2>6, <2>7
<1>4. CASE ~Due(heap, node, tick)
  <2>1. heap' = Insert(heap, node, tick)
    BY <1>4 DEF _SwitchOthWheel
  <2>2. /\ node \in heap.alive
        /\ Linked(heap, {Slot}, heap.next[node], {} \cup {node}) /\ node \notin {}
    BY <1>1, NodeInHand
  <2>3. LET g == Insert(heap, node, tick)
        IN  /\ g \in Heap /\ g.alive = heap.alive /\ g.timer = heap.timer
            /\ Linked(g, {Slot}, heap.next[node], {})
    BY <1>1, <1>2, <2>2, InsertRight
  <2>4. /\ heap' \in Heap /\ heap'.alive = heap.alive /\ heap'.timer = heap.timer
        /\ Linked(heap', {Slot}, heap.next[node], {})
    BY <2>1, <2>3
  <2>5. IInv'
    BY <1>1, <2>4, NodeHandled
  <2>. QED
    BY <2>4, <2>5 DEF CountsFit
<1>. QED
    BY <1>3, <1>4

LEMMA FireDoneKeeps == IInv /\ FireDone => IInv' /\ (CountsFit => CountsFit')
<1> SUFFICES ASSUME IInv, FireDone PROVE IInv' /\ (CountsFit => CountsFit')
    OBVIOUS
<1>1. /\ Walking /\ ~Walking' /\ node = NULL /\ TypeOK /\ Places /\ heap \in Heap
      /\ UNCHANGED <<tick, lag, quota, level, node>> /\ pc' = "loop"
      /\ heap' = [heap EXCEPT !.head[Slot] = NULL]
    BY DEF FireDone, Walking, IInv, TypeOK
<1>2. Slot \in Slots
    BY <1>1, SlotIsOne
<1>3. /\ heap' \in Heap /\ heap'.alive = heap.alive /\ heap'.next = heap.next
      /\ heap'.timer = heap.timer /\ heap'.head = [heap.head EXCEPT ![Slot] = NULL]
    BY <1>1, HeapFields DEF Heap, Pointer
<1>4. heap'.head[Slot] = NULL /\ \A r \in Slots \ {Slot} : heap'.head[r] = heap.head[r]
    BY <1>1, <1>2, <1>3, HeapFields
<1>5. Linked(heap, {Slot}, NULL, {})
    BY <1>1 DEF IInv, Links
<1>6. Linked(heap', {}, NULL, {})
  <2>1. \A r \in Slots \ {} : heap'.head[r] # NULL => r \in Slots \ {Slot}
    BY <1>4
  <2>. QED
    BY <1>3, <1>4, <1>5, <2>1 DEF Linked, LeadToLive, Apart
<1>7. TypeOK' /\ Places' /\ Links'
    BY <1>1, <1>3, <1>6 DEF TypeOK, Places, Links
<1>. QED
    BY <1>3, <1>7 DEF IInv, CountsFit

LEMMA SwitchOthWheelKeeps == IInv /\ SwitchOthWheel => IInv' /\ (CountsFit => CountsFit')
<1> SUFFICES ASSUME IInv, SwitchOthWheel PROVE IInv' /\ (CountsFit => CountsFit')
    OBVIOUS
<1>1. /\ Walking /\ pc = "cascade" /\ node = NULL /\ TypeOK /\ Places /\ heap \in Heap
      /\ UNCHANGED <<tick, lag, quota>> /\ level \in 2..5
    BY DEF SwitchOthWheel, Walking, IInv, TypeOK, Places
<1>2. Slot \in Slots
    BY <1>1, SlotIsOne
<1>3. /\ heap' \in Heap /\ heap'.alive = heap.alive /\ heap'.next = heap.next
      /\ heap'.timer = heap.timer /\ heap'.head = [heap.head EXCEPT ![Slot] = NULL]
  <2>1. CASE heap.head[Slot] = NULL
    <3>1. heap' = heap
        BY <2>1 DEF SwitchOthWheel
    <3>2. heap.head = [heap.head EXCEPT ![Slot] = NULL]
        BY <1>1, <1>2, <2>1, HeapFields
    <3>. QED
        BY <1>1, <3>1, <3>2
  <2>2. CASE heap.head[Slot] # NULL
    <3>1. heap' = [heap EXCEPT !.head[Slot] = NULL, !.tail[Slot] = NULL]
        BY <2>2 DEF SwitchOthWheel
    <3>. QED
        BY <1>1, <3>1, HeapFields DEF Heap, Pointer
  <2>. QED
    BY <2>1, <2>2
<1>4. heap'.head[Slot] = NULL /\ \A r \in Slots \ {Slot} : heap'.head[r] = heap.head[r]
    BY <1>1, <1>2, <1>3, HeapFields
<1>5. Linked(heap, {Slot}, NULL, {})
    BY <1>1 DEF IInv, Links
<1>6. PICK l \in 1..5 :
        /\ l # level /\ level' = l /\ node' = heap.head[<<l, Bits(tick, l)>>]
        /\ pc' \in {"cascade", "fire"} /\ (pc' = "fire" <=> l = 1)
  <2>1. CASE Slot[2] = 0 /\ level < 5
    <3>1. /\ level + 1 \in 2..5 /\ level + 1 # level /\ level' = level + 1
          /\ node' = heap.head[<<level + 1, Bits(tick, level + 1)>>] /\ pc' = "cascade"
        BY <1>1, <2>1 DEF SwitchOthWheel, EnterSlot
    <3>. QED
        BY <3>1
  <2>2. CASE ~(Slot[2] = 0 /\ level < 5)
    <3>1. /\ 1 # level /\ level' = 1 /\ node' = heap.head[<<1, Bits(tick, 1)>>]
          /\ pc' = "fire"
        BY <1>1, <2>2 DEF SwitchOthWheel, EnterSlot
    <3>. QED
        BY <3>1
  <2>. QED
    BY <2>1, <2>2
<1> DEFINE s == <<l, Bits(tick, l)>>
<1>7. s \in Slots \ {Slot}
  <2>1. s \in Slots
    BY <1>1, SlotIsOne
  <2>2. s # Slot
    BY <1>6 DEF Slot
  <2>. QED
    BY <2>1, <2>2
<1>8. Slot' = s /\ Walking' /\ node' = heap.head[s]
    BY <1>1, <1>6 DEF Slot, Walking
<1> HIDE DEF s
<1>9. Linked(heap', {s}, heap.head[s], {})
    BY <1>3, <1>4, <1>5, <1>7, EnterRight
<1>10. node' \in Pointer
    BY <1>1, <1>7, <1>8, HeapFields
<1>11. TypeOK' /\ Places'
    BY <1>1, <1>3, <1>6, <1>10 DEF TypeOK, Places
<1>12. Links'
    BY <1>8, <1>9 DEF Links
<1>. QED
    BY <1>3, <1>11, <1>12 DEF IInv, CountsFit

LEMMA StepRight ==
    IInv /\ [Next]_vars => IInv' /\ (CountsArePositive /\ CountsFit => CountsFit')
<1>1. IInv /\ UNCHANGED vars => IInv' /\ (CountsFit => CountsFit')
    BY DEF vars, IInv, TypeOK, Places, Links, Walking, Slot, CountsFit
<1>. QED
    BY <1>1, Call_AddTimerKeeps, ClockAdvancesKeeps, TickKeeps, TickLoopKeeps, TickReturnKeeps,
       _SwitchOthWheelKeeps, SwitchOthWheelKeeps, FireKeeps, FireDoneKeeps DEF Next, InTick

(***************************************************************************)
(* Second part: nothing is lost.  Division first.                          *)
(***************************************************************************)

LEMMA DivMod ==
    ASSUME NEW u \in Nat \ {0}, NEW n \in Int
    PROVE  n \div u \in Int /\ n % u \in 0..(u - 1) /\ n = u * (n \div u) + (n % u)
OBVIOUS

LEMMA DivModUnique ==
    ASSUME NEW u \in Nat \ {0}, NEW a \in Int, NEW b \in 0..(u - 1)
    PROVE  (u * a + b) \div u = a /\ (u * a + b) % u = b
<1> DEFINE n == u * a + b
           q == n \div u
           r == n % u
<1>1. n \in Int
    OBVIOUS
<1>2. q \in Int /\ r \in 0..(u - 1) /\ n = u * q + r
    BY <1>1, DivMod
<1> HIDE DEF q, r
<1>3. u * (a - q) = r - b
    BY <1>2
<1>4. CASE a = q
    BY <1>2, <1>4 DEF q, r
<1>5. CASE a > q
  <2>1. \A k \in Int : k >= 1 => u * k >= u
    OBVIOUS
  <2>2. a - q \in Int /\ a - q >= 1
    BY <1>2, <1>5
  <2>3. u * (a - q) >= u
    BY <2>1, <2>2
  <2>. QED
    BY <1>2, <1>3, <2>3
<1>6. CASE a < q
  <2>1. \A k \in Int : k <= -1 => u * k <= -u
    OBVIOUS
  <2>2. a - q \in Int /\ a - q <= -1
    BY <1>2, <1>6
  <2>3. u * (a - q) <= -u
    BY <2>1, <2>2
  <2>. QED
    BY <1>2, <1>3, <2>3
<1>. QED
    BY <1>2, <1>4, <1>5, <1>6

LEMMA DivBetween ==
    ASSUME NEW u \in Nat \ {0}, NEW n \in Int, NEW k \in Int
    PROVE  (u * k <= n => k <= n \div u) /\ (n < u * k => n \div u < k)
<1> DEFINE q == n \div u
           r == n % u
<1>1. q \in Int /\ r \in 0..(u - 1) /\ n = u * q + r
    BY DivMod
<1> HIDE DEF q, r
<1>2. u * (k - q) = u * k - u * q /\ k - q \in Int
    BY <1>1
<1>3. ASSUME u * k <= n, k > q PROVE FALSE
  <2>1. \A j \in Int : j >= 1 => u * j >= u
    OBVIOUS
  <2>2. u * (k - q) >= u
    BY <1>1, <1>3, <2>1
  <2>. QED
    BY <1>1, <1>2, <1>3, <2>2
<1>4. ASSUME n < u * k, q >= k PROVE FALSE
  <2>1. \A j \in Int : j <= 0 => u * j <= 0
    OBVIOUS
  <2>2. u * (k - q) <= 0
    BY <1>1, <1>4, <2>1
  <2>. QED
    BY <1>1, <1>2, <1>4, <2>2
<1>. QED
    BY <1>1, <1>3, <1>4 DEF q

LEMMA ModShift ==
    ASSUME NEW u \in Nat \ {0}, NEW n \in Int, NEW k \in Int
    PROVE  (n + u * k) % u = n % u /\ (n + u * k) \div u = (n \div u) + k
<1> DEFINE q == n \div u
           r == n % u
<1>1. q \in Int /\ r \in 0..(u - 1) /\ n = u * q + r
    BY DivMod
<1> HIDE DEF q, r
<1>2. n + u * k = u * (q + k) + r /\ q + k \in Int
    BY <1>1
<1>3. (u * (q + k) + r) % u = r /\ (u * (q + k) + r) \div u = q + k
    BY <1>1, <1>2, DivModUnique
<1>. QED
    BY <1>2, <1>3 DEF q, r

\* Each wheel turns once while the next one moves by a slot, and all of them fit in Span.
LEMMA UnitSteps ==
    /\ Unit(1) = 1
    /\ \A l \in 1..5 : Unit(l + 1) = Unit(l) * Width(l)
    /\ \A l \in 1..5 : \E m \in Nat : Span = Unit(l) * (Width(l) * m)
    /\ \A l \in 1..4 : 2 * Unit(l + 1) <= Span
    /\ \A l \in 1..4 : Unit(l) < Unit(l + 1)
<1> DEFINE A == TV1_SIZE
           B == TV_SIZE
<1>1. A \in Nat /\ B \in Nat /\ A >= 2 /\ B >= 2
    BY SizesAssumption DEF SizesAssumption
<1>2. /\ Unit(1) = 1 /\ Unit(2) = A /\ Unit(3) = A * B /\ Unit(4) = A * B * B
      /\ Unit(5) = A * B * B * B /\ Unit(6) = A * B * B * B * B
      /\ Width(1) = A /\ Width(2) = B /\ Width(3) = B /\ Width(4) = B /\ Width(5) = B
    BY DEF Unit, Width
<1> HIDE DEF A, B
<1>3. \A x \in Nat : x * B \in Nat /\ x * A \in Nat /\ x * B >= x + x
  <2>1. \A x, y \in Nat : x * y \in Nat
    OBVIOUS
  <2>2. \A x, y \in Nat : y >= 2 => x * y >= x + x
    OBVIOUS
  <2>. QED
    BY <1>1, <2>1, <2>2
<1> DEFINE C == A * B
           D == C * B
           E == D * B
           F == E * B
<1>4. /\ C \in Nat /\ C >= A + A
      /\ D \in Nat /\ D >= C + C
      /\ E \in Nat /\ E >= D + D
      /\ F \in Nat /\ F >= E + E
    BY <1>1, <1>3
<1>5. /\ Unit(2) = A /\ Unit(3) = C /\ Unit(4) = D /\ Unit(5) = E /\ Unit(6) = F
      /\ Span = F
    BY <1>2 DEF Span
<1>6. \A l \in 1..5 : Unit(l + 1) = Unit(l) * Width(l)
  <2>1. Unit(1 + 1) = Unit(1) * Width(1)
    BY <1>1, <1>2
  <2>2. Unit(2 + 1) = Unit(2) * Width(2)
    BY <1>2
  <2>3. Unit(3 + 1) = Unit(3) * Width(3) /\ Unit(4 + 1) = Unit(4) * Width(4)
    BY <1>2
  <2>4. Unit(5 + 1) = Unit(5) * Width(5)
    BY <1>2
  <2>. QED
    BY <2>1, <2>2, <2>3, <2>4
<1>7. \A l \in 1..5 : \E m \in Nat : Span = Unit(l) * (Width(l) * m)
  <2>0. B * B \in Nat /\ B * B * B \in Nat /\ B * B * B * B \in Nat
    BY <1>1, <1>3
  <2>1. Span = Unit(1) * (Width(1) * (B * B * B * B))
    BY <1>1, <1>2, <1>5
  <2>2. Span = Unit(2) * (Width(2) * (B * B * B))
    BY <1>1, <1>2, <1>5
  <2>3. Span = Unit(3) * (Width(3) * (B * B))
    BY <1>1, <1>2, <1>5
  <2>4. Span = Unit(4) * (Width(4) * B)
    BY <1>1, <1>2, <1>5
  <2>5. Span = Unit(5) * (Width(5) * 1)
    BY <1>1, <1>2, <1>5
  <2>6. 1 \in Nat /\ B \in Nat
    BY <1>1
  <2>. QED
    BY <2>0, <2>1, <2>2, <2>3, <2>4, <2>5, <2>6
<1> HIDE DEF C, D, E, F
<1>8. \A l \in 1..4 : 2 * Unit(l + 1) <= Span /\ Unit(l) < Unit(l + 1)
    BY <1>1, <1>2, <1>4, <1>5
<1>. QED
    BY <1>2, <1>6, <1>7, <1>8

LEMMA UnitsAre ==
    ASSUME NEW l \in 1..5
    PROVE  /\ Unit(l) \in Nat \ {0} /\ Width(l) \in Nat \ {0} /\ Unit(l + 1) = Unit(l) * Width(l)
           /\ Unit(l) * Width(l) \in Nat \ {0} /\ Span \in Nat \ {0}
BY Units, UnitSteps

(***************************************************************************)
(* The wheel and the slot where a timer belongs.  A timer that is `Turns'  *)
(* slots of its wheel ahead is in the slot that many further on; an open   *)
(* wheel, whose slot is about to be served, holds those of the turn that   *)
(* begins, a closed one those of the turn that it is in.                   *)
(***************************************************************************)

\* Milliseconds to expiry, and the slots of wheel l that begin until then.
Ahead(expired, now) == (expired - now) % Span
Turns(now, d, l) == ((now % Unit(l)) + d) \div Unit(l)

\* Slot s is where a timer of that expiry belongs; open are the open wheels.
Placed(s, expired, now, open) ==
    LET l == s[1]
        d == Ahead(expired, now)
    IN  /\ l \in 1..4 /\ s[2] = Bits(expired, l) /\ d < Unit(5)
        /\ Turns(now, d, l) \in IF l \in open THEN 0..(Width(l) - 1) ELSE 1..Width(l)

\* The distance to expiry, and the time that lies that far ahead.
LEMMA AheadIs ==
    ASSUME NEW expired \in Int, NEW now \in Int
    PROVE  /\ Ahead(expired, now) \in 0..(Span - 1)
           /\ \E k \in Int : expired = now + Ahead(expired, now) + Span * k
<1>1. expired - now \in Int /\ Span \in Nat \ {0}
    BY Units
<1> DEFINE k == (expired - now) \div Span
<1>2. /\ Ahead(expired, now) \in 0..(Span - 1) /\ k \in Int
      /\ expired - now = Span * k + Ahead(expired, now)
    BY <1>1, DivMod DEF Ahead
<1> HIDE DEF k
<1>3. Span * k \in Int /\ Ahead(expired, now) \in Int
    BY <1>1, <1>2
<1>4. expired = now + Ahead(expired, now) + Span * k
    BY <1>2, <1>3
<1>. QED
    BY <1>2, <1>4

\* An expiry lies Turns slots of a wheel beyond the slot of the current time.
LEMMA BitsAhead ==
    ASSUME NEW expired \in Int, NEW now \in Int, NEW l \in 1..5
    PROVE  /\ Turns(now, Ahead(expired, now), l) \in Int
           /\ now \div Unit(l) \in Int
           /\ Bits(expired, l)
                = ((now \div Unit(l)) + Turns(now, Ahead(expired, now), l)) % Width(l)
<1> DEFINE d == Ahead(expired, now)
           U == Unit(l)
           W == Width(l)
           q == now \div U
           r == now % U
           T == (r + d) \div U
<1>1. U \in Nat \ {0} /\ W \in Nat \ {0}
    BY Units
<1>2. PICK k \in Int : expired = now + d + Span * k
    BY AheadIs
<1>3. PICK m \in Nat : Span = U * (W * m)
    BY UnitSteps
<1>4. d \in Int
  <2>1. \A n \in 0..(Span - 1) : n \in Int
    BY Units
  <2>. QED
    BY <2>1, AheadIs
<1>5. q \in Int /\ r \in Int /\ now = U * q + r
  <2>1. q \in Int /\ r \in 0..(U - 1) /\ now = U * q + r
    BY <1>1, DivMod
  <2>. QED
    BY <1>1, <2>1
<1>6. T \in Int
  <2>1. r + d \in Int
    BY <1>4, <1>5
  <2>. QED
    BY <1>1, <2>1, DivMod
<1> HIDE DEF d, U, W
<1>7. (now + d) \div U = q + T
  <2>1. now + d = (r + d) + U * q /\ r + d \in Int
    BY <1>1, <1>4, <1>5
  <2>2. ((r + d) + U * q) \div U = T + q
    BY <1>1, <1>5, <2>1, ModShift
  <2>. QED
    BY <1>5, <1>6, <2>1, <2>2
<1>8. expired \div U = (q + T) + W * (m * k)
  <2> DEFINE j == W * (m * k)
  <2>1. j \in Int /\ m * k \in Int /\ W * m \in Int
    BY <1>1
  <2>2. U * (W * m) * k = U * j
    BY <1>1
  <2>3. expired = (now + d) + U * j /\ now + d \in Int
    BY <1>2, <1>3, <1>4, <2>2
  <2> HIDE DEF j
  <2>4. expired \div U = ((now + d) \div U) + j
    BY <1>1, <2>1, <2>3, ModShift
  <2>. QED
    BY <1>7, <2>4 DEF j
<1>9. ((q + T) + W * (m * k)) % W = (q + T) % W
  <2>1. m * k \in Int /\ q + T \in Int
    BY <1>5, <1>6
  <2>. QED
    BY <1>1, <2>1, ModShift
<1>. QED
    BY <1>5, <1>6, <1>8, <1>9 DEF Bits, Turns, d, U, W

\* A timer that has a slot ahead of it in a wheel, and less than a turn, is not in the slot
\* of the current time; with none ahead it is.
LEMMA SameSlot ==
    ASSUME NEW expired \in Int, NEW now \in Int, NEW l \in 1..5,
           Turns(now, Ahead(expired, now), l) \in 0..(Width(l) - 1)
    PROVE  Bits(expired, l) = Bits(now, l) <=> Turns(now, Ahead(expired, now), l) = 0
<1> DEFINE q == now \div Unit(l)
           T == Turns(now, Ahead(expired, now), l)
           W == Width(l)
<1>1. /\ W \in Nat \ {0} /\ q \in Int /\ T \in 0..(W - 1)
      /\ Bits(expired, l) = (q + T) % W /\ Bits(now, l) = q % W
    BY BitsAhead, Units DEF Bits
<1> HIDE DEF q, T, W
<1>2. ASSUME (q + T) % W = q % W PROVE T = 0
  <2>1. PICK a \in Int, b \in Int, r \in 0..(W - 1) : q = W * a + r /\ q + T = W * b + r
    <3>1. /\ q \div W \in Int /\ q % W \in 0..(W - 1) /\ q = W * (q \div W) + (q % W)
        BY <1>1, DivMod
    <3>2. q + T \in Int
        BY <1>1
    <3>3. /\ (q + T) \div W \in Int
          /\ q + T = W * ((q + T) \div W) + ((q + T) % W)
        BY <1>1, <3>2, DivMod
    <3>. QED
        BY <1>2, <3>1, <3>3
  <2>2. T = W * (b - a) /\ b - a \in Int
    BY <1>1, <2>1
  <2>3. (W * (b - a) + 0) \div W = b - a /\ (W * 0 + T) \div W = 0
    <3>1. 0 \in 0..(W - 1) /\ 0 \in Int
        BY <1>1
    <3>2. (W * (b - a) + 0) \div W = b - a
        BY <1>1, <2>2, <3>1, DivModUnique
    <3>3. (W * 0 + T) \div W = 0
        BY <1>1, <3>1, DivModUnique
    <3>. QED
        BY <3>2, <3>3
  <2>4. W * (b - a) + 0 = T /\ W * 0 + T = T
    BY <1>1, <2>2
  <2>5. b - a = 0
    BY <2>3, <2>4
  <2>. QED
    BY <1>1, <2>2, <2>5
<1>3. ASSUME T = 0 PROVE (q + T) % W = q % W
    BY <1>1, <1>3
<1>. QED
    BY <1>1, <1>2, <1>3 DEF T

\* A time is at a boundary of a wheel iff it is at one of the wheel below and that wheel's
\* slot is its first.
LEMMA AlignedUp ==
    ASSUME NEW now \in Int, NEW l \in 1..5
    PROVE  now % Unit(l + 1) = 0 <=> now % Unit(l) = 0 /\ Bits(now, l) = 0
<1> DEFINE U == Unit(l)
           W == Width(l)
           q == now \div U
           r == now % U
           a == q \div W
           b == q % W
<1>1. /\ U \in Nat \ {0} /\ W \in Nat \ {0} /\ Unit(l + 1) = U * W /\ U * W \in Nat \ {0}
    BY UnitsAre
<1>2. q \in Int /\ r \in 0..(U - 1) /\ now = U * q + r
    BY <1>1, DivMod
<1>3. a \in Int /\ b \in 0..(W - 1) /\ q = W * a + b
    BY <1>1, <1>2, DivMod
<1>4. Bits(now, l) = b
    BY DEF Bits
<1> HIDE DEF U, W, q, r, a, b
<1>5. now = (U * W) * a + (U * b + r)
    BY <1>1, <1>2, <1>3
<1>6. U * b + r \in 0..(U * W - 1)
  <2>1. U * (W - 1 - b) >= 0 /\ U * b >= 0
    <3>1. \A x, y \in Nat : x * y >= 0
        OBVIOUS
    <3>2. W - 1 - b \in Nat /\ b \in Nat
        BY <1>1, <1>3
    <3>. QED
        BY <1>1, <3>1, <3>2
  <2>2. U * (W - 1 - b) = U * W - U - U * b
    BY <1>1, <1>3
  <2>. QED
    BY <1>1, <1>2, <1>3, <2>1, <2>2
<1>7. now % (U * W) = U * b + r
    BY <1>1, <1>3, <1>5, <1>6, DivModUnique
<1>8. U * b + r = 0 <=> b = 0 /\ r = 0
  <2>1. ASSUME b # 0 PROVE U * b > 0
    <3>1. \A x, y \in Nat \ {0} : x * y > 0
        OBVIOUS
    <3>. QED
        BY <1>1, <1>3, <2>1, <3>1
  <2>2. U * b \in Int /\ (b = 0 => U * b = 0)
    BY <1>1, <1>3
  <2>. QED
    BY <1>1, <1>2, <1>3, <2>1, <2>2
<1>. QED
    BY <1>1, <1>4, <1>7, <1>8 DEF U, r

\* It is then at one of every wheel below.
LEMMA AlignedDown ==
    ASSUME NEW now \in Int, NEW m \in 1..5, now % Unit(m) = 0, NEW l \in 1..m
    PROVE  now % Unit(l) = 0
<1>1. \A k \in 1..5 : now % Unit(k + 1) = 0 => now % Unit(k) = 0
    BY AlignedUp
<1>2. /\ now % Unit(5) = 0 => now % Unit(4) = 0
      /\ now % Unit(4) = 0 => now % Unit(3) = 0
      /\ now % Unit(3) = 0 => now % Unit(2) = 0
      /\ now % Unit(2) = 0 => now % Unit(1) = 0
  <2>1. now % Unit(4 + 1) = 0 => now % Unit(4) = 0
    BY <1>1
  <2>2. now % Unit(3 + 1) = 0 => now % Unit(3) = 0
    BY <1>1
  <2>3. now % Unit(2 + 1) = 0 => now % Unit(2) = 0
    BY <1>1
  <2>4. now % Unit(1 + 1) = 0 => now % Unit(1) = 0
    BY <1>1
  <2>. QED
    BY <2>1, <2>2, <2>3, <2>4
<1>3. m \in {1, 2, 3, 4, 5} /\ l \in {1, 2, 3, 4, 5} /\ l <= m
    OBVIOUS
<1>. QED
    BY <1>2, <1>3

LEMMA AheadOfSum ==
    ASSUME NEW now \in Int, NEW d \in 0..(Span - 1)
    PROVE  /\ Ahead((now + d) % Span, now) = d
           /\ Ahead((d + now) % Span, now) = d
<1>1. Span \in Nat \ {0} /\ d \in Int
    BY Units
<1> DEFINE k == (now + d) \div Span
           e == (now + d) % Span
<1>2. now + d \in Int
    BY <1>1
<1>3. k \in Int /\ e \in 0..(Span - 1) /\ now + d = Span * k + e
    BY <1>1, <1>2, DivMod
<1> HIDE DEF k, e
<1>4. e - now = d + Span * (-k)
    BY <1>1, <1>3
<1>5. (d + Span * (-k)) % Span = d % Span
  <2>1. -k \in Int
    BY <1>3
  <2>. QED
    BY <1>1, <2>1, ModShift
<1>6. d % Span = d
    BY <1>1
<1>7. Ahead(e, now) = d
    BY <1>4, <1>5, <1>6 DEF Ahead
<1>8. (d + now) = (now + d)
    BY <1>1
<1>. QED
    BY <1>7, <1>8 DEF e

\* The difference that the code computes, for the timers of a wheel.
LEMMA IdxIs ==
    ASSUME NEW expired \in Int, NEW now \in Int, Ahead(expired, now) < Unit(5)
    PROVE  Idx(expired, now) = Ahead(expired, now)
<1>1. Ahead(expired, now) \in 0..(Span - 1) /\ Span \in Nat
    BY AheadIs, Units
<1>2. 2 * Unit(4 + 1) <= Span /\ Unit(5) \in Nat
    BY UnitSteps, Units
<1>3. 2 * Ahead(expired, now) < Span
    BY <1>1, <1>2
<1>. QED
    BY <1>3 DEF Idx, Ahead

\* Wheels are open only at the beginning of one of their slots.
OpenAt(open, now) == open \subseteq 1..4 /\ \A l \in open : now % Unit(l) = 0

\* _AddTimer (timewheel.c:49-100) puts a timer that is not due where it belongs, and never
\* in the slot that is being walked.
LEMMA SlotForPlaced ==
    ASSUME NEW expired \in Int, NEW now \in Int, NEW open, OpenAt(open, now),
           Ahead(expired, now) \in 1..(Unit(5) - 1)
    PROVE  /\ Placed(SlotFor(expired, now), expired, now, open)
           /\ \A l \in open \cup {5} : SlotFor(expired, now) # <<l, Bits(now, l)>>
<1> DEFINE d == Ahead(expired, now)
           fit == {l \in 1..4 : d < Unit(l + 1)}
<1>1. d \in Nat \ {0} /\ d < Unit(5) /\ Idx(expired, now) = d
  <2>1. Unit(5) \in Nat
    BY Units
  <2>2. d \in Nat \ {0} /\ d < Unit(5)
    BY <2>1
  <2>. QED
    BY <2>2, IdxIs
<1> HIDE DEF d
<1>2. PICK l \in fit : \A y \in fit : l <= y
  <2>1. 4 \in fit
    BY <1>1
  <2>2. CASE 1 \in fit
    BY <2>2
  <2>3. CASE 1 \notin fit /\ 2 \in fit
    BY <2>3
  <2>4. CASE 1 \notin fit /\ 2 \notin fit /\ 3 \in fit
    BY <2>4
  <2>5. CASE 1 \notin fit /\ 2 \notin fit /\ 3 \notin fit
    BY <2>1, <2>5
  <2>. QED
    BY <2>2, <2>3, <2>4, <2>5
<1>3. fit # {} /\ (CHOOSE x \in fit : \A y \in fit : x <= y) = l
  <2>1. \A x \in fit : (\A y \in fit : x <= y) => x = l
    BY <1>2
  <2>. QED
    BY <1>2, <2>1
<1>4. l \in 1..4 /\ d < Unit(l + 1)
    BY <1>2
<1>5. SlotFor(expired, now) = <<l, Bits(expired, l)>>
  <2>1. fit = {x \in 1..4 : Idx(expired, now) < Unit(x + 1)}
    BY <1>1
  <2> HIDE DEF fit
  <2>. QED
    BY <1>3, <1>4, <2>1 DEF SlotFor
<1>6. d >= Unit(l)
  <2>1. CASE l = 1
    BY <1>1, <2>1, UnitSteps
  <2>2. CASE l # 1
    <3>1. l - 1 \in 1..4 /\ ~(l <= l - 1)
        BY <1>4, <2>2
    <3>2. l - 1 \notin fit
        BY <1>2, <3>1
    <3>3. ~(d < Unit((l - 1) + 1))
        BY <3>1, <3>2
    <3>4. (l - 1) + 1 = l /\ Unit(l) \in Nat
        BY <1>4, Units
    <3>. QED
        BY <1>1, <3>3, <3>4
  <2>. QED
    BY <2>1, <2>2
<1> HIDE DEF fit
<1> DEFINE U == Unit(l)
           W == Width(l)
           r == now % U
           T == Turns(now, d, l)
<1>7. U \in Nat \ {0} /\ W \in Nat \ {0} /\ d < U * W /\ d >= U /\ U * W \in Nat
    BY <1>4, <1>6, UnitsAre
<1>8. r \in 0..(U - 1) /\ r + d \in Int /\ T = (r + d) \div U
  <2>1. r \in 0..(U - 1)
    BY <1>7, DivMod
  <2>. QED
    BY <1>1, <1>7, <2>1 DEF Turns
<1> HIDE DEF U, W, r, T
<1>9. T \in 1..W
  <2>1. U * 1 <= r + d /\ r + d < U * (W + 1) /\ W + 1 \in Int /\ 1 \in Int
    <3>1. U * (W + 1) = U * W + U
        BY <1>7
    <3>. QED
        BY <1>1, <1>7, <1>8, <3>1
  <2>2. 1 <= (r + d) \div U /\ (r + d) \div U < W + 1 /\ (r + d) \div U \in Int
    BY <1>7, <1>8, <2>1, DivBetween, DivMod
  <2>. QED
    BY <1>7, <1>8, <2>2
<1>10. ASSUME l \in open PROVE T \in 1..(W - 1)
  <2>1. r = 0
    BY <1>10 DEF OpenAt, r, U
  <2>2. r + d < U * W /\ W \in Int
    BY <1>1, <1>7, <2>1
  <2>3. (r + d) \div U < W
    BY <1>7, <1>8, <2>2, DivBetween
  <2>. QED
    BY <1>7, <1>8, <1>9, <2>3
<1>11. Placed(SlotFor(expired, now), expired, now, open)
    BY <1>1, <1>4, <1>5, <1>7, <1>9, <1>10 DEF Placed, T, W, d
<1>12. ASSUME NEW k \in open \cup {5} PROVE SlotFor(expired, now) # <<k, Bits(now, k)>>
  <2>1. CASE k # l
    BY <1>5, <2>1
  <2>2. CASE k = l
    <3>1. l \in open
        BY <1>4, <1>12, <2>2
    <3>2. T \in 0..(W - 1) /\ T # 0
        BY <1>7, <1>10, <3>1
    <3>3. Bits(expired, l) # Bits(now, l)
        BY <1>4, <3>2, SameSlot DEF T, W, d
    <3>. QED
        BY <1>5, <2>2, <3>3
  <2>. QED
    BY <2>1, <2>2
<1>. QED
    BY <1>11, <1>12

\* When a slot is done and has not the timer, its wheel is closed to it until it has turned.
LEMMA ClosePlaced ==
    ASSUME NEW expired \in Int, NEW now \in Int, NEW open, NEW s \in Slots, NEW l,
           Placed(s, expired, now, open), s # <<l, Bits(now, l)>>
    PROVE  Placed(s, expired, now, open \ {l})
<1>1. CASE s[1] = l /\ l \in open
  <2>1. l \in 1..4 /\ Turns(now, Ahead(expired, now), l) \in 0..(Width(l) - 1)
    BY <1>1 DEF Placed
  <2>2. s[2] = Bits(expired, l) /\ s[2] # Bits(now, l)
    <3>1. s = <<s[1], s[2]>>
        BY DEF Slots
    <3>. QED
        BY <1>1, <3>1 DEF Placed
  <2>3. Turns(now, Ahead(expired, now), l) # 0
    BY <2>1, <2>2, SameSlot
  <2>4. Width(l) \in Nat \ {0}
    BY <2>1, Units
  <2>5. Turns(now, Ahead(expired, now), l) \in 1..Width(l)
    BY <2>1, <2>3, <2>4
  <2>. QED
    BY <1>1, <2>5 DEF Placed
<1>2. CASE s[1] # l \/ l \notin open
  <2>1. s[1] \in open \ {l} <=> s[1] \in open
    BY <1>2
  <2>. QED
    BY <2>1 DEF Placed
<1>. QED
    BY <1>1, <1>2

\* A timer whose wheel is closed is not due.
LEMMA ClosedIsAhead ==
    ASSUME NEW expired \in Int, NEW now \in Int, NEW open, NEW s,
           Placed(s, expired, now, open), s[1] \notin open
    PROVE  Ahead(expired, now) \in 1..(Unit(5) - 1)
<1> DEFINE l == s[1]
           d == Ahead(expired, now)
           U == Unit(l)
           r == now % U
<1>1. /\ l \in 1..4 /\ d < Unit(5) /\ (r + d) \div U \in 1..Width(l)
    BY DEF Placed, Turns
<1>2. U \in Nat \ {0} /\ Width(l) \in Nat \ {0} /\ Unit(5) \in Nat
    BY <1>1, Units
<1>3. d \in 0..(Span - 1) /\ Span \in Nat
    BY AheadIs, Units
<1>4. r \in 0..(U - 1)
    BY <1>2, DivMod
<1> HIDE DEF l, d, U, r
<1>5. ASSUME d = 0 PROVE FALSE
  <2>1. r + d < U * 1 /\ r + d \in Int
    BY <1>2, <1>4, <1>5
  <2>2. (r + d) \div U < 1
    BY <1>2, <2>1, DivBetween
  <2>. QED
    BY <1>1, <1>2, <2>2
<1>. QED
    BY <1>1, <1>2, <1>3, <1>5 DEF d

\* The wheels that begin a turn with the tick that follows.
Beginning(now) == {l \in 1..4 : now % Unit(l) = 0}

\* A tick brings every timer one closer, and opens the wheels that begin a turn.
LEMMA TickPlaced ==
    ASSUME NEW expired \in Int, NEW now \in Int, NEW s, Placed(s, expired, now, {})
    PROVE  Placed(s, expired, (now + 1) % Span, Beginning((now + 1) % Span))
<1> DEFINE l == s[1]
           d == Ahead(expired, now)
           U == Unit(l)
           W == Width(l)
           then == (now + 1) % Span
<1>1. /\ l \in 1..4 /\ s[2] = Bits(expired, l) /\ d < Unit(5)
      /\ ((now % U) + d) \div U \in 1..W
    BY DEF Placed, Turns
<1>2. U \in Nat \ {0} /\ W \in Nat \ {0} /\ Span \in Nat \ {0} /\ Unit(5) \in Nat
    BY <1>1, Units
<1>3. d \in 1..(Unit(5) - 1)
    BY ClosedIsAhead
<1>4. d \in 0..(Span - 1)
    BY AheadIs
<1>5. PICK k \in Int : expired = now + d + Span * k
    BY AheadIs
<1>6. PICK j \in Int : now + 1 = Span * j + then /\ then \in 0..(Span - 1)
  <2>1. now + 1 \in Int
    OBVIOUS
  <2>. QED
    BY <1>2, <2>1, DivMod
<1>7. PICK m \in Nat : Span = U * (W * m)
    BY <1>1, UnitSteps
<1>8. then \in Int
    BY <1>2, <1>6
<1> HIDE DEF l, d, U, W, then
<1>9. Ahead(expired, then) = d - 1
  <2>1. expired - then = (d - 1) + Span * (k + j) /\ k + j \in Int /\ d - 1 \in 0..(Span - 1)
    BY <1>2, <1>3, <1>4, <1>5, <1>6
  <2>2. ((d - 1) + Span * (k + j)) % Span = (d - 1) % Span
    BY <1>2, <2>1, ModShift
  <2>3. (d - 1) % Span = d - 1
    BY <1>2, <2>1
  <2>. QED
    BY <2>1, <2>2, <2>3 DEF Ahead
<1>10. PICK r \in 0..(U - 1), q \in Int : now = U * q + r /\ now % U = r
    BY <1>2, DivMod
<1>11. then % U = (now + 1) % U
  <2> DEFINE i == W * m * (-j)
  <2>1. i \in Int /\ W * m \in Int
    BY <1>2
  <2>2. then = (now + 1) + U * i
    <3>1. then = (now + 1) - Span * j
        BY <1>2, <1>6, <1>8
    <3>2. U * (W * m) * j = -(U * i)
        BY <1>2
    <3>3. U * i \in Int
        BY <1>2, <2>1
    <3>. QED
        BY <1>2, <1>7, <3>1, <3>2, <3>3
  <2> HIDE DEF i
  <2>3. now + 1 \in Int
    OBVIOUS
  <2>. QED
    BY <1>2, <2>1, <2>2, <2>3, ModShift
<1>12. CASE r + 1 < U
  <2>1. then % U = r + 1
    <3>1. now + 1 = U * q + (r + 1) /\ r + 1 \in 0..(U - 1)
        BY <1>2, <1>10, <1>12
    <3>2. (U * q + (r + 1)) % U = r + 1
        BY <1>2, <1>10, <3>1, DivModUnique
    <3>. QED
        BY <1>11, <3>1, <3>2
  <2>2. Turns(then, d - 1, l) \in 1..W
    <3>1. (r + 1) + (d - 1) = r + d
        BY <1>2, <1>3, <1>10
    <3>. QED
        BY <1>1, <1>10, <2>1, <3>1 DEF Turns, U
  <2>3. l \notin Beginning(then)
    <3>1. r + 1 # 0
        BY <1>2, <1>10
    <3>. QED
        BY <2>1, <3>1 DEF Beginning, U
  <2>. QED
    BY <1>1, <1>2, <1>3, <1>9, <2>2, <2>3 DEF Placed, l, W, then
<1>13. CASE r + 1 = U
  <2>1. then % U = 0
    <3>1. now + 1 = U * (q + 1) + 0 /\ 0 \in 0..(U - 1) /\ q + 1 \in Int
        BY <1>2, <1>10, <1>13
    <3>2. (U * (q + 1) + 0) % U = 0
        BY <1>2, <3>1, DivModUnique
    <3>. QED
        BY <1>11, <3>1, <3>2
  <2>2. Turns(then, d - 1, l) \in 0..(W - 1)
    <3>1. Turns(then, d - 1, l) = (d - 1) \div U
      <4>1. 0 + (d - 1) = d - 1
        BY <1>2, <1>3
      <4>. QED
        BY <2>1, <4>1 DEF Turns, U
    <3>2. r + d = (d - 1) + U * 1 /\ d - 1 \in Int /\ 1 \in Int
        BY <1>2, <1>3, <1>10, <1>13
    <3>3. (r + d) \div U = ((d - 1) \div U) + 1
        BY <1>2, <3>2, ModShift
    <3>4. (d - 1) \div U \in Int
        BY <1>2, <3>2, DivMod
    <3>. QED
        BY <1>1, <1>2, <1>10, <3>1, <3>3, <3>4
  <2>3. l \in Beginning(then)
    BY <1>1, <2>1 DEF Beginning, U
  <2>. QED
    BY <1>1, <1>2, <1>3, <1>9, <2>2, <2>3 DEF Placed, l, W, then
<1>. QED
    BY <1>2, <1>10, <1>12, <1>13

\* A timer in the slot of the first wheel that Tick fires expires now.
LEMMA FiredIsDue ==
    ASSUME NEW expired \in 0..(Span - 1), NEW now \in 0..(Span - 1), NEW open, 1 \in open,
           Placed(<<1, Bits(now, 1)>>, expired, now, open)
    PROVE  expired = now
<1> DEFINE d == Ahead(expired, now)
<1>1. expired \in Int /\ now \in Int /\ Span \in Nat \ {0}
    BY Units
<1>2. Unit(1) = 1 /\ Width(1) \in Nat \ {0}
    BY UnitSteps, Units
<1>3. d \in 0..(Span - 1)
    BY <1>1, AheadIs
<1>4. Turns(now, d, 1) = d
  <2>1. now % 1 = 0 /\ (0 + d) \div 1 = d
    BY <1>1, <1>3
  <2>. QED
    BY <1>2, <2>1 DEF Turns
<1>5. Bits(expired, 1) = Bits(now, 1) /\ Turns(now, d, 1) \in 0..(Width(1) - 1)
    BY DEF Placed
<1>6. d = 0
    BY <1>1, <1>4, <1>5, SameSlot
<1>7. PICK k \in Int : expired = now + d + Span * k
    BY <1>1, AheadIs
<1>8. expired = Span * k + now /\ expired = Span * 0 + expired
    BY <1>1, <1>6, <1>7
<1>9. (Span * k + now) % Span = now /\ (Span * 0 + expired) % Span = expired
    BY <1>1, DivModUnique
<1>. QED
    BY <1>8, <1>9

(***************************************************************************)
(* What is on the lists.                                                   *)
(***************************************************************************)

\* Every set that holds p and is closed under next_ holds t.
InChain(h, t, p) ==
    \A S \in SUBSET Timers :
        p \in S \cup {NULL} /\ (\A u \in S : h.next[u] \in S \cup {NULL}) => t \in S

\* Where the walk of slot s goes on.
From(h, W, walk, s) == IF s \in W THEN walk ELSE h.head[s]

\* Each list holds only timers that name it.
OneList(h, W, walk, X) ==
    /\ walk # NULL => h.list[walk] \in W
    /\ \A s \in Slots \ W : h.head[s] # NULL => h.list[h.head[s]] = s
    /\ \A t \in h.alive \ X : h.next[t] # NULL => h.list[h.next[t]] = h.list[t]

\* And all of them.
Reached(h, W, walk, X) ==
    \A t \in h.alive \ X : h.list[t] \in Slots /\ InChain(h, t, From(h, W, walk, h.list[t]))

\* The tail of a list is its last timer.
Tails(h, W, X) ==
    \A s \in Slots \ W :
        /\ h.head[s] # NULL => /\ h.tail[s] \in h.alive \ X
                               /\ h.list[h.tail[s]] = s /\ h.next[h.tail[s]] = NULL
        /\ h.tail[s] = NULL => h.head[s] = NULL

\* And each list is that of the slot where they belong.
AllPlaced(h, X, now, open) ==
    \A t \in h.alive \ X : Placed(h.list[t], h.timer[t].expired, now, open)

Listed(h, W, walk, X, now, open) ==
    OneList(h, W, walk, X) /\ Reached(h, W, walk, X) /\ Tails(h, W, X) /\ AllPlaced(h, X, now, open)

\* A chain of timers is still there when their next_ were kept.
LEMMA ChainKept ==
    ASSUME NEW h, NEW g, NEW A \in SUBSET Timers, NEW p \in A \cup {NULL}, NEW t,
           \A u \in A : h.next[u] \in A \cup {NULL},
           \A u \in A : h.next[u] # NULL => g.next[u] = h.next[u],
           InChain(h, t, p)
    PROVE  InChain(g, t, p)
<1> SUFFICES ASSUME NEW S \in SUBSET Timers, p \in S \cup {NULL},
                    \A u \in S : g.next[u] \in S \cup {NULL}
             PROVE  t \in S
    BY DEF InChain
<1> DEFINE R == S \cap A
<1>1. R \in SUBSET Timers /\ p \in R \cup {NULL}
    OBVIOUS
<1>2. \A u \in R : h.next[u] \in R \cup {NULL}
    OBVIOUS
<1> HIDE DEF R
<1>3. t \in R
    BY <1>1, <1>2 DEF InChain
<1>. QED
    BY <1>3 DEF R

LEMMA NothingOnNull == ASSUME NEW h, NEW t, InChain(h, t, NULL) PROVE FALSE
<1> DEFINE S == {}
<1>1. S \in SUBSET Timers /\ NULL \in S \cup {NULL} /\ \A u \in S : h.next[u] \in S \cup {NULL}
    OBVIOUS
<1>2. t \in S
    BY <1>1 DEF InChain
<1>. QED
    BY <1>2

\* What was placed stays where it is when timers in hand are made, changed or freed.
LEMMA ListedKept ==
    ASSUME NEW h \in Heap, NEW g \in Heap, NEW W, NEW walk, NEW X, NEW Y, NEW now, NEW open,
           Linked(h, W, walk, X), h.alive \ X = g.alive \ Y,
           g.head = h.head, g.tail = h.tail,
           \A u \in h.alive \ X : /\ g.next[u] = h.next[u] /\ g.list[u] = h.list[u]
                                  /\ g.timer[u].expired = h.timer[u].expired,
           Listed(h, W, walk, X, now, open)
    PROVE  Listed(g, W, walk, Y, now, open)
<1> DEFINE A == h.alive \ X
<1>1. /\ walk \in A \cup {NULL} /\ \A s \in Slots \ W : h.head[s] \in A \cup {NULL}
      /\ \A u \in A : h.next[u] \in A \cup {NULL}
    BY DEF Linked, LeadToLive
<1>2. A \in SUBSET Timers /\ A = g.alive \ Y
    BY HeapFields
<1>3. OneList(g, W, walk, Y)
    BY <1>1, <1>2 DEF Listed, OneList
<1>4. ASSUME NEW t \in A
      PROVE  g.list[t] \in Slots /\ InChain(g, t, From(g, W, walk, g.list[t]))
  <2>1. h.list[t] \in Slots /\ InChain(h, t, From(h, W, walk, h.list[t])) /\ g.list[t] = h.list[t]
    BY <1>4 DEF Listed, Reached
  <2>2. From(g, W, walk, g.list[t]) = From(h, W, walk, h.list[t])
    BY <2>1 DEF From
  <2>3. PICK p : p = From(h, W, walk, h.list[t])
    OBVIOUS
  <2>4. p \in A \cup {NULL}
    BY <1>1, <2>1, <2>3 DEF From
  <2>5. \A u \in A : h.next[u] # NULL => g.next[u] = h.next[u]
    OBVIOUS
  <2>7. InChain(h, t, p) /\ A \in SUBSET Timers /\ \A u \in A : h.next[u] \in A \cup {NULL}
    BY <1>1, <1>2, <2>1, <2>3
  <2> HIDE DEF A
  <2>6. InChain(g, t, p)
    BY <2>4, <2>5, <2>7, ChainKept
  <2>. QED
    BY <2>1, <2>2, <2>3, <2>6
<1>5. Reached(g, W, walk, Y)
    BY <1>2, <1>4 DEF Reached
<1>6. Tails(g, W, Y)
    BY <1>2 DEF Listed, Tails
<1>7. AllPlaced(g, Y, now, open)
    BY <1>2 DEF Listed, AllPlaced
<1>. QED
    BY <1>3, <1>5, <1>6, <1>7 DEF Listed

\* Where a timer goes, and when the list that it joins was stale.
LEMMA AddTimerListPlaces ==
    ASSUME NEW h \in Heap, NEW s \in Slots, NEW t \in Timers
    PROVE  LET g   == AddTimerList(h, s, t)
               cut == [h.next EXCEPT ![t] = NULL]
           IN  /\ g.list = [h.list EXCEPT ![t] = s] /\ g.tail = [h.tail EXCEPT ![s] = t]
               /\ \/ /\ h.tail[s] = NULL /\ g.head = [h.head EXCEPT ![s] = t] /\ g.next = cut
                     /\ ~g.stale => ~h.stale
                  \/ /\ h.tail[s] # NULL /\ g.head = h.head
                     /\ g.next = [cut EXCEPT ![h.tail[s]] = t]
                     /\ ~g.stale => ~h.stale /\ h.head[s] # NULL
<1> DEFINE g    == AddTimerList(h, s, t)
           cut  == [h.next EXCEPT ![t] = NULL]
           last == h.tail[s]
<1>1. CASE last = NULL
  <2>1. g = [head |-> [h.head EXCEPT ![s] = t], tail |-> [h.tail EXCEPT ![s] = t],
             next |-> cut, list |-> [h.list EXCEPT ![t] = s], timer |-> h.timer,
             alive |-> h.alive, stale |-> h.stale]
    BY <1>1 DEF AddTimerList, Heap
  <2>. QED
    BY <1>1, <2>1
<1>2. CASE last # NULL
  <2>1. g = [head |-> h.head, tail |-> [h.tail EXCEPT ![s] = t],
             next |-> [cut EXCEPT ![last] = t], list |-> [h.list EXCEPT ![t] = s],
             timer |-> h.timer, alive |-> h.alive,
             stale |-> (h.stale \/ h.head[s] = NULL)]
    BY <1>2 DEF AddTimerList, Heap
  <2>4. g.stale = (h.stale \/ h.head[s] = NULL)
    BY <2>1
  <2>2. ~g.stale => ~h.stale /\ h.head[s] # NULL
    BY <2>4, Zenon
  <2>3. /\ g.list = [h.list EXCEPT ![t] = s] /\ g.tail = [h.tail EXCEPT ![s] = t]
        /\ g.head = h.head /\ g.next = [cut EXCEPT ![last] = t]
    BY <2>1
  <2>. QED
    BY <1>2, <2>2, <2>3
<1>. QED
    BY <1>1, <1>2

\* An append to a slot that is not being walked loses no timer, unless the tail was stale.
LEMMA AppendKeepsListed ==
    ASSUME NEW h \in Heap, NEW W, NEW s \in Slots \ W, NEW t \in h.alive,
           NEW walk, NEW X, NEW now, NEW open, t \notin X, Linked(h, W, walk, X \cup {t}),
           ~AddTimerList(h, s, t).stale,
           ~h.stale => Listed(h, W, walk, X \cup {t}, now, open),
           Placed(s, h.timer[t].expired, now, open)
    PROVE  Listed(AddTimerList(h, s, t), W, walk, X, now, open)
<1> DEFINE g == AddTimerList(h, s, t)
           cut == [h.next EXCEPT ![t] = NULL]
           A == h.alive \ (X \cup {t})
<1>1. /\ h.head \in [Slots -> Pointer] /\ h.tail \in [Slots -> Pointer]
      /\ h.next \in [Timers -> Pointer] /\ h.list \in [Timers -> Slots \cup {NULL}]
      /\ A \in SUBSET Timers /\ t \in Timers /\ NULL \notin Timers /\ s \in Slots
    BY HeapFields, SizesAssumption DEF SizesAssumption
<1>2. /\ walk \in A \cup {NULL} /\ \A r \in Slots \ W : h.head[r] \in A \cup {NULL}
      /\ \A u \in A : h.next[u] \in A \cup {NULL}
    BY DEF Linked, LeadToLive
<1>0. s \in Slots /\ t \in Timers
    BY <1>1
<1>3. g.alive = h.alive /\ g.timer = h.timer
    BY <1>0, AddTimerListDoes
<1>4. /\ g.list = [h.list EXCEPT ![t] = s] /\ g.tail = [h.tail EXCEPT ![s] = t]
      /\ \/ /\ h.tail[s] = NULL /\ g.head = [h.head EXCEPT ![s] = t] /\ g.next = cut
            /\ ~g.stale => ~h.stale
         \/ /\ h.tail[s] # NULL /\ g.head = h.head
            /\ g.next = [cut EXCEPT ![h.tail[s]] = t]
            /\ ~g.stale => ~h.stale /\ h.head[s] # NULL
    BY <1>0, AddTimerListPlaces
<1>5. cut \in [Timers -> Pointer] /\ cut[t] = NULL /\ \A u \in Timers \ {t} : cut[u] = h.next[u]
    BY <1>1 DEF Pointer
<1>6. /\ g.list[t] = s /\ \A u \in Timers \ {t} : g.list[u] = h.list[u]
      /\ g.tail[s] = t /\ \A r \in Slots \ {s} : g.tail[r] = h.tail[r]
    BY <1>1, <1>4
<1> HIDE DEF cut
<1>7. h.stale \in BOOLEAN /\ ~h.stale
    BY <1>4, HeapFields
<1>8. /\ OneList(h, W, walk, X \cup {t}) /\ Reached(h, W, walk, X \cup {t})
      /\ Tails(h, W, X \cup {t}) /\ AllPlaced(h, X \cup {t}, now, open)
    BY <1>7 DEF Listed
<1>9. h.alive \ X = A \cup {t} /\ t \notin A
    OBVIOUS
<1> HIDE DEF g, A
<1>10. AllPlaced(g, X, now, open)
  <2>1. \A u \in A : Placed(h.list[u], h.timer[u].expired, now, open)
    BY <1>8 DEF AllPlaced, A
  <2>2. \A u \in A : u \in Timers \ {t}
    BY <1>1, <1>9
  <2>3. \A u \in A \cup {t} : Placed(g.list[u], g.timer[u].expired, now, open)
    BY <1>3, <1>6, <2>1, <2>2
  <2>. QED
    BY <1>3, <1>9, <2>3 DEF AllPlaced
<1>11. /\ walk # NULL => h.list[walk] \in W
       /\ \A r \in Slots \ W : h.head[r] # NULL => h.list[h.head[r]] = r
       /\ \A u \in A : h.next[u] # NULL => h.list[h.next[u]] = h.list[u]
    BY <1>8 DEF OneList, A
<1>12. \A u \in A : h.list[u] \in Slots /\ InChain(h, u, From(h, W, walk, h.list[u]))
    BY <1>8 DEF Reached, A
<1>13. \A r \in Slots \ W :
          /\ h.head[r] # NULL => /\ h.tail[r] \in A /\ h.list[h.tail[r]] = r
                                 /\ h.next[h.tail[r]] = NULL
          /\ h.tail[r] = NULL => h.head[r] = NULL
    BY <1>8 DEF Tails, A
<1>14. \A u \in A : u \in Timers \ {t}
    BY <1>1, <1>9
<1>15. \A u \in A : From(h, W, walk, h.list[u]) \in A \cup {NULL}
    BY <1>2, <1>12 DEF From
<1>16. CASE h.tail[s] = NULL /\ g.head = [h.head EXCEPT ![s] = t] /\ g.next = cut
  <2>1. h.head[s] = NULL
    BY <1>13, <1>16
  <2>2. g.head[s] = t /\ \A r \in Slots \ {s} : g.head[r] = h.head[r]
    BY <1>1, <1>16
  <2>3. g.next[t] = NULL /\ \A u \in A : g.next[u] = h.next[u]
    BY <1>5, <1>14, <1>16
  <2>4. OneList(g, W, walk, X)
    BY <1>1, <1>2, <1>3, <1>6, <1>9, <1>11, <1>14, <2>2, <2>3 DEF OneList
  <2>5. Tails(g, W, X)
    <3>1. ASSUME NEW r \in Slots \ W
          PROVE  /\ g.head[r] # NULL => /\ g.tail[r] \in A \cup {t}
                                        /\ g.list[g.tail[r]] = r /\ g.next[g.tail[r]] = NULL
                 /\ g.tail[r] = NULL => g.head[r] = NULL
      <4>1. CASE r = s
          BY <1>1, <1>6, <2>2, <2>3, <4>1
      <4>2. CASE r # s
          BY <1>6, <1>13, <1>14, <2>2, <2>3, <4>2
      <4>. QED
          BY <4>1, <4>2
    <3>. QED
        BY <1>3, <1>9, <3>1 DEF Tails
  <2>6. ASSUME NEW u \in A PROVE g.list[u] \in Slots /\ InChain(g, u, From(g, W, walk, g.list[u]))
    <3>1. g.list[u] = h.list[u] /\ h.list[u] \in Slots
        BY <1>6, <1>12, <1>14
    <3>2. PICK p : p = From(h, W, walk, h.list[u])
        OBVIOUS
    <3>3. InChain(h, u, p) /\ p \in A \cup {NULL}
        BY <1>12, <1>15, <3>2
    <3>4. h.list[u] # s
      <4>1. ASSUME h.list[u] = s PROVE FALSE
        <5>1. p = NULL
            BY <2>1, <3>2, <4>1 DEF From
        <5>. QED
            BY <3>3, <5>1, NothingOnNull
      <4>. QED
          BY <4>1
    <3>5. p = From(g, W, walk, g.list[u])
        BY <2>2, <3>1, <3>2, <3>4 DEF From
    <3>6. \A v \in A : h.next[v] # NULL => g.next[v] = h.next[v]
        BY <2>3
    <3>7. InChain(g, u, p)
        BY <1>1, <1>2, <3>3, <3>6, ChainKept
    <3>. QED
        BY <3>1, <3>5, <3>7
  <2>7. g.list[t] \in Slots /\ InChain(g, t, From(g, W, walk, g.list[t]))
    <3>1. From(g, W, walk, g.list[t]) = t
        BY <1>6, <2>2 DEF From
    <3>2. InChain(g, t, t)
        BY <1>1 DEF InChain
    <3>. QED
        BY <1>1, <1>6, <3>1, <3>2
  <2>8. Reached(g, W, walk, X)
    BY <1>3, <1>9, <2>6, <2>7 DEF Reached
  <2>. QED
    BY <1>10, <2>4, <2>5, <2>8 DEF Listed, g
<1>17. CASE /\ h.tail[s] # NULL /\ g.head = h.head /\ g.next = [cut EXCEPT ![h.tail[s]] = t]
            /\ h.head[s] # NULL
  <2>1. PICK last \in A : last = h.tail[s] /\ h.list[last] = s /\ h.next[last] = NULL
    BY <1>13, <1>17
  <2>2. /\ g.next[last] = t /\ g.next[t] = NULL
        /\ \A u \in A \ {last} : g.next[u] = h.next[u]
    BY <1>5, <1>9, <1>14, <1>17, <2>1
  <2>3. OneList(g, W, walk, X)
    <3>1. walk # NULL => g.list[walk] \in W
        BY <1>2, <1>6, <1>11, <1>14
    <3>2. \A r \in Slots \ W : g.head[r] # NULL => g.list[g.head[r]] = r
        BY <1>2, <1>6, <1>11, <1>14, <1>17
    <3>3. ASSUME NEW u \in A \cup {t}, g.next[u] # NULL PROVE g.list[g.next[u]] = g.list[u]
      <4>1. CASE u = last
          BY <1>6, <1>14, <2>1, <2>2, <4>1
      <4>2. CASE u # last
          BY <1>2, <1>6, <1>11, <1>14, <2>2, <3>3, <4>2
      <4>. QED
          BY <4>1, <4>2
    <3>. QED
        BY <1>3, <1>9, <3>1, <3>2, <3>3 DEF OneList
  <2>4. Tails(g, W, X)
    <3>1. ASSUME NEW r \in Slots \ W
          PROVE  /\ g.head[r] # NULL => /\ g.tail[r] \in A \cup {t}
                                        /\ g.list[g.tail[r]] = r /\ g.next[g.tail[r]] = NULL
                 /\ g.tail[r] = NULL => g.head[r] = NULL
      <4>1. CASE r = s
          BY <1>1, <1>6, <2>2, <4>1
      <4>2. CASE r # s
          BY <1>6, <1>13, <1>14, <1>17, <2>1, <2>2, <4>2
      <4>. QED
          BY <4>1, <4>2
    <3>. QED
        BY <1>3, <1>9, <3>1 DEF Tails
  <2>5. \A r \in Slots : From(g, W, walk, r) = From(h, W, walk, r)
    BY <1>17 DEF From
  <2>6. \A u \in A : h.next[u] # NULL => g.next[u] = h.next[u]
    BY <2>1, <2>2
  <2>7. ASSUME NEW u \in A PROVE g.list[u] \in Slots /\ InChain(g, u, From(g, W, walk, g.list[u]))
    <3>1. g.list[u] = h.list[u] /\ h.list[u] \in Slots
        BY <1>6, <1>12, <1>14
    <3>2. PICK p : p = From(h, W, walk, h.list[u])
        OBVIOUS
    <3>3. InChain(h, u, p) /\ p \in A \cup {NULL}
        BY <1>12, <1>15, <3>2
    <3>4. InChain(g, u, p)
        BY <1>1, <1>2, <2>6, <3>3, ChainKept
    <3>. QED
        BY <2>5, <3>1, <3>2, <3>4
  <2>8. g.list[t] \in Slots /\ InChain(g, t, From(g, W, walk, g.list[t]))
    <3>1. PICK p : p = From(g, W, walk, s)
        OBVIOUS
    <3>2. InChain(g, last, p)
      <4>1. g.list[last] = s
          BY <1>6, <1>14, <2>1
      <4>. QED
          BY <2>7, <3>1, <4>1
    <3>3. InChain(g, t, p)
      <4> SUFFICES ASSUME NEW S \in SUBSET Timers, p \in S \cup {NULL},
                          \A u \in S : g.next[u] \in S \cup {NULL}
                   PROVE  t \in S
          BY DEF InChain
      <4>1. last \in S
          BY <3>2 DEF InChain
      <4>. QED
          BY <1>1, <2>2, <4>1
    <3>. QED
        BY <1>1, <1>6, <3>1, <3>3
  <2>9. Reached(g, W, walk, X)
    BY <1>3, <1>9, <2>7, <2>8 DEF Reached
  <2>. QED
    BY <1>10, <2>3, <2>4, <2>9 DEF Listed, g
<1>18. ~g.stale
    BY DEF g
<1>. QED
    BY <1>4, <1>16, <1>17, <1>18

\* A walk over s begins.
LEMMA EnterListed ==
    ASSUME NEW h, NEW s \in Slots, NEW now, NEW open, Listed(h, {}, NULL, {}, now, open)
    PROVE  Listed(h, {s}, h.head[s], {}, now, open)
<1>1. OneList(h, {s}, h.head[s], {})
    BY DEF Listed, OneList
<1>2. \A r \in Slots : From(h, {s}, h.head[s], r) = From(h, {}, NULL, r)
    BY DEF From
<1>3. Reached(h, {s}, h.head[s], {})
    BY <1>2 DEF Listed, Reached
<1>4. Tails(h, {s}, {})
    BY DEF Listed, Tails
<1>. QED
    BY <1>1, <1>3, <1>4 DEF Listed

\* A walk is over: its slot is empty, and its wheel is closed until it has turned.
LEMMA CloseListed ==
    ASSUME NEW h \in Heap, NEW g, NEW now \in Int, NEW open, NEW l, NEW s \in Slots,
           s = <<l, Bits(now, l)>>, Listed(h, {s}, NULL, {}, now, open),
           g.alive = h.alive, g.next = h.next, g.list = h.list, g.timer = h.timer,
           g.head[s] = NULL, \A r \in Slots \ {s} : g.head[r] = h.head[r] /\ g.tail[r] = h.tail[r]
    PROVE  Listed(g, {}, NULL, {}, now, open \ {l})
<1>1. OneList(g, {}, NULL, {})
    BY DEF Listed, OneList
<1>2. \A r \in Slots : From(g, {}, NULL, r) = From(h, {s}, NULL, r)
    BY DEF From
<1>3. Reached(g, {}, NULL, {})
  <2>1. \A t, p : InChain(h, t, p) => InChain(g, t, p)
    BY DEF InChain
  <2>. QED
    BY <1>2, <2>1 DEF Listed, Reached
<1>4. Tails(g, {}, {})
    BY DEF Listed, Tails
<1>5. ASSUME NEW t \in g.alive PROVE Placed(g.list[t], g.timer[t].expired, now, open \ {l})
  <2>1. /\ h.list[t] \in Slots /\ InChain(h, t, From(h, {s}, NULL, h.list[t]))
        /\ Placed(h.list[t], h.timer[t].expired, now, open)
    BY <1>5 DEF Listed, Reached, AllPlaced
  <2>2. h.list[t] # s
    <3>1. ASSUME h.list[t] = s PROVE FALSE
      <4>1. InChain(h, t, NULL)
          BY <2>1, <3>1 DEF From
      <4>. QED
          BY <4>1, NothingOnNull
    <3>. QED
        BY <3>1
  <2>3. h.timer[t].expired \in Int
    <3>1. h.timer[t] \in Timer
        BY <1>5, HeapFields
    <3>. QED
        BY <3>1, Units DEF Timer
  <2>. QED
    BY <2>1, <2>2, <2>3, ClosePlaced
<1>6. AllPlaced(g, {}, now, open \ {l})
    BY <1>5 DEF AllPlaced
<1>. QED
    BY <1>1, <1>3, <1>4, <1>6 DEF Listed

\* The timer that the walk has come to is taken in hand.
LEMMA HandListed ==
    ASSUME NEW h \in Heap, NEW W, NEW t \in h.alive, NEW now, NEW open,
           Listed(h, W, t, {}, now, open)
    PROVE  Listed(h, W, h.next[t], {t}, now, open)
<1>1. t \in Timers /\ NULL \notin Timers
    BY HeapFields, SizesAssumption DEF SizesAssumption
<1>2. /\ h.list[t] \in W
      /\ \A s \in Slots \ W : h.head[s] # NULL => h.list[h.head[s]] = s
      /\ \A u \in h.alive : h.next[u] # NULL => h.list[h.next[u]] = h.list[u]
    BY <1>1 DEF Listed, OneList
<1>3. OneList(h, W, h.next[t], {t})
    BY <1>2 DEF OneList
<1>4. ASSUME NEW u \in h.alive \ {t}
      PROVE  h.list[u] \in Slots /\ InChain(h, u, From(h, W, h.next[t], h.list[u]))
  <2>1. h.list[u] \in Slots /\ InChain(h, u, From(h, W, t, h.list[u]))
    BY <1>4 DEF Listed, Reached
  <2>2. CASE h.list[u] \notin W
    BY <2>1, <2>2 DEF From
  <2>3. CASE h.list[u] \in W
    <3>1. InChain(h, u, t) /\ From(h, W, h.next[t], h.list[u]) = h.next[t]
        BY <2>1, <2>3 DEF From
    <3>2. InChain(h, u, h.next[t])
      <4> SUFFICES ASSUME NEW S \in SUBSET Timers, h.next[t] \in S \cup {NULL},
                          \A v \in S : h.next[v] \in S \cup {NULL}
                   PROVE  u \in S
          BY DEF InChain
      <4> DEFINE R == S \cup {t}
      <4>1. R \in SUBSET Timers /\ t \in R \cup {NULL} /\ \A v \in R : h.next[v] \in R \cup {NULL}
          BY <1>1
      <4> HIDE DEF R
      <4>2. u \in R
          BY <3>1, <4>1 DEF InChain
      <4>. QED
          BY <4>2 DEF R
    <3>. QED
        BY <2>1, <3>1, <3>2
  <2>. QED
    BY <2>2, <2>3
<1>5. Reached(h, W, h.next[t], {t})
    BY <1>4 DEF Reached
<1>6. Tails(h, W, {t})
  <2>1. \A s \in Slots \ W : h.head[s] # NULL => h.tail[s] # t
    BY <1>2 DEF Listed, Tails
  <2>. QED
    BY <2>1 DEF Listed, Tails
<1>7. AllPlaced(h, {t}, now, open)
    BY DEF Listed, AllPlaced
<1>. QED
    BY <1>3, <1>5, <1>6, <1>7 DEF Listed

(***************************************************************************)
(* The operations on a timer keep what is on the lists.                    *)
(***************************************************************************)

\* Requests that the four wheels can hold whatever the clock does: at 256 and 64 slots,
\* eighteen hours.
Short(timer) == timer.timeout > 0 /\ timer.timeout + MaxLag <= Unit(5)
TimeoutsAreShort == \A r \in Requests \cup HandlerRequests : r.timeout + MaxLag <= Unit(5)

\* Nothing was lost as long as no tail went stale.
Kept(h, W, walk, X, now, open) ==
    /\ \A t \in h.alive : Short(h.timer[t])
    /\ ~h.stale => Listed(h, W, walk, X, now, open)

\* W are slots of open wheels, or of the fifth.
Opened(W, open, now) ==
    OpenAt(open, now) /\ \A s \in W : \E l \in open \cup {5} : s = <<l, Bits(now, l)>>

LEMMA InsertKept ==
    ASSUME NEW h \in Heap, NEW t \in h.alive, NEW now \in Int,
           NEW W, NEW walk, NEW X, NEW open, t \notin X, Linked(h, W, walk, X \cup {t}),
           Kept(h, W, walk, X \cup {t}, now, open), Opened(W, open, now),
           Ahead(h.timer[t].expired, now) \in 1..(Unit(5) - 1)
    PROVE  Kept(Insert(h, t, now), W, walk, X, now, open)
<1> DEFINE e == h.timer[t].expired
           s == SlotFor(e, now)
           g == AddTimerList(h, s, t)
<1>1. h.timer[t] \in Timer /\ t \in Timers
    BY HeapFields
<1>2. e \in Int
    BY <1>1, Units DEF Timer
<1>3. s \in Slots
    BY <1>2, SlotForRange
<1>4. Insert(h, t, now) = g
    BY DEF Insert
<1>5. Placed(s, e, now, open) /\ \A l \in open \cup {5} : s # <<l, Bits(now, l)>>
    BY <1>2, SlotForPlaced DEF Opened
<1>6. s \in Slots \ W
    BY <1>3, <1>5 DEF Opened
<1> HIDE DEF s
<1>7. g.alive = h.alive /\ g.timer = h.timer
    BY <1>1, <1>3, AddTimerListDoes
<1>8. \A u \in g.alive : Short(g.timer[u])
    BY <1>7 DEF Kept
<1>9. ASSUME ~g.stale PROVE Listed(g, W, walk, X, now, open)
  <2>1. ~h.stale => Listed(h, W, walk, X \cup {t}, now, open)
    BY DEF Kept
  <2>. QED
    BY <1>5, <1>6, <1>9, <2>1, AppendKeepsListed
<1> HIDE DEF g
<1>. QED
    BY <1>4, <1>8, <1>9 DEF Kept

\* Timers in hand can be made, changed and freed.
LEMMA HandKept ==
    ASSUME NEW h \in Heap, NEW g \in Heap, NEW W, NEW walk, NEW X, NEW Y, NEW now, NEW open,
           Linked(h, W, walk, X), h.alive \ X = g.alive \ Y,
           g.head = h.head, g.tail = h.tail, g.stale = h.stale,
           \A u \in h.alive \ X : /\ g.next[u] = h.next[u] /\ g.list[u] = h.list[u]
                                  /\ g.timer[u].expired = h.timer[u].expired,
           \A u \in g.alive : Short(g.timer[u]),
           Kept(h, W, walk, X, now, open)
    PROVE  Kept(g, W, walk, Y, now, open)
<1>1. ASSUME ~g.stale PROVE Listed(g, W, walk, Y, now, open)
  <2>1. Listed(h, W, walk, X, now, open)
    BY <1>1 DEF Kept
  <2>. QED
    BY <2>1, ListedKept
<1>. QED
    BY <1>1 DEF Kept

LEMMA RunKept ==
    ASSUME NEW h \in Heap, NEW t \in h.alive, NEW W, NEW walk, NEW X, NEW now, NEW open,
           t \in X, Linked(h, W, walk, X), Kept(h, W, walk, X, now, open)
    PROVE  Kept(Run(h, t), W, walk, X, now, open)
<1> DEFINE g == Run(h, t)
<1>1. /\ g \in Heap /\ g.head = h.head /\ g.next = h.next /\ g.alive = h.alive
      /\ g.tail = h.tail /\ g.list = h.list /\ g.stale = h.stale
      /\ \A u \in Timers \ {t} : g.timer[u] = h.timer[u]
      /\ g.timer[t].timeout = h.timer[t].timeout
    BY RunRight
<1> HIDE DEF g
<1>2. h.alive \subseteq Timers
    BY HeapFields
<1>3. \A u \in g.alive : Short(g.timer[u])
  <2>1. \A u \in h.alive : g.timer[u].timeout = h.timer[u].timeout
    BY <1>1, <1>2
  <2>. QED
    BY <1>1, <2>1 DEF Kept, Short
<1>4. \A u \in h.alive \ X : /\ g.next[u] = h.next[u] /\ g.list[u] = h.list[u]
                             /\ g.timer[u].expired = h.timer[u].expired
    BY <1>1, <1>2
<1>. QED
    BY <1>1, <1>3, <1>4, HandKept DEF g

LEMMA freeTimerKept ==
    ASSUME NEW h \in Heap, NEW t \in h.alive, NEW W, NEW walk, NEW X, NEW now, NEW open,
           t \notin X, Linked(h, W, walk, X \cup {t}), Kept(h, W, walk, X \cup {t}, now, open)
    PROVE  Kept(freeTimer(h, t), W, walk, X, now, open)
<1> DEFINE g == freeTimer(h, t)
<1>1. /\ g \in Heap /\ g.alive = h.alive \ {t} /\ g.head = h.head
      /\ g.next = [h.next EXCEPT ![t] = NULL] /\ g.timer = [h.timer EXCEPT ![t] = Blank]
      /\ g.tail = h.tail /\ g.list = [h.list EXCEPT ![t] = NULL] /\ g.stale = h.stale
    BY freeTimerDoes
<1> HIDE DEF g
<1>2. /\ h.alive \subseteq Timers /\ h.next \in [Timers -> Pointer]
      /\ h.list \in [Timers -> Slots \cup {NULL}] /\ h.timer \in [Timers -> Timer]
    BY HeapFields
<1>3. \A u \in h.alive \ {t} : /\ g.next[u] = h.next[u] /\ g.list[u] = h.list[u]
                               /\ g.timer[u] = h.timer[u]
    BY <1>1, <1>2
<1>4. \A u \in g.alive : Short(g.timer[u])
    BY <1>1, <1>3 DEF Kept
<1>5. h.alive \ (X \cup {t}) = g.alive \ X
    BY <1>1
<1>6. \A u \in h.alive \ (X \cup {t}) :
            /\ g.next[u] = h.next[u] /\ g.list[u] = h.list[u]
            /\ g.timer[u].expired = h.timer[u].expired
    BY <1>3
<1>. QED
    BY <1>1, <1>4, <1>5, <1>6, HandKept DEF g

\* What a timeout is added to the clock to, and how far that is ahead.
LEMMA ShortIsAhead ==
    ASSUME NEW now \in Int, NEW d \in 1..(Unit(5) - 1)
    PROVE  /\ (now + d) % Span \in 0..(Span - 1) /\ (d + now) % Span \in 0..(Span - 1)
           /\ Ahead((now + d) % Span, now) \in 1..(Unit(5) - 1)
           /\ Ahead((d + now) % Span, now) \in 1..(Unit(5) - 1)
<1>1. 2 * Unit(4 + 1) <= Span /\ Unit(5) \in Nat /\ Span \in Nat
    BY UnitSteps, Units
<1>2. d \in 0..(Span - 1) /\ d + now \in Int /\ now + d \in Int
    BY <1>1
<1>. QED
    BY <1>2, ModSpan, AheadOfSum

LEMMA AfterImmediateKept ==
    ASSUME NEW h \in Heap, NEW t \in h.alive, NEW now \in Int, NEW behind \in 0..MaxLag,
           NEW W, NEW walk, NEW X, NEW open, t \notin X, Linked(h, W, walk, X \cup {t}),
           Kept(h, W, walk, X \cup {t}, now, open), Opened(W, open, now)
    PROVE  Kept(AfterImmediate(h, t, now, behind), W, walk, X, now, open)
<1>1. h.timer[t] \in Timer /\ t \in Timers /\ h.timer \in [Timers -> Timer] /\ h.alive \subseteq Timers
    BY HeapFields
<1>2. CASE h.timer[t].flag = Exec_All
  <2> DEFINE ahead == behind - 1 + h.timer[t].timeout
             d == IF ahead > 0 THEN ahead ELSE 1
             e == (now + d) % Span
             r == [h.timer[t] EXCEPT !.expired = e]
             g == [h EXCEPT !.timer[t] = r]
  <2>1. d \in 1..(Unit(5) - 1)
    <3>1. /\ h.timer[t].timeout \in Nat /\ MaxLag \in Nat \ {0} /\ Unit(5) \in Nat
          /\ behind \in Int
        BY <1>1, Units, SizesAssumption DEF Timer, SizesAssumption
    <3>2. h.timer[t].timeout > 0 /\ h.timer[t].timeout + MaxLag <= Unit(5)
        BY DEF Kept, Short
    <3>. QED
        BY <3>1, <3>2
  <2>2. AfterImmediate(h, t, now, behind) = Insert(g, t, now)
    BY <1>2 DEF AfterImmediate
  <2> HIDE DEF d
  <2>3. e \in 0..(Span - 1) /\ Ahead(e, now) \in 1..(Unit(5) - 1)
    BY <2>1, ShortIsAhead
  <2> HIDE DEF e
  <2>4. r \in Timer /\ r.expired = e /\ r.timeout = h.timer[t].timeout
    BY <1>1, <2>3 DEF Timer
  <2> HIDE DEF r
  <2>5. /\ g \in Heap /\ g.head = h.head /\ g.next = h.next /\ g.alive = h.alive
        /\ g.timer = [h.timer EXCEPT ![t] = r]
        /\ g.tail = h.tail /\ g.list = h.list /\ g.stale = h.stale
    BY <1>1, <2>4, TimerChanged
  <2> HIDE DEF g
  <2>6. g.timer[t] = r /\ \A u \in h.alive \ {t} : g.timer[u] = h.timer[u]
    BY <1>1, <2>5
  <2>7. \A u \in g.alive : Short(g.timer[u])
    BY <2>4, <2>5, <2>6 DEF Kept, Short
  <2>8. Linked(g, W, walk, X \cup {t})
    BY <2>5, OnlyLinksMatter
  <2>9. Kept(g, W, walk, X \cup {t}, now, open)
    <3>1. \A u \in h.alive \ (X \cup {t}) :
             /\ g.next[u] = h.next[u] /\ g.list[u] = h.list[u]
             /\ g.timer[u].expired = h.timer[u].expired
        BY <2>5, <2>6
    <3>2. h.alive \ (X \cup {t}) = g.alive \ (X \cup {t})
        BY <2>5
    <3>. QED
        BY <2>5, <2>7, <3>1, <3>2, HandKept
  <2>10. t \in g.alive /\ Ahead(g.timer[t].expired, now) \in 1..(Unit(5) - 1)
    BY <2>3, <2>4, <2>5, <2>6
  <2>11. Kept(Insert(g, t, now), W, walk, X, now, open)
    BY <2>5, <2>8, <2>9, <2>10, InsertKept
  <2>. QED
    BY <2>2, <2>11
<1>3. CASE h.timer[t].flag # Exec_All
    BY <1>3, freeTimerKept DEF AfterImmediate
<1>. QED
    BY <1>2, <1>3

\* A timer whose time is ahead is put on its list.
LEMMA AddAgainInserts ==
    ASSUME NEW h \in Heap, NEW t \in h.alive, NEW now \in Int, NEW behind,
           Ahead(h.timer[t].expired, now) \in 1..(Unit(5) - 1)
    PROVE  AddAgain(h, t, now, behind) = Insert(h, t, now)
<1>1. h.timer[t].expired \in Int
  <2>1. h.timer[t] \in Timer
    BY HeapFields
  <2>. QED
    BY <2>1, Units DEF Timer
<1>2. /\ Ahead(h.timer[t].expired, now) < Unit(5)
      /\ Ahead(h.timer[t].expired, now) \in Int /\ Ahead(h.timer[t].expired, now) > 0
    BY Units
<1>3. ~Due(h, t, now)
    BY <1>1, <1>2, IdxIs DEF Due
<1>. QED
    BY <1>3 DEF AddAgain

LEMMA AddTimerKept ==
    ASSUME NEW h \in Heap, NEW t \in Timers, t \notin h.alive, NEW r \in Request,
           r.timeout + MaxLag <= Unit(5), NEW now \in Int, NEW behind,
           NEW W, NEW walk, NEW X, NEW open, X \subseteq h.alive, Linked(h, W, walk, X),
           Kept(h, W, walk, X, now, open), Opened(W, open, now)
    PROVE  Kept(AddTimer(h, t, r, now, behind), W, walk, X, now, open)
<1> DEFINE fresh == [expired |-> (r.timeout + now) % Span, timeout |-> r.timeout,
                     flag |-> r.flag, times |-> r.times, runs |-> 0,
                     asked |-> IF r.flag = Exec_Times THEN r.times ELSE 1]
           g1 == [h EXCEPT !.alive = @ \cup {t}, !.next[t] = NULL, !.list[t] = NULL]
           g2 == [g1 EXCEPT !.timer[t] = fresh]
<1>1. /\ h.head \in [Slots -> Pointer] /\ h.tail \in [Slots -> Pointer]
      /\ h.next \in [Timers -> Pointer] /\ h.list \in [Timers -> Slots \cup {NULL}]
      /\ h.timer \in [Timers -> Timer] /\ h.alive \subseteq Timers /\ h.stale \in BOOLEAN
      /\ NULL \notin Timers
    BY HeapFields, SizesAssumption DEF SizesAssumption
<1>2. r.timeout \in Nat \ {0} /\ r.timeout \in 1..(Unit(5) - 1)
  <2>1. r.timeout \in Nat \ {0} /\ MaxLag \in Nat \ {0} /\ Unit(5) \in Nat
    BY Units, SizesAssumption DEF Request, SizesAssumption
  <2>. QED
    BY <2>1
<1>3. /\ (r.timeout + now) % Span \in 0..(Span - 1)
      /\ Ahead((r.timeout + now) % Span, now) \in 1..(Unit(5) - 1)
    BY <1>2, ShortIsAhead
<1>4. fresh \in Timer
  <2>1. /\ r.timeout \in Nat /\ r.flag \in {Exec_Once, Exec_All, Exec_Times}
        /\ r.times \in 0..(UINT - 1) /\ r.times \in Nat
    BY SizesAssumption DEF Request, SizesAssumption
  <2>. QED
    BY <1>3, <2>1 DEF Timer
<1>5. AddTimer(h, t, r, now, behind) = AddAgain(g2, t, now, behind)
    BY DEF AddTimer
<1>6. fresh.expired = (r.timeout + now) % Span /\ Short(fresh)
    BY <1>2 DEF Short
<1> HIDE DEF fresh
<1>7. /\ g1 \in Heap /\ g1.head = h.head /\ g1.next = [h.next EXCEPT ![t] = NULL]
      /\ g1.timer = h.timer /\ g1.alive = h.alive \cup {t} /\ g1.tail = h.tail
      /\ g1.list = [h.list EXCEPT ![t] = NULL] /\ g1.stale = h.stale
    BY <1>1 DEF Heap, Pointer
<1> HIDE DEF g1
<1>8. /\ g2 \in Heap /\ g2.head = h.head /\ g2.next = [h.next EXCEPT ![t] = NULL]
      /\ g2.timer = [h.timer EXCEPT ![t] = fresh] /\ g2.alive = h.alive \cup {t}
      /\ g2.tail = h.tail /\ g2.list = [h.list EXCEPT ![t] = NULL] /\ g2.stale = h.stale
    BY <1>4, <1>7, TimerChanged
<1> HIDE DEF g2
<1>9. /\ g2.timer[t] = fresh
      /\ \A u \in h.alive : /\ g2.next[u] = h.next[u] /\ g2.list[u] = h.list[u]
                            /\ g2.timer[u] = h.timer[u]
    BY <1>1, <1>8
<1>10. h.alive \ X = g2.alive \ (X \cup {t}) /\ t \notin X /\ t \in g2.alive
    BY <1>8
<1>11. Linked(g2, W, walk, X \cup {t})
  <2>1. LeadToLive(g2, W, walk, X \cup {t})
    BY <1>8, <1>9, <1>10 DEF Linked, LeadToLive
  <2>2. Apart(g2, W, walk, X \cup {t})
    BY <1>8, <1>9, <1>10 DEF Linked, Apart
  <2>. QED
    BY <2>1, <2>2 DEF Linked
<1>12. Kept(g2, W, walk, X \cup {t}, now, open)
  <2>1. \A u \in g2.alive : Short(g2.timer[u])
    BY <1>6, <1>8, <1>9 DEF Kept
  <2>2. \A u \in h.alive \ X : /\ g2.next[u] = h.next[u] /\ g2.list[u] = h.list[u]
                               /\ g2.timer[u].expired = h.timer[u].expired
    BY <1>9
  <2>. QED
    BY <1>8, <1>10, <2>1, <2>2, HandKept
<1>13. Ahead(g2.timer[t].expired, now) \in 1..(Unit(5) - 1)
    BY <1>3, <1>6, <1>9
<1>14. Kept(Insert(g2, t, now), W, walk, X, now, open)
    BY <1>8, <1>10, <1>11, <1>12, <1>13, InsertKept
<1>15. AddAgain(g2, t, now, behind) = Insert(g2, t, now)
  <2>1. g2 \in Heap /\ t \in g2.alive
    BY <1>8, <1>10
  <2>. QED
    BY <1>13, <2>1, AddAgainInserts
<1>. QED
    BY <1>5, <1>14, <1>15

LEMMA HandledKept ==
    ASSUME TypeOK, TimeoutsAreShort, NEW h \in Heap, NEW W, NEW walk, NEW X, NEW open,
           X \subseteq h.alive, Linked(h, W, walk, X), Kept(h, W, walk, X, tick, open),
           Opened(W, open, tick), NEW g \in Handled(h)
    PROVE  Kept(g, W, walk, X, tick, open)
<1>1. tick \in Int
    BY Units DEF TypeOK
<1>2. CASE g = h
    BY <1>2
<1>3. CASE \E t \in Timers \ h.alive, r \in HandlerRequests : g = AddTimer(h, t, r, tick, lag)
  <2>1. PICK t \in Timers \ h.alive, r \in HandlerRequests : g = AddTimer(h, t, r, tick, lag)
    BY <1>3
  <2>2. r \in Request /\ r.timeout + MaxLag <= Unit(5)
    BY RequestsAssumption DEF RequestsAssumption, TimeoutsAreShort
  <2>3. t \in Timers /\ t \notin h.alive
    OBVIOUS
  <2>4. Kept(AddTimer(h, t, r, tick, lag), W, walk, X, tick, open)
    BY <1>1, <2>2, <2>3, AddTimerKept
  <2>. QED
    BY <2>1, <2>4
<1>. QED
    BY <1>2, <1>3 DEF Handled

LEMMA AfterFireKept ==
    ASSUME TypeOK, NEW h \in Heap, NEW t \in h.alive, NEW W, NEW walk, NEW open,
           Linked(h, W, walk, {t}), Kept(h, W, walk, {t}, tick, open), Opened(W, open, tick)
    PROVE  Kept(AfterFire(h, t), W, walk, {}, tick, open)
<1> DEFINE left == (h.timer[t].times - 1) % UINT
           due  == (h.timer[t].timeout + tick) % Span
           g    == AfterFire(h, t)
<1>1. tick \in Int
    BY Units DEF TypeOK
<1>2. h.timer[t] \in Timer /\ t \in Timers /\ h.timer \in [Timers -> Timer] /\ h.alive \subseteq Timers
    BY HeapFields
<1>3. due \in 0..(Span - 1) /\ Ahead(due, tick) \in 1..(Unit(5) - 1)
  <2>1. h.timer[t].timeout \in 1..(Unit(5) - 1)
    <3>1. h.timer[t].timeout \in Nat /\ MaxLag \in Nat \ {0} /\ Unit(5) \in Nat
        BY <1>2, Units, SizesAssumption DEF Timer, SizesAssumption
    <3>2. h.timer[t].timeout > 0 /\ h.timer[t].timeout + MaxLag <= Unit(5)
        BY DEF Kept, Short
    <3>. QED
        BY <3>1, <3>2
  <2>. QED
    BY <1>1, <2>1, ShortIsAhead
<1>4. left \in 0..(UINT - 1)
  <2>1. \A m \in Nat \ {0}, k \in Int : k % m \in 0..(m - 1)
    OBVIOUS
  <2>2. h.timer[t].times - 1 \in Int /\ UINT \in Nat \ {0}
    BY <1>2, SizesAssumption DEF Timer, SizesAssumption
  <2>. QED
    BY <2>1, <2>2
<1>5. Linked(h, W, walk, {} \cup {t}) /\ t \notin {} /\ {} \cup {t} = {t}
    OBVIOUS
<1> HIDE DEF left, due
<1>6. ASSUME NEW n \in 0..(UINT - 1), NEW k,
             LET r == [h.timer[t] EXCEPT !.expired = due, !.times = n]
             IN  k = AddAgain([h EXCEPT !.timer[t] = r], t, tick, lag)
      PROVE  Kept(k, W, walk, {}, tick, open)
  <2> DEFINE r == [h.timer[t] EXCEPT !.expired = due, !.times = n]
             c == [h EXCEPT !.timer[t] = r]
  <2>1. r \in Timer /\ r.expired = due /\ r.timeout = h.timer[t].timeout
    BY <1>2, <1>3 DEF Timer
  <2>2. k = AddAgain(c, t, tick, lag)
    BY <1>6
  <2> HIDE DEF r
  <2>3. /\ c \in Heap /\ c.head = h.head /\ c.next = h.next /\ c.alive = h.alive
        /\ c.timer = [h.timer EXCEPT ![t] = r]
        /\ c.tail = h.tail /\ c.list = h.list /\ c.stale = h.stale
    BY <1>2, <2>1, TimerChanged
  <2> HIDE DEF c
  <2>4. c.timer[t] = r /\ \A u \in h.alive \ {t} : c.timer[u] = h.timer[u]
    BY <1>2, <2>3
  <2>5. \A u \in c.alive : Short(c.timer[u])
    BY <2>1, <2>3, <2>4 DEF Kept, Short
  <2>6. Kept(c, W, walk, {t}, tick, open)
    <3>1. \A u \in h.alive \ {t} : /\ c.next[u] = h.next[u] /\ c.list[u] = h.list[u]
                                   /\ c.timer[u].expired = h.timer[u].expired
        BY <2>3, <2>4
    <3>2. h.alive \ {t} = c.alive \ {t}
        BY <2>3
    <3>. QED
        BY <2>3, <2>5, <3>1, <3>2, HandKept
  <2>7. Linked(c, W, walk, {} \cup {t}) /\ Kept(c, W, walk, {} \cup {t}, tick, open)
    BY <1>5, <2>3, <2>6, OnlyLinksMatter
  <2>8. c \in Heap /\ t \in c.alive /\ Ahead(c.timer[t].expired, tick) \in 1..(Unit(5) - 1)
    BY <1>3, <2>1, <2>3, <2>4
  <2>9. AddAgain(c, t, tick, lag) = Insert(c, t, tick)
    BY <1>1, <2>8, AddAgainInserts
  <2>10. Kept(Insert(c, t, tick), W, walk, {}, tick, open)
    BY <1>1, <1>5, <2>7, <2>8, InsertKept
  <2>. QED
    BY <2>2, <2>9, <2>10
<1>7. CASE h.timer[t].flag = Exec_All
  <2>1. g = AddAgain([h EXCEPT !.timer[t].expired = due], t, tick, lag)
    BY <1>7 DEF AfterFire, due, Exec_All, Exec_Times
  <2>2. [h EXCEPT !.timer[t].expired = due]
            = [h EXCEPT !.timer[t] = [h.timer[t] EXCEPT !.expired = due, !.times = h.timer[t].times]]
    BY <1>2 DEF Timer
  <2>3. h.timer[t].times \in 0..(UINT - 1)
    BY <1>2 DEF Timer
  <2> HIDE DEF g
  <2>4. g = AddAgain([h EXCEPT !.timer[t] = [h.timer[t] EXCEPT !.expired = due,
                                                               !.times = h.timer[t].times]],
                     t, tick, lag)
    BY <2>1, <2>2
  <2>. QED
    BY <1>6, <2>3, <2>4 DEF g
<1>8. CASE h.timer[t].flag = Exec_Times /\ left # 0
  <2>1. g = AddAgain([h EXCEPT !.timer[t].expired = due, !.timer[t].times = left], t, tick, lag)
    BY <1>8 DEF AfterFire, due, left, Exec_All, Exec_Times
  <2>2. [h EXCEPT !.timer[t].expired = due, !.timer[t].times = left]
            = [h EXCEPT !.timer[t] = [h.timer[t] EXCEPT !.expired = due, !.times = left]]
    BY <1>2 DEF Timer
  <2> HIDE DEF g
  <2>. QED
    BY <1>4, <1>6, <2>1, <2>2 DEF g
<1>9. CASE h.timer[t].flag # Exec_All /\ ~(h.timer[t].flag = Exec_Times /\ left # 0)
  <2>1. g = freeTimer(h, t)
    BY <1>9 DEF AfterFire, left
  <2>2. Kept(h, W, walk, {} \cup {t}, tick, open)
    BY <1>5
  <2>. QED
    BY <1>5, <2>1, <2>2, freeTimerKept
<1>. QED
    BY <1>7, <1>8, <1>9

(***************************************************************************)
(* The actions keep what is on the lists.                                  *)
(***************************************************************************)

\* The wheels whose slot for the current time is being served, or will be in this iteration.
Open == CASE pc = "fire" -> {1}
          [] pc = "cascade" -> {1} \cup {l \in level..4 : tick % Unit(l) = 0}
          [] OTHER -> {}

\* Tick cascades a wheel at the beginning of one of its slots only.
Aligned == pc = "cascade" => tick % Unit(level) = 0

\* In the state of the module: the slot being walked is reached through `node'.
TimersKept ==
    Kept(heap, IF Walking THEN {Slot} ELSE {}, IF Walking THEN node ELSE NULL, {}, tick, Open)

\* The inductive invariant for timeouts that are short.
KInv == Aligned /\ TimersKept

\* The wheels that are open.
LEMMA OpenIs ==
    ASSUME IInv, Aligned
    PROVE  /\ ~Walking => Open = {}
           /\ pc = "fire" => Open = {1} /\ level = 1
           /\ pc = "cascade" => Open = {1} \cup {l \in level..4 : tick % Unit(l) = 0}
           /\ Walking => /\ Opened({Slot}, Open, tick) /\ tick \in Int
                         /\ Slot \in Slots /\ Slot = <<level, Bits(tick, level)>>
<1>1. /\ ~Walking => Open = {}
      /\ pc = "fire" => Open = {1} /\ level = 1
      /\ pc = "cascade" => Open = {1} \cup {l \in level..4 : tick % Unit(l) = 0}
    BY DEF Open, Walking, IInv, Places
<1>2. TypeOK /\ tick \in Int /\ level \in 1..5 /\ (pc = "cascade" => level > 1)
    BY Units DEF IInv, TypeOK, Places
<1>3. Slot \in Slots /\ Slot = <<level, Bits(tick, level)>>
    BY <1>2, SlotIsOne DEF Slot
<1>4. tick % Unit(1) = 0
    BY <1>2, UnitSteps
<1>5. ASSUME Walking PROVE Opened({Slot}, Open, tick)
  <2>1. OpenAt(Open, tick)
    BY <1>1, <1>2, <1>4, <1>5 DEF OpenAt, Walking
  <2>2. level \in Open \cup {5}
    BY <1>1, <1>2, <1>5 DEF Walking, Aligned
  <2>. QED
    BY <1>3, <2>1, <2>2 DEF Opened
<1>. QED
    BY <1>1, <1>2, <1>3, <1>5

LEMMA InitKept == Init => KInv
<1> SUFFICES ASSUME Init PROVE KInv
    OBVIOUS
<1>1. /\ heap.alive = {} /\ \A s \in Slots : heap.head[s] = NULL
      /\ ~Walking /\ pc # "cascade"
    BY DEF Init, Walking
<1>2. Listed(heap, {}, NULL, {}, tick, Open)
    BY <1>1 DEF Listed, OneList, Reached, Tails, AllPlaced
<1>3. Kept(heap, {}, NULL, {}, tick, Open)
    BY <1>1, <1>2 DEF Kept
<1>. QED
    BY <1>1, <1>3 DEF KInv, Aligned, TimersKept

\* Outside of a walk, and when nothing but the clock moves.
LEMMA IdleKept ==
    ASSUME IInv, KInv, ~Walking, ~Walking', UNCHANGED <<tick, heap>>
    PROVE  KInv'
<1>1. Open = {} /\ Open' = {}
    BY DEF Open, Walking
<1>2. Kept(heap, {}, NULL, {}, tick, {})
    BY <1>1 DEF KInv, TimersKept
<1>3. pc' # "cascade"
    BY DEF Walking
<1>. QED
    BY <1>1, <1>2, <1>3 DEF KInv, Aligned, TimersKept

LEMMA Call_AddTimerKept ==
    ASSUME TimeoutsAreShort, NEW t \in Timers, NEW r \in Requests, IInv, KInv, Call_AddTimer(t, r)
    PROVE  KInv'
<1>1. /\ tick \in Int /\ heap \in Heap /\ r \in Request
      /\ ~Walking /\ ~Walking' /\ t \notin heap.alive /\ heap' = AddTimer(heap, t, r, tick, lag)
      /\ UNCHANGED <<tick, lag, quota, pc, level, node>>
    BY Units, RequestsAssumption
    DEF IInv, TypeOK, Call_AddTimer, Walking, RequestsAssumption
<1>2. Linked(heap, {}, NULL, {})
    BY <1>1 DEF IInv, Links
<1>3. Open = {} /\ Open' = {} /\ pc' # "cascade"
    BY <1>1 DEF Open, Walking
<1>4. Kept(heap, {}, NULL, {}, tick, {})
    BY <1>1, <1>3 DEF KInv, TimersKept
<1>5. r.timeout + MaxLag <= Unit(5) /\ {} \subseteq heap.alive /\ Opened({}, {}, tick)
    BY DEF TimeoutsAreShort, Opened, OpenAt
<1>6. Kept(AddTimer(heap, t, r, tick, lag), {}, NULL, {}, tick, {})
    BY <1>1, <1>2, <1>4, <1>5, AddTimerKept
<1>7. Kept(heap', {}, NULL, {}, tick', {})
    BY <1>1, <1>6
<1>. QED
    BY <1>1, <1>3, <1>7 DEF KInv, Aligned, TimersKept

LEMMA ClockAdvancesKept == IInv /\ KInv /\ ClockAdvances => KInv'
<1> SUFFICES ASSUME KInv, ClockAdvances PROVE KInv'
    OBVIOUS
<1>1. UNCHANGED <<tick, quota, pc, level, node, heap>>
    BY DEF ClockAdvances
<1>2. Open' = Open /\ Slot' = Slot /\ Walking' = Walking
    BY <1>1 DEF Open, Slot, Walking
<1>. QED
    BY <1>1, <1>2 DEF KInv, Aligned, TimersKept

LEMMA TickLoopKept ==
    ASSUME IInv, KInv, TickLoop
    PROVE  KInv'
<1>1. /\ ~Walking /\ heap' = heap /\ tick' = (tick + 1) % Span /\ heap \in Heap /\ TypeOK
      /\ tick \in Int
    BY Units DEF IInv, TypeOK, TickLoop, Walking
<1>2. tick' \in Int /\ tick' % Unit(1) = 0
  <2>1. tick + 1 \in Int
    BY <1>1
  <2>2. tick' \in 0..(Span - 1)
    BY <1>1, <2>1, ModSpan
  <2>3. tick' \in Int
    BY <2>2, Units
  <2>. QED
    BY <2>3, UnitSteps
<1>3. tick' % Unit(2) = 0 <=> Bits(tick', 1) = 0
  <2>1. tick' % Unit(1 + 1) = 0 <=> tick' % Unit(1) = 0 /\ Bits(tick', 1) = 0
    BY <1>2, AlignedUp
  <2>. QED
    BY <1>2, <2>1
<1>4. PICK l \in {1, 2} :
        /\ level' = l /\ node' = heap.head[<<l, Bits(tick', l)>>]
        /\ pc' = (IF l = 1 THEN "fire" ELSE "cascade")
        /\ l = 1 <=> Bits(tick', 1) # 0
    BY DEF TickLoop, EnterSlot
<1>5. Aligned'
    BY <1>3, <1>4 DEF Aligned
<1>6. Open' = Beginning(tick')
  <2>1. CASE l = 1
    <3>1. \A m \in 2..4 : tick' % Unit(m) # 0
      <4>1. ASSUME NEW m \in 2..4, tick' % Unit(m) = 0 PROVE tick' % Unit(2) = 0
          BY <1>2, <4>1, AlignedDown
      <4>. QED
          BY <1>3, <1>4, <2>1, <4>1
    <3>2. Open' = {1}
        BY <1>4, <2>1 DEF Open
    <3>. QED
        BY <1>2, <3>1, <3>2 DEF Beginning
  <2>2. CASE l = 2
    <3>1. Open' = {1} \cup {m \in 2..4 : tick' % Unit(m) = 0}
        BY <1>4, <2>2 DEF Open
    <3>. QED
        BY <1>2, <3>1 DEF Beginning
  <2>. QED
    BY <2>1, <2>2
<1> DEFINE s == <<l, Bits(tick', l)>>
<1>7. s \in Slots
  <2>1. l \in 1..5
    OBVIOUS
  <2>. QED
    BY <1>2, <2>1, BitsRange, SlotsAre
<1>8. Slot' = s /\ Walking'
    BY <1>4 DEF Slot, Walking
<1> HIDE DEF s
<1>9. node' = heap.head[s]
    BY <1>4 DEF s
<1>10. Kept(heap, {}, NULL, {}, tick, {})
  <2>1. Open = {}
    BY <1>1 DEF Open, Walking
  <2>. QED
    BY <1>1, <2>1 DEF KInv, TimersKept
<1>11. ASSUME ~heap.stale PROVE Listed(heap, {s}, heap.head[s], {}, tick', Beginning(tick'))
  <2>1. Listed(heap, {}, NULL, {}, tick, {})
    BY <1>10, <1>11 DEF Kept
  <2>2. ASSUME NEW t \in heap.alive
        PROVE  Placed(heap.list[t], heap.timer[t].expired, tick', Beginning(tick'))
    <3>1. heap.timer[t].expired \in Int
      <4>1. heap.timer[t] \in Timer
          BY <1>1, <2>2, HeapFields
      <4>. QED
          BY <4>1, Units DEF Timer
    <3>2. Placed(heap.list[t], heap.timer[t].expired, tick, {})
        BY <2>1, <2>2 DEF Listed, AllPlaced
    <3>. QED
        BY <1>1, <3>1, <3>2, TickPlaced
  <2>3. Listed(heap, {}, NULL, {}, tick', Beginning(tick'))
    BY <2>1, <2>2 DEF Listed, AllPlaced
  <2>. QED
    BY <1>7, <2>3, EnterListed
<1>12. Kept(heap, {s}, heap.head[s], {}, tick', Beginning(tick'))
    BY <1>10, <1>11 DEF Kept
<1>. QED
    BY <1>1, <1>5, <1>6, <1>8, <1>9, <1>12 DEF KInv, TimersKept

\* The timer that the walk has come to is in hand, and its handler has run.
LEMMA NodeKept ==
    ASSUME IInv, KInv, Walking, node # NULL
    PROVE  /\ Kept(heap, {Slot}, heap.next[node], {node}, tick, Open)
           /\ node \in heap.alive
<1>1. node \in heap.alive /\ heap \in Heap
    BY NodeInHand DEF IInv, TypeOK
<1>2. Kept(heap, {Slot}, node, {}, tick, Open)
    BY DEF KInv, TimersKept
<1>3. ~heap.stale => Listed(heap, {Slot}, heap.next[node], {node}, tick, Open)
    BY <1>1, <1>2, HandListed DEF Kept
<1>. QED
    BY <1>1, <1>2, <1>3 DEF Kept

LEMMA NodeHasRunKept ==
    ASSUME TimeoutsAreShort, IInv, KInv, Walking, node # NULL, NEW h \in Handled(Run(heap, node))
    PROVE  Kept(h, {Slot}, heap.next[node], {node}, tick, Open)
<1> DEFINE a == Run(heap, node)
<1>1. /\ node \in heap.alive /\ heap \in Heap /\ TypeOK
      /\ Linked(heap, {Slot}, heap.next[node], {node})
    BY NodeInHand DEF IInv, TypeOK
<1>2. Kept(heap, {Slot}, heap.next[node], {node}, tick, Open)
    BY NodeKept
<1>3. Opened({Slot}, Open, tick)
    BY OpenIs DEF KInv
<1>4. node \in {node}
    OBVIOUS
<1>5. Kept(a, {Slot}, heap.next[node], {node}, tick, Open)
    BY <1>1, <1>2, <1>4, RunKept
<1>6. a \in Heap /\ a.head = heap.head /\ a.next = heap.next /\ a.alive = heap.alive
    BY <1>1, RunRight
<1>7. h \in Handled(a)
    OBVIOUS
<1> HIDE DEF a
<1>8. Linked(a, {Slot}, heap.next[node], {node}) /\ {node} \subseteq a.alive
    BY <1>1, <1>6, OnlyLinksMatter
<1>. QED
    BY <1>1, <1>3, <1>5, <1>6, <1>7, <1>8, HandledKept

\* A timer of the walk has been handled.
LEMMA WalkKept ==
    ASSUME KInv, Walking, node' = heap.next[node], UNCHANGED <<tick, lag, quota, pc, level>>,
           Kept(heap', {Slot}, heap.next[node], {}, tick, Open)
    PROVE  KInv'
<1>1. Slot' = Slot /\ Walking' /\ Open' = Open /\ Aligned'
    BY DEF Slot, Walking, Open, KInv, Aligned
<1>. QED
    BY <1>1 DEF KInv, TimersKept

LEMMA FireKept ==
    ASSUME TimeoutsAreShort, IInv, KInv, Fire
    PROVE  KInv'
<1>1. /\ Walking /\ node # NULL /\ node' = heap.next[node] /\ TypeOK
      /\ UNCHANGED <<tick, lag, quota, pc, level>>
    BY DEF Fire, Walking, IInv
<1>2. PICK h \in Handled(Run(heap, node)) : heap' = AfterFire(h, node)
    BY DEF Fire
<1>3. h \in Heap /\ node \in h.alive /\ Linked(h, {Slot}, heap.next[node], {node})
    BY <1>1, NodeHasRun
<1>4. Kept(h, {Slot}, heap.next[node], {node}, tick, Open)
    BY <1>1, NodeHasRunKept
<1>5. Opened({Slot}, Open, tick)
    BY <1>1, OpenIs DEF KInv
<1>6. Kept(AfterFire(h, node), {Slot}, heap.next[node], {}, tick, Open)
    BY <1>1, <1>3, <1>4, <1>5, AfterFireKept
<1>. QED
    BY <1>1, <1>2, <1>6, WalkKept

\* What a cascade comes to is put in a wheel further down, or has its turn at once.
LEMMA _SwitchOthWheelKept ==
    ASSUME TimeoutsAreShort, IInv, KInv, _SwitchOthWheel
    PROVE  KInv'
<1>1. /\ Walking /\ node # NULL /\ node' = heap.next[node] /\ TypeOK /\ heap \in Heap
      /\ UNCHANGED <<tick, lag, quota, pc, level>>
    BY DEF _SwitchOthWheel, Walking, IInv, TypeOK
<1>2. tick \in Int /\ lag \in 0..MaxLag
    BY <1>1, Units DEF TypeOK
<1>3. Opened({Slot}, Open, tick)
    BY <1>1, OpenIs DEF KInv
<1>4. CASE Due(heap, node, tick)
  <2>1. PICK h \in Handled(Run(heap, node)) : heap' = AfterImmediate(h, node, tick, lag)
    BY <1>4 DEF _SwitchOthWheel
  <2>2. /\ h \in Heap /\ node \in h.alive /\ node \notin {}
        /\ Linked(h, {Slot}, heap.next[node], {} \cup {node})
    <3>1. h \in Heap /\ node \in h.alive /\ Linked(h, {Slot}, heap.next[node], {node})
        BY <1>1, NodeHasRun
    <3>2. {} \cup {node} = {node}
        OBVIOUS
    <3>. QED
        BY <3>1, <3>2
  <2>3. Kept(h, {Slot}, heap.next[node], {} \cup {node}, tick, Open)
    <3>1. Kept(h, {Slot}, heap.next[node], {node}, tick, Open)
        BY <1>1, NodeHasRunKept
    <3>2. {} \cup {node} = {node}
        OBVIOUS
    <3>. QED
        BY <3>1, <3>2
  <2>4. Kept(AfterImmediate(h, node, tick, lag), {Slot}, heap.next[node], {}, tick, Open)
    BY <1>2, <1>3, <2>2, <2>3, AfterImmediateKept
  <2>. QED
    BY <1>1, <2>1, <2>4, WalkKept
<1>5. CASE ~Due(heap, node, tick)
  <2>1. heap' = Insert(heap, node, tick)
    BY <1>5 DEF _SwitchOthWheel
  <2>2. CASE heap.stale
    <3>1. heap'.stale
      <4>1. heap.timer[node].expired \in Int /\ node \in Timers
        <5>1. heap.timer[node] \in Timer /\ node \in Timers
            BY <1>1, NodeInHand, HeapFields
        <5>. QED
            BY <5>1, Units DEF Timer
      <4>2. SlotFor(heap.timer[node].expired, tick) \in Slots
          BY <1>2, <4>1, SlotForRange
      <4>. QED
          BY <1>1, <2>1, <2>2, <4>1, <4>2, AddTimerListPlaces DEF Insert
    <3>2. \A t \in heap'.alive : Short(heap'.timer[t])
      <4>1. /\ node \in heap.alive /\ node \notin {} /\ NULL \notin {}
            /\ Linked(heap, {Slot}, heap.next[node], {} \cup {node})
        <5>1. node \in heap.alive /\ Linked(heap, {Slot}, heap.next[node], {node})
            BY <1>1, NodeInHand
        <5>2. {} \cup {node} = {node}
            OBVIOUS
        <5>. QED
            BY <5>1, <5>2
      <4>2. LET g == Insert(heap, node, tick) IN g.alive = heap.alive /\ g.timer = heap.timer
          BY <1>1, <1>2, <4>1, InsertRight
      <4>3. \A t \in heap.alive : Short(heap.timer[t])
          BY DEF KInv, TimersKept, Kept
      <4>. QED
          BY <2>1, <4>2, <4>3
    <3>3. Kept(heap', {Slot}, heap.next[node], {}, tick, Open)
        BY <3>1, <3>2 DEF Kept
    <3>. QED
        BY <1>1, <3>3, WalkKept
  <2>3. CASE ~heap.stale
    <3>1. /\ node \in heap.alive /\ node \notin {} /\ {} \cup {node} = {node}
          /\ Linked(heap, {Slot}, heap.next[node], {node})
          /\ Kept(heap, {Slot}, heap.next[node], {node}, tick, Open)
        BY <1>1, NodeInHand, NodeKept
    <3>2. heap.timer[node].expired \in Int
      <4>1. heap.timer[node] \in Timer
          BY <1>1, <3>1, HeapFields
      <4>. QED
          BY <4>1, Units DEF Timer
    <3>3. Ahead(heap.timer[node].expired, tick) \in 1..(Unit(5) - 1)
      <4>1. Placed(heap.list[node], heap.timer[node].expired, tick, Open)
          BY <1>1, <2>3, <3>1 DEF KInv, TimersKept, Kept, Listed, AllPlaced
      <4>2. Ahead(heap.timer[node].expired, tick) < Unit(5)
          BY <4>1 DEF Placed
      <4>3. Idx(heap.timer[node].expired, tick) = Ahead(heap.timer[node].expired, tick)
          BY <1>2, <3>2, <4>2, IdxIs
      <4>4. ~(Ahead(heap.timer[node].expired, tick) <= 0)
          BY <1>5, <4>3 DEF Due
      <4>5. Ahead(heap.timer[node].expired, tick) \in 0..(Span - 1)
          BY <1>2, <3>2, AheadIs
      <4>. QED
          BY <4>2, <4>4, <4>5, Units
    <3>4. /\ Linked(heap, {Slot}, heap.next[node], {} \cup {node})
          /\ Kept(heap, {Slot}, heap.next[node], {} \cup {node}, tick, Open)
        BY <3>1
    <3>5. Kept(Insert(heap, node, tick), {Slot}, heap.next[node], {}, tick, Open)
        BY <1>1, <1>2, <1>3, <3>1, <3>3, <3>4, InsertKept
    <3>. QED
        BY <1>1, <2>1, <3>5, WalkKept
  <2>. QED
    BY <2>2, <2>3
<1>. QED
    BY <1>4, <1>5

\* A walk has come to its end: the slot's wheel is closed.
LEMMA EndKept ==
    ASSUME IInv, KInv, Walking, node = NULL, NEW g, g.alive = heap.alive, g.next = heap.next,
           g.list = heap.list, g.timer = heap.timer, g.stale = heap.stale, g.head[Slot] = NULL,
           \A r \in Slots \ {Slot} : g.head[r] = heap.head[r] /\ g.tail[r] = heap.tail[r]
    PROVE  Kept(g, {}, NULL, {}, tick, Open \ {level})
<1>1. /\ heap \in Heap /\ tick \in Int /\ Slot \in Slots /\ Slot = <<level, Bits(tick, level)>>
    BY OpenIs DEF KInv, IInv, TypeOK
<1>2. Kept(heap, {Slot}, NULL, {}, tick, Open)
    BY DEF KInv, TimersKept
<1>3. ASSUME ~g.stale PROVE Listed(g, {}, NULL, {}, tick, Open \ {level})
  <2>1. Listed(heap, {Slot}, NULL, {}, tick, Open)
    BY <1>2, <1>3 DEF Kept
  <2>. QED
    BY <1>1, <2>1, CloseListed
<1>. QED
    BY <1>2, <1>3 DEF Kept

LEMMA FireDoneKept ==
    ASSUME IInv, KInv, FireDone
    PROVE  KInv'
<1>1. /\ Walking /\ ~Walking' /\ pc = "fire" /\ node = NULL /\ heap \in Heap
      /\ UNCHANGED tick /\ pc' = "loop" /\ heap' = [heap EXCEPT !.head[Slot] = NULL]
    BY DEF FireDone, Walking, IInv, TypeOK
<1>2. Slot \in Slots /\ Open = {1} /\ level = 1
    BY <1>1, OpenIs DEF KInv
<1>3. /\ heap'.alive = heap.alive /\ heap'.next = heap.next /\ heap'.list = heap.list
      /\ heap'.timer = heap.timer /\ heap'.stale = heap.stale /\ heap'.tail = heap.tail
      /\ heap'.head = [heap.head EXCEPT ![Slot] = NULL]
    BY <1>1 DEF Heap
<1>4. heap'.head[Slot] = NULL /\ \A r \in Slots \ {Slot} : heap'.head[r] = heap.head[r]
    BY <1>1, <1>2, <1>3, HeapFields
<1>5. Kept(heap', {}, NULL, {}, tick, Open \ {level})
    BY <1>1, <1>3, <1>4, EndKept
<1>6. Open' = {} /\ Open \ {level} = {} /\ Aligned'
    BY <1>1, <1>2 DEF Open, Aligned
<1>. QED
    BY <1>1, <1>5, <1>6 DEF KInv, TimersKept

LEMMA SwitchOthWheelKept ==
    ASSUME IInv, KInv, SwitchOthWheel
    PROVE  KInv'
<1>1. /\ Walking /\ pc = "cascade" /\ node = NULL /\ TypeOK /\ heap \in Heap
      /\ UNCHANGED tick /\ level \in 2..5 /\ tick % Unit(level) = 0
    BY DEF SwitchOthWheel, Walking, IInv, TypeOK, Places, KInv, Aligned
<1>2. /\ Slot \in Slots /\ tick \in Int /\ Slot = <<level, Bits(tick, level)>>
      /\ Open = {1} \cup {l \in level..4 : tick % Unit(l) = 0}
    BY <1>1, OpenIs DEF KInv
<1>3. /\ heap'.alive = heap.alive /\ heap'.next = heap.next /\ heap'.list = heap.list
      /\ heap'.timer = heap.timer /\ heap'.stale = heap.stale /\ heap'.head[Slot] = NULL
      /\ \A r \in Slots \ {Slot} : heap'.head[r] = heap.head[r] /\ heap'.tail[r] = heap.tail[r]
  <2>1. CASE heap.head[Slot] = NULL
    <3>1. heap' = heap
        BY <2>1 DEF SwitchOthWheel
    <3>. QED
        BY <2>1, <3>1
  <2>2. CASE heap.head[Slot] # NULL
    <3>1. heap' = [heap EXCEPT !.head[Slot] = NULL, !.tail[Slot] = NULL]
        BY <2>2 DEF SwitchOthWheel
    <3>2. /\ heap'.alive = heap.alive /\ heap'.next = heap.next /\ heap'.list = heap.list
          /\ heap'.timer = heap.timer /\ heap'.stale = heap.stale
          /\ heap'.head = [heap.head EXCEPT ![Slot] = NULL]
          /\ heap'.tail = [heap.tail EXCEPT ![Slot] = NULL]
        BY <1>1, <3>1 DEF Heap
    <3>. QED
        BY <1>1, <1>2, <3>2, HeapFields
  <2>. QED
    BY <2>1, <2>2
<1>4. Kept(heap', {}, NULL, {}, tick, Open \ {level})
    BY <1>1, <1>3, EndKept
<1>5. Bits(tick, level) = 0 <=> tick % Unit(level + 1) = 0
  <2>1. level \in 1..5
    BY <1>1
  <2>. QED
    BY <1>1, <1>2, <2>1, AlignedUp
<1>6. PICK l \in 1..5 :
        /\ l # level /\ level' = l /\ node' = heap.head[<<l, Bits(tick, l)>>]
        /\ pc' = (IF l = 1 THEN "fire" ELSE "cascade")
        /\ \/ l = level + 1 /\ Bits(tick, level) = 0
           \/ l = 1 /\ (level = 5 \/ Bits(tick, level) # 0)
  <2>1. CASE Slot[2] = 0 /\ level < 5
    <3>1. /\ level + 1 \in 1..5 /\ level + 1 # level /\ level + 1 # 1 /\ level' = level + 1
          /\ node' = heap.head[<<level + 1, Bits(tick, level + 1)>>] /\ pc' = "cascade"
          /\ Bits(tick, level) = 0
        BY <1>1, <1>2, <2>1 DEF SwitchOthWheel, EnterSlot
    <3>. QED
        BY <3>1
  <2>2. CASE ~(Slot[2] = 0 /\ level < 5)
    <3>1. /\ 1 # level /\ level' = 1 /\ node' = heap.head[<<1, Bits(tick, 1)>>]
          /\ pc' = "fire" /\ (level = 5 \/ Bits(tick, level) # 0)
        BY <1>1, <1>2, <2>2 DEF SwitchOthWheel, EnterSlot
    <3>. QED
        BY <3>1
  <2>. QED
    BY <2>1, <2>2
<1>7. Open' = Open \ {level} /\ Aligned'
  <2>1. CASE l = level + 1 /\ Bits(tick, level) = 0
    <3>1. Open' = {1} \cup {m \in (level + 1)..4 : tick % Unit(m) = 0}
        BY <1>1, <1>6, <2>1 DEF Open
    <3>2. Open \ {level} = {1} \cup {m \in (level + 1)..4 : tick % Unit(m) = 0}
        BY <1>1, <1>2
    <3>3. Aligned'
        BY <1>1, <1>5, <1>6, <2>1 DEF Aligned
    <3>. QED
        BY <3>1, <3>2, <3>3
  <2>2. CASE l = 1 /\ (level = 5 \/ Bits(tick, level) # 0)
    <3>1. \A m \in level..4 : tick % Unit(m) = 0 => m = level
      <4>1. ASSUME NEW m \in level..4, tick % Unit(m) = 0, m # level PROVE FALSE
        <5>1. m \in 1..5 /\ level + 1 \in 1..m
            BY <1>1, <4>1
        <5>2. tick % Unit(level + 1) = 0
            BY <1>2, <4>1, <5>1, AlignedDown
        <5>3. level # 5
            BY <1>1, <4>1
        <5>. QED
            BY <1>5, <2>2, <5>2, <5>3
      <4>. QED
          BY <4>1
    <3>2. Open \ {level} = {1}
        BY <1>1, <1>2, <3>1
    <3>3. Open' = {1} /\ Aligned'
        BY <1>6, <2>2 DEF Open, Aligned
    <3>. QED
        BY <3>2, <3>3
  <2>. QED
    BY <1>6, <2>1, <2>2
<1> DEFINE s == <<l, Bits(tick, l)>>
<1>8. s \in Slots \ {Slot}
  <2>1. s \in Slots
    BY <1>1, SlotIsOne
  <2>2. s # Slot
    BY <1>2, <1>6
  <2>. QED
    BY <2>1, <2>2
<1>9. Slot' = s /\ Walking'
    BY <1>1, <1>6 DEF Slot, Walking
<1> HIDE DEF s
<1>10. node' = heap'.head[s]
    BY <1>3, <1>6, <1>8 DEF s
<1>11. Kept(heap', {s}, heap'.head[s], {}, tick, Open \ {level})
    BY <1>4, <1>8, EnterListed DEF Kept
<1>. QED
    BY <1>1, <1>7, <1>9, <1>10, <1>11 DEF KInv, TimersKept

LEMMA StepKept ==
    ASSUME TimeoutsAreShort
    PROVE  IInv /\ KInv /\ [Next]_vars => KInv'
<1> SUFFICES ASSUME IInv, KInv, [Next]_vars PROVE KInv'
    OBVIOUS
<1>1. CASE UNCHANGED vars
  <2>1. UNCHANGED <<tick, pc, level, node, heap>>
    BY <1>1 DEF vars
  <2>2. Open' = Open /\ Slot' = Slot /\ Walking' = Walking
    BY <2>1 DEF Open, Slot, Walking
  <2>. QED
    BY <2>1, <2>2 DEF KInv, Aligned, TimersKept
<1>2. CASE Tick \/ TickReturn
  <2>1. ~Walking /\ ~Walking' /\ UNCHANGED <<tick, heap>>
    BY <1>2 DEF Tick, TickReturn, Walking
  <2>. QED
    BY <2>1, IdleKept
<1>. QED
    BY <1>1, <1>2, Call_AddTimerKept, ClockAdvancesKept, TickLoopKept, _SwitchOthWheelKept,
       SwitchOthWheelKept, FireKept, FireDoneKept, TimeoutsAreShort DEF Next, InTick

(***************************************************************************)
(* The theorems.                                                           *)
(***************************************************************************)
\* Every reachable wheel has its pointers on live timers, no two on the same.
THEOREM Invariant == Spec => []IInv
<1>. QED
    BY InitRight, StepRight, PTL DEF Spec

\* timewheel.c: the counters stay in their widths and every list, pointer and timer of the
\* wheel keeps its kind; in particular Tick never owes more than the clock is ahead.
THEOREM TypeCorrect == Spec => []TypeOK
<1>1. IInv => TypeOK
    BY DEF IInv
<1>. QED
    BY <1>1, Invariant, PTL

\* timewheel.c:146-216: whatever the handlers add and whatever tails went stale,
\* the walks of Tick reach no timer that was freed.
THEOREM WalksReachLiveTimers == Spec => []NoFreedTimerVisited
<1>1. ASSUME IInv, NEW s \in Slots, NEW t \in Chain(Start(s)) PROVE t \in heap.alive
  <2>1. heap.alive \in SUBSET Timers
    BY <1>1, HeapFields DEF IInv, TypeOK
  <2>2. ClosedUnderNext(heap.alive)
    BY <1>1 DEF IInv, Links, Linked, LeadToLive, ClosedUnderNext
  <2>3. Start(s) \in heap.alive \cup {NULL}
    BY <1>1 DEF IInv, Links, Linked, LeadToLive, Start, Walking
  <2>. QED
    BY <1>1, <2>1, <2>2, <2>3 DEF Chain
<1>2. IInv => NoFreedTimerVisited
    BY <1>1 DEF NoFreedTimerVisited
<1>. QED
    BY <1>2, Invariant, PTL

\* timewheel.c:202-213: when callers ask for at least one run, no timer outlives its last
\* run, whether it fired from the first wheel, in a cascade or at once.
THEOREM NoneRunsTooOften == ASSUME CountsArePositive PROVE Spec => []NeverRunsTooOften
<1>1. IInv /\ CountsFit => NeverRunsTooOften
  <2> SUFFICES ASSUME IInv, CountsFit, NEW t \in heap.alive
               PROVE  heap.timer[t].runs < heap.timer[t].asked
    BY DEF NeverRunsTooOften
  <2>1. heap.timer[t] \in Timer /\ Fits(heap.timer[t])
    BY HeapFields DEF IInv, TypeOK, CountsFit
  <2>2. heap.timer[t].runs \in Nat /\ heap.timer[t].times \in Nat /\ heap.timer[t].asked \in Nat
    BY <2>1, SizesAssumption DEF Timer, SizesAssumption
  <2>. QED
    BY <2>1, <2>2 DEF Fits
<1>2. IInv /\ CountsFit /\ [Next]_vars => IInv' /\ CountsFit'
    BY StepRight, CountsArePositive
<1>. QED
    BY InitRight, <1>1, <1>2, PTL DEF Spec

\* With timeouts that the wheels can hold, every timer stays where it belongs.
THEOREM KeptInvariant == ASSUME TimeoutsAreShort PROVE Spec => [](IInv /\ KInv)
<1>1. IInv /\ KInv /\ [Next]_vars => IInv' /\ KInv'
    BY StepRight, StepKept, TimeoutsAreShort
<1>. QED
    BY InitRight, InitKept, <1>1, PTL DEF Spec

\* Where KInv says a slot is served from is where Tick serves it from.
LEMMA ListsAreServed ==
    ASSUME IInv, KInv, ~heap.stale, NEW t \in heap.alive
    PROVE  /\ heap.list[t] \in Slots /\ t \in Timers
           /\ InChain(heap, t, Start(heap.list[t]))
           /\ heap.timer[t].expired \in 0..(Span - 1) /\ heap.timer[t].expired \in Int
           /\ Placed(heap.list[t], heap.timer[t].expired, tick, Open)
           /\ Idx(heap.timer[t].expired, tick) = Ahead(heap.timer[t].expired, tick)
<1> DEFINE W == IF Walking THEN {Slot} ELSE {}
           N == IF Walking THEN node ELSE NULL
<1>1. heap \in Heap /\ tick \in Int /\ t \in Timers
    BY HeapFields, Units DEF IInv, TypeOK
<1>2. /\ heap.list[t] \in Slots /\ InChain(heap, t, From(heap, W, N, heap.list[t]))
      /\ Placed(heap.list[t], heap.timer[t].expired, tick, Open)
    BY DEF KInv, TimersKept, Kept, Listed, Reached, AllPlaced
<1>3. From(heap, W, N, heap.list[t]) = Start(heap.list[t])
    BY DEF From, Start, Walking
<1>4. heap.timer[t].expired \in 0..(Span - 1) /\ heap.timer[t].expired \in Int
  <2>1. heap.timer[t] \in Timer
    BY <1>1, HeapFields
  <2>. QED
    BY <2>1, Units DEF Timer
<1>5. Ahead(heap.timer[t].expired, tick) < Unit(5)
    BY <1>2 DEF Placed
<1>. QED
    BY <1>1, <1>2, <1>3, <1>4, <1>5, IdxIs

\* timewheel.c:49-117, 146-216, timewheel.h:47: every timer that was accepted stays on the
\* list that it names until it is due, through every cascade and whatever the handlers add,
\* as long as no tail went stale.
THEOREM NoTimerIsLost == ASSUME TimeoutsAreShort PROVE Spec => []KeptUntilDue
<1>1. ASSUME IInv, KInv, ~heap.stale, NEW t \in heap.alive
      PROVE  heap.list[t] # NULL /\ t \in Chain(Start(heap.list[t]))
  <2>1. heap.list[t] \in Slots /\ t \in Timers /\ InChain(heap, t, Start(heap.list[t]))
    BY <1>1, ListsAreServed
  <2>2. heap.list[t] # NULL
    BY <2>1, SizesAssumption DEF SizesAssumption
  <2>. QED
    BY <2>1, <2>2 DEF InChain, Chain, ClosedUnderNext
<1>2. IInv /\ KInv => KeptUntilDue
    BY <1>1 DEF KeptUntilDue, InItsList
<1>. QED
    BY KeptInvariant, TimeoutsAreShort, <1>2, PTL

\* timewheel.c:161-216: what Tick fires expires on this tick, and nothing is overdue: a timer
\* fires neither early nor late, from whatever wheel it came down.
THEOREM TimersFireOnTime == ASSUME TimeoutsAreShort PROVE Spec => []FiresOnTime
<1>1. ASSUME IInv, KInv, ~heap.stale, pc = "fire", NEW t \in Chain(node)
      PROVE  heap.timer[t].expired = tick
  <2> DEFINE S == {u \in heap.alive : heap.list[u] = Slot}
  <2>1. Walking /\ heap.alive \subseteq Timers
    BY <1>1, HeapFields DEF Walking, IInv, TypeOK
  <2>2. Linked(heap, {Slot}, node, {}) /\ Listed(heap, {Slot}, node, {}, tick, Open)
    BY <1>1, <2>1 DEF IInv, Links, KInv, TimersKept, Kept
  <2>3. node \in S \cup {NULL}
    BY <2>2 DEF Linked, LeadToLive, Listed, OneList
  <2>4. ASSUME NEW u \in S PROVE heap.next[u] \in S \cup {NULL}
    BY <2>2, <2>4 DEF Linked, LeadToLive, Listed, OneList
  <2>5. S \in SUBSET Timers /\ ClosedUnderNext(S)
    BY <2>1, <2>4 DEF ClosedUnderNext
  <2>6. t \in S
    BY <1>1, <2>3, <2>5 DEF Chain
  <2>7. Open = {1} /\ Slot = <<1, Bits(tick, 1)>> /\ tick \in 0..(Span - 1)
    BY <1>1, <2>1, OpenIs DEF KInv, IInv, TypeOK
  <2>8. /\ heap.timer[t].expired \in 0..(Span - 1)
        /\ Placed(Slot, heap.timer[t].expired, tick, Open)
    BY <1>1, <2>6, ListsAreServed
  <2>. QED
    BY <2>7, <2>8, FiredIsDue
<1>2. ASSUME IInv, KInv, ~heap.stale, NEW t \in heap.alive
      PROVE  Idx(heap.timer[t].expired, tick) >= IF pc \in {"cascade", "fire"} THEN 0 ELSE 1
  <2>1. /\ heap.timer[t].expired \in Int /\ tick \in Int
        /\ Placed(heap.list[t], heap.timer[t].expired, tick, Open)
        /\ Idx(heap.timer[t].expired, tick) = Ahead(heap.timer[t].expired, tick)
    BY <1>2, ListsAreServed, Units DEF IInv, TypeOK
  <2>2. Ahead(heap.timer[t].expired, tick) \in Int /\ Ahead(heap.timer[t].expired, tick) >= 0
    <3>1. Ahead(heap.timer[t].expired, tick) \in 0..(Span - 1) /\ Span \in Nat
        BY <2>1, AheadIs, Units
    <3>. QED
        BY <3>1
  <2>3. ASSUME ~Walking PROVE Ahead(heap.timer[t].expired, tick) >= 1
    <3>1. Open = {}
        BY <1>2, <2>3, OpenIs DEF KInv
    <3>2. Ahead(heap.timer[t].expired, tick) \in 1..(Unit(5) - 1)
        BY <2>1, <3>1, ClosedIsAhead
    <3>. QED
        BY <3>2, Units
  <2>. QED
    BY <2>1, <2>2, <2>3 DEF Walking
<1>3. IInv /\ KInv => FiresOnTime
    BY <1>1, <1>2 DEF FiresOnTime
<1>. QED
    BY KeptInvariant, TimeoutsAreShort, <1>3, PTL
================================================================================
