------------------------------ MODULE TimeWheel ------------------------------
(***************************************************************************)
(* The hierarchical timer wheel of co/timewheel.c: five arrays of linked   *)
(* lists of timers, a tick counter, AddTimer, and Tick, which callers run  *)
(* from their event loop.                                                  *)
(*                                                                         *)
(* The wheel looks at a time only through its low bits and through the     *)
(* `int' difference of two times, so times are kept modulo 2^32, here the  *)
(* number of milliseconds that the five wheels span together (Span).       *)
(* The clock is kept relative to the wheel: `lag' is the number of ticks   *)
(* by which now_milliseconds() is ahead, so that tick_ <= now is lag > 0.  *)
(***************************************************************************)
EXTENDS Integers

CONSTANTS Timers,           \* the addresses malloc may return for a Timer
          NULL,
          TV1_SIZE,         \* 256 slots in tv1_
          TV_SIZE,          \* 64 slots in each of tv2_ .. tv5_
          UINT,             \* 2^32, the values of a uint32_t counter
          Requests,         \* the AddTimer calls an event loop makes
          HandlerRequests,  \* the AddTimer calls a timeout handler makes
          Starts,           \* the clock readings InitTimeWheel may see
          CallTicks,        \* bound: the ticks at which an event loop calls AddTimer
          MaxLag            \* bound: ticks by which the wheel may run late

Exec_Once == 0
Exec_All == 1
Exec_Times == 2

\* Milliseconds per slot of a wheel; Unit(6) is the span of all five.
Unit(level) == CASE level = 1 -> 1
                 [] level = 2 -> TV1_SIZE
                 [] level = 3 -> TV1_SIZE * TV_SIZE
                 [] level = 4 -> TV1_SIZE * TV_SIZE * TV_SIZE
                 [] level = 5 -> TV1_SIZE * TV_SIZE * TV_SIZE * TV_SIZE
                 [] level = 6 -> TV1_SIZE * TV_SIZE * TV_SIZE * TV_SIZE * TV_SIZE
Span == Unit(6)
Width(level) == IF level = 1 THEN TV1_SIZE ELSE TV_SIZE
Bits(time, level) == (time \div Unit(level)) % Width(level)
Slots == {s \in (1..5) \X (0..(TV1_SIZE + TV_SIZE)) : s[2] < Width(s[1])}

\* The value of `int idx = later - earlier'.
Idx(later, earlier) ==
    LET d == (later - earlier) % Span IN IF 2 * d < Span THEN d ELSE d - Span

Request == [timeout : Nat \ {0}, flag : {Exec_Once, Exec_All, Exec_Times},
            times : 0..(UINT - 1)]

\* A periodic timer of 2^31 ms or more is due again as soon as it has been
\* handled, and _AddTimer calls itself without end: no caller asks for one.
RequestsAssumption ==
    /\ Requests \subseteq Request
    /\ HandlerRequests \subseteq Request
    /\ \A r \in Requests : r.flag = Exec_All => 2 * (r.timeout + MaxLag) < Span

SizesAssumption ==
    /\ TV1_SIZE \in Nat \ {0, 1}
    /\ TV_SIZE \in Nat \ {0, 1}
    /\ UINT \in Nat \ {0}
    /\ MaxLag \in Nat \ {0}
    /\ Starts \subseteq 0..(Span - 1)
    /\ NULL \notin Timers \cup Slots

ASSUME RequestsAssumption
ASSUME SizesAssumption

VARIABLES tick,    \* tick_, modulo Span
          lag,     \* now_milliseconds() + 1 - tick_
          quota,   \* iterations left in the running call of Tick
          pc,      \* where the running call of Tick is
          level,   \* the wheel whose slot is being walked
          node,    \* the local `node' of the walk
          heap     \* the lists and the timers

vars == <<tick, lag, quota, pc, level, node, heap>>

Pointer == Timers \cup {NULL}

\* asked and runs are history: how often the caller wants the handler to run
\* and how often it has run (kept only for timers with a bounded count).
Blank == [expired |-> 0, timeout |-> 0, flag |-> Exec_Once, times |-> 0,
          asked |-> 0, runs |-> 0]

Timer == [expired : 0..(Span - 1), timeout : Nat, flag : {Exec_Once, Exec_All, Exec_Times},
          times : 0..(UINT - 1), asked : Nat, runs : Nat]

Heap == [head : [Slots -> Pointer], tail : [Slots -> Pointer],
         next : [Timers -> Pointer], list : [Timers -> Slots \cup {NULL}],
         timer : [Timers -> Timer], alive : SUBSET Timers, stale : BOOLEAN]

TypeOK ==
    /\ tick \in 0..(Span - 1)
    /\ lag \in 0..MaxLag
    /\ quota \in 0..MaxLag
    /\ pc \in {"idle", "loop", "cascade", "fire"}
    /\ level \in 1..5
    /\ node \in Pointer
    /\ heap \in Heap

Init ==
    /\ tick \in Starts
    /\ lag = 1
    /\ quota = 0
    /\ pc = "idle"
    /\ level = 1
    /\ node = NULL
    /\ heap = [head |-> [s \in Slots |-> NULL], tail |-> [s \in Slots |-> NULL],
               next |-> [t \in Timers |-> NULL], list |-> [t \in Timers |-> NULL],
               timer |-> [t \in Timers |-> Blank], alive |-> {}, stale |-> FALSE]

(***************************************************************************)
(* The lists.  `stale' is history: an append went to a list that had a     *)
(* tail but no head.                                                       *)
(***************************************************************************)
AddTimerList(h, s, t) ==
    LET last == h.tail[s]
        cut  == [h.next EXCEPT ![t] = NULL]
    IN  IF last = NULL
        THEN [h EXCEPT !.list[t] = s, !.head[s] = t, !.tail[s] = t, !.next = cut]
        ELSE [h EXCEPT !.list[t] = s, !.tail[s] = t,
                       !.next = [cut EXCEPT ![last] = t],
                       !.stale = @ \/ h.head[s] = NULL]

\* The wheel by the distance to expiry; timers too far for the fourth wheel
\* take their slot number from the fifth but are stored in tv4_.
SlotFor(expired, now) ==
    LET idx == Idx(expired, now)
        fit == {l \in 1..4 : idx < Unit(l + 1)}
        l   == IF fit = {} THEN 5 ELSE CHOOSE x \in fit : \A y \in fit : x <= y
    IN  <<IF l = 5 THEN 4 ELSE l, Bits(expired, l)>>

Insert(h, t, now) == AddTimerList(h, SlotFor(h.timer[t].expired, now), t)

\* The handler's run itself; what it does to the wheel is in its caller.
Run(h, t) == IF h.timer[t].flag = Exec_All THEN h ELSE [h EXCEPT !.timer[t].runs = @ + 1]

freeTimer(h, t) ==
    [h EXCEPT !.alive = @ \ {t}, !.timer[t] = Blank, !.list[t] = NULL, !.next[t] = NULL]

\* The part of _AddTimer that runs a timer at once and then, if it is
\* periodic, adds it again from the clock (not from tick_).  When the clock
\* has not moved past tick_ a period of 1 is due again: the handler runs
\* until it has.
AfterImmediate(h, t, now, behind) ==
    LET ahead == behind - 1 + h.timer[t].timeout IN
    IF h.timer[t].flag = Exec_All
    THEN Insert([h EXCEPT !.timer[t].expired = (now + (IF ahead > 0 THEN ahead ELSE 1)) % Span],
                t, now)
    ELSE freeTimer(h, t)

Due(h, t, now) == Idx(h.timer[t].expired, now) <= 0

\* _AddTimer, for a handler that leaves the wheel alone.
AddAgain(h, t, now, behind) ==
    IF Due(h, t, now) THEN AfterImmediate(Run(h, t), t, now, behind) ELSE Insert(h, t, now)

AddTimer(h, t, r, now, behind) ==
    AddAgain([h EXCEPT !.alive = @ \cup {t}, !.next[t] = NULL, !.list[t] = NULL,
                       !.timer[t] = [expired |-> (r.timeout + now) % Span,
                                     timeout |-> r.timeout, flag |-> r.flag,
                                     times |-> r.times, runs |-> 0,
                                     asked |-> IF r.flag = Exec_Times THEN r.times ELSE 1]],
             t, now, behind)

\* The heaps a handler running on h may leave: it may add one timer.
Handled(h) ==
    {h} \cup {AddTimer(h, t, r, tick, lag) : t \in Timers \ h.alive, r \in HandlerRequests}

(***************************************************************************)
(* Actions.                                                                *)
(***************************************************************************)
Call_AddTimer(t, r) ==
    /\ pc = "idle"
    /\ tick \in CallTicks
    /\ t \notin heap.alive
    /\ heap' = AddTimer(heap, t, r, tick, lag)
    /\ UNCHANGED <<tick, lag, quota, pc, level, node>>

ClockAdvances ==
    /\ lag < MaxLag
    /\ lag' = lag + 1
    /\ UNCHANGED <<tick, quota, pc, level, node, heap>>

Tick ==
    /\ pc = "idle"
    /\ lag > 0
    /\ quota' = lag
    /\ pc' = "loop"
    /\ UNCHANGED <<tick, lag, level, node, heap>>

\* One iteration of the loop: tick_++, then SwitchOthWheel.
EnterSlot(l, now) ==
    /\ level' = l
    /\ node' = heap.head[<<l, Bits(now, l)>>]

\* Slips: the lap is detected on the tick before; tick_ is not reduced; the
\* clock is read again for every iteration.
TickLoopLateLap ==
    /\ pc = "loop"
    /\ quota > 0
    /\ tick' = (tick + 1) % Span
    /\ lag' = lag - 1
    /\ quota' = quota - 1
    /\ IF Bits(tick, 1) = 0
       THEN pc' = "cascade" /\ EnterSlot(2, tick')
       ELSE pc' = "fire" /\ EnterSlot(1, tick')
    /\ UNCHANGED heap

TickLoopUnbounded ==
    /\ pc = "loop"
    /\ quota > 0
    /\ tick' = tick + 1
    /\ lag' = lag - 1
    /\ quota' = quota - 1
    /\ pc' = "fire"
    /\ EnterSlot(1, tick')
    /\ UNCHANGED heap

TickLoopRereadsClock ==
    /\ pc = "loop"
    /\ lag > 0
    /\ tick' = (tick + 1) % Span
    /\ lag' = lag - 1
    /\ quota' = lag - 1
    /\ IF Bits(tick', 1) = 0
       THEN pc' = "cascade" /\ EnterSlot(2, tick')
       ELSE pc' = "fire" /\ EnterSlot(1, tick')
    /\ UNCHANGED heap

TickLoop ==
    /\ pc = "loop"
    /\ quota > 0
    /\ tick' = (tick + 1) % Span
    /\ lag' = lag - 1
    /\ quota' = quota - 1
    /\ IF Bits(tick', 1) = 0
       THEN pc' = "cascade" /\ EnterSlot(2, tick')
       ELSE pc' = "fire" /\ EnterSlot(1, tick')
    /\ UNCHANGED heap

TickReturn ==
    /\ pc = "loop"
    /\ quota = 0
    /\ pc' = "idle"
    /\ UNCHANGED <<tick, lag, quota, level, node, heap>>

Slot == <<level, Bits(tick, level)>>

\* A slip: node->next_ is read after the timer was moved.
_SwitchOthWheelNextLate ==
    /\ pc = "cascade"
    /\ node # NULL
    /\ IF Due(heap, node, tick)
       THEN \E h \in Handled(Run(heap, node)) : heap' = AfterImmediate(h, node, tick, lag)
       ELSE heap' = Insert(heap, node, tick)
    /\ node' = heap'.next[node]
    /\ UNCHANGED <<tick, lag, quota, pc, level>>

_SwitchOthWheel ==
    /\ pc = "cascade"
    /\ node # NULL
    /\ node' = heap.next[node]
    /\ IF Due(heap, node, tick)
       THEN \E h \in Handled(Run(heap, node)) : heap' = AfterImmediate(h, node, tick, lag)
       ELSE heap' = Insert(heap, node, tick)
    /\ UNCHANGED <<tick, lag, quota, pc, level>>

\* The slot is emptied and the next wheel follows when this one wrapped.
SwitchOthWheel ==
    /\ pc = "cascade"
    /\ node = NULL
    /\ heap' = IF heap.head[Slot] = NULL THEN heap
               ELSE [heap EXCEPT !.head[Slot] = NULL, !.tail[Slot] = NULL]
    /\ IF Slot[2] = 0 /\ level < 5
       THEN EnterSlot(level + 1, tick) /\ UNCHANGED pc
       ELSE EnterSlot(1, tick) /\ pc' = "fire"
    /\ UNCHANGED <<tick, lag, quota>>

\* A slip: the count is tested before it is decremented.
AfterFirePostDecrement(h, t) ==
    LET due == (h.timer[t].timeout + tick) % Span IN
    IF h.timer[t].flag = Exec_All \/ (h.timer[t].flag = Exec_Times /\ h.timer[t].times # 0)
    THEN AddAgain([h EXCEPT !.timer[t].expired = due, !.timer[t].times = (@ - 1) % UINT],
                  t, tick, lag)
    ELSE freeTimer(h, t)

AfterFire(h, t) ==
    LET left == (h.timer[t].times - 1) % UINT
        due  == (h.timer[t].timeout + tick) % Span
    IN  CASE h.timer[t].flag = Exec_All ->
               AddAgain([h EXCEPT !.timer[t].expired = due], t, tick, lag)
          [] h.timer[t].flag = Exec_Times /\ left # 0 ->
               AddAgain([h EXCEPT !.timer[t].expired = due, !.timer[t].times = left],
                        t, tick, lag)
          [] OTHER -> freeTimer(h, t)

Fire ==
    /\ pc = "fire"
    /\ node # NULL
    /\ node' = heap.next[node]
    /\ \E h \in Handled(Run(heap, node)) : heap' = AfterFire(h, node)
    /\ UNCHANGED <<tick, lag, quota, pc, level>>

\* A slip: the fired slot keeps its head_.
FireDoneKeepsHead ==
    /\ pc = "fire"
    /\ node = NULL
    /\ pc' = "loop"
    /\ UNCHANGED <<tick, lag, quota, level, node, heap>>

\* Only head_ is reset.
FireDone ==
    /\ pc = "fire"
    /\ node = NULL
    /\ heap' = [heap EXCEPT !.head[Slot] = NULL]
    /\ pc' = "loop"
    /\ UNCHANGED <<tick, lag, quota, level, node>>

InTick == TickLoop \/ TickReturn \/ _SwitchOthWheel \/ SwitchOthWheel \/ Fire \/ FireDone

Next ==
    \/ \E t \in Timers, r \in Requests : Call_AddTimer(t, r)
    \/ ClockAdvances
    \/ Tick
    \/ InTick

\* The clock runs, the event loop calls Tick again and again, and a call of
\* Tick runs to its end.
Fairness == WF_vars(ClockAdvances) /\ WF_vars(Tick) /\ WF_vars(InTick)

Spec == Init /\ [][Next]_vars /\ Fairness

(***************************************************************************)
(* Properties.                                                             *)
(***************************************************************************)
\* The timers on a list from p on, following next_: no set that holds p and keeps with
\* each timer the next one is smaller.
ClosedUnderNext(S) == \A t \in S : heap.next[t] \in S \cup {NULL}
Chain(p) == {t \in Timers : \A S \in SUBSET Timers :
                               p \in S \cup {NULL} /\ ClosedUnderNext(S) => t \in S}

\* What is still to be served in a slot: of the slot Tick is walking, the rest.
Start(s) == IF pc \in {"cascade", "fire"} /\ s = Slot THEN node ELSE heap.head[s]

InItsList(t) == heap.list[t] # NULL /\ t \in Chain(Start(heap.list[t]))

\* A timer that AddTimer accepted and that has not been freed is on the list
\* that its linked_list_ names (timewheel.h:47) until it is due.
TimerInItsList == \A t \in heap.alive : InItsList(t)

\* Time-outs below 2^26 ms, about 18 hours, whatever the lag: those the first four wheels
\* hold.  A longer one waits in tv4_ (timewheel.c:94-97), and when it is still that far
\* away as its slot comes up, it is put back into the slot that is then emptied.
Near(timer) == timer.timeout + MaxLag <= Unit(5)

\* The same for the near timers, as long as no timer was appended behind a tail_ that
\* FireDone left stale: cascading and re-adding during a walk, of far timers as well,
\* lose none of them.
KeptUntilDue == ~heap.stale => \A t \in heap.alive : Near(heap.timer[t]) => InItsList(t)

\* The slot that Tick fires holds timers of this very tick only, far ones included, and
\* no near timer is overdue: nothing fires early or late, from whatever wheel it came down.
FiresOnTime ==
    ~heap.stale =>
        /\ pc = "fire" => \A t \in Chain(node) : heap.timer[t].expired = tick
        /\ \A t \in heap.alive : Near(heap.timer[t]) =>
              Idx(heap.timer[t].expired, tick) >= IF pc \in {"cascade", "fire"} THEN 0 ELSE 1

\* Stale tails or not, the walks of Tick only ever reach allocated timers:
\* no handler is called through a timer that was freed.
NoFreedTimerVisited ==
    \A s \in Slots : Start(s) # NULL => Chain(Start(s)) \subseteq heap.alive

\* A bounded timer is freed in the step of its last run at the latest.
NeverRunsTooOften == \A t \in heap.alive : heap.timer[t].runs < heap.timer[t].asked

\* The far timers of the walk that are put back into the slot of tv4_ that is walked.
ComingBack == {t \in Chain(node) : SlotFor(heap.timer[t].expired, tick) = Slot}
TwoComeBack == pc = "cascade" /\ \E t, u \in ComingBack : t # u

\* Tick comes back from the walks to its caller's event loop, whatever the handlers add
\* meanwhile, unless a tail went stale, when a cascade can link two timers into a ring,
\* or two far timers are put back into the slot being walked: each of them is then
\* appended behind the other again and again.  (timewheel.h:59 says that 49 days are
\* held: from 2^26 ms on, this is what the code does instead.)
TickReturns == pc # "idle" ~> (pc = "idle" \/ heap.stale \/ TwoComeBack)

-----------------------------------------------------------------------------
\* The calls that the runs make: single timers, of which the last is beyond the fourth
\* wheel; two runs of a timer; a timer that runs for ever.
Once(timeouts) == {[timeout |-> t, flag |-> Exec_Once, times |-> 0] : t \in timeouts}
LoopRequests == {[timeout |-> 1, flag |-> Exec_Times, times |-> 2]} \cup Once({27, 74})
FiringRequests == {[timeout |-> 18, flag |-> Exec_All, times |-> 0]} \cup Once({74})
OnceRequests == Once({1, 6, 13, 27})
EveryTick == 0..(Span - 1)
===============================================================================
