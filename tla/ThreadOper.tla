------------------------------ MODULE ThreadOper ------------------------------
(***************************************************************************)
(* The worker thread base of ThreadOper.hpp: threads Push items to         *)
(* m_listWait, the worker's LoopRun takes them batch by batch with Pop,    *)
(* which swaps m_listWait with m_listDoing, and the main thread starts,    *)
(* stops and joins the worker.                                             *)
(*                                                                         *)
(* An item is known by the rank of its Push.  LoopRun is the subclass's:   *)
(* it calls Pop until IsStoped, works on the batch and empties the list,   *)
(* or leaves the items in it (clears).                                     *)
(***************************************************************************)
EXTENDS Integers, Sequences, SequencesExt

CONSTANTS MaxItems,   \* bound: items pushed
          MaxGiven    \* bound: items handed out, where a worker gets them again and again

ItemsAssumption == MaxItems \in Nat /\ MaxGiven \in Nat

ASSUME ItemsAssumption

VARIABLES owner,     \* the main thread: before Start, in Stop or in Join
          worker,    \* the worker, in LoopRun and Pop
          held,      \* the worker holds m_mutex
          notified,  \* a notify has reached the sleeping worker
          lost,      \* history: Stop's notify came between the worker's test and its sleep
          m_stop,
          wait,      \* *m_listWait
          doing,     \* *m_listDoing
          clears,    \* whether LoopRun empties the batch it has worked on
          pushed,    \* history: how many items were pushed
          given      \* history: the items Pop has handed out

vars == <<owner, worker, held, notified, lost, m_stop, wait, doing, clears, pushed, given>>

\* What Pop works on, and what only the others change.
popVars == <<held, notified, wait, doing, given>>
otherVars == <<owner, lost, m_stop, clears, pushed>>

Items == 1..MaxItems

TypeOK ==
    /\ owner \in {"new", "up", "notify", "join", "joined"}
    /\ worker \in {"off", "loop", "lock", "test", "block", "asleep", "return", "work", "done"}
    /\ held \in BOOLEAN /\ notified \in BOOLEAN /\ lost \in BOOLEAN
    /\ m_stop \in BOOLEAN /\ clears \in BOOLEAN
    /\ wait \in Seq(Items) /\ doing \in Seq(Items) /\ given \in Seq(Items)
    /\ pushed \in 0..MaxItems

Init ==
    /\ owner = "new" /\ worker = "off"
    /\ held = FALSE /\ notified = FALSE /\ lost = FALSE /\ m_stop = FALSE
    /\ wait = <<>> /\ doing = <<>> /\ given = <<>>
    /\ clears \in BOOLEAN
    /\ pushed = 0

(***************************************************************************)
(* The threads that push, and the main thread.                             *)
(***************************************************************************)
\* notify_one reaches the worker only if it is already asleep.
Notify == notified' = (notified \/ worker = "asleep")

\* A slip for the mutant runs: the item has been moved away before it is put in the
\* list, as an item of no rank.
PushMovedFrom ==
    /\ pushed < MaxItems
    /\ ~held
    /\ pushed' = pushed + 1
    /\ wait' = Append(wait, 0)
    /\ Notify
    /\ UNCHANGED <<owner, worker, held, lost, m_stop, doing, clears, given>>

\* A slip: the worker is not notified.
PushSilent ==
    /\ pushed < MaxItems
    /\ ~held
    /\ pushed' = pushed + 1
    /\ wait' = Append(wait, pushed')
    /\ UNCHANGED <<owner, worker, held, notified, lost, m_stop, doing, clears, given>>

Push ==
    /\ pushed < MaxItems
    /\ ~held
    /\ pushed' = pushed + 1
    /\ wait' = Append(wait, pushed')
    /\ Notify
    /\ UNCHANGED <<owner, worker, held, lost, m_stop, doing, clears, given>>

Start ==
    /\ owner = "new"
    /\ owner' = "up"
    /\ worker' = "loop"
    /\ UNCHANGED <<lost, m_stop, clears, pushed>> /\ UNCHANGED popVars

Stop ==
    /\ owner = "up"
    /\ m_stop' = TRUE
    /\ owner' = "notify"
    /\ UNCHANGED <<worker, lost, clears, pushed>> /\ UNCHANGED popVars

\* A slip: the notify of Stop is forgotten.
StopNotifyForgotten ==
    /\ owner = "notify"
    /\ lost' = (worker = "block")
    /\ owner' = "join"
    /\ UNCHANGED <<worker, held, notified, m_stop, wait, doing, clears, pushed, given>>

StopNotify ==
    /\ owner = "notify"
    /\ Notify
    /\ lost' = (worker = "block")
    /\ owner' = "join"
    /\ UNCHANGED <<worker, held, m_stop, wait, doing, clears, pushed, given>>

Join ==
    /\ owner = "join"
    /\ worker = "done"
    /\ owner' = "joined"
    /\ UNCHANGED <<worker, lost, m_stop, clears, pushed>> /\ UNCHANGED popVars

(***************************************************************************)
(* The worker thread.                                                      *)
(***************************************************************************)
\* LoopRun asks IsStoped before each Pop.
LoopRun ==
    /\ worker = "loop"
    /\ worker' = IF m_stop THEN "done" ELSE "lock"
    /\ UNCHANGED otherVars /\ UNCHANGED popVars

PopLock ==
    /\ worker = "lock"
    /\ held' = TRUE
    /\ worker' = "test"
    /\ UNCHANGED <<notified, wait, doing, given>> /\ UNCHANGED otherVars

\* m_condition.wait: the predicate, then going to sleep, then waking up.
WaitTest ==
    /\ worker = "test"
    /\ worker' = IF m_stop \/ wait # <<>> THEN "return" ELSE "block"
    /\ UNCHANGED otherVars /\ UNCHANGED popVars

WaitBlock ==
    /\ worker = "block"
    /\ held' = FALSE
    /\ notified' = FALSE
    /\ worker' = "asleep"
    /\ UNCHANGED <<wait, doing, given>> /\ UNCHANGED otherVars

WaitWake ==
    /\ worker = "asleep"
    /\ notified
    /\ held' = TRUE
    /\ worker' = "test"
    /\ UNCHANGED <<notified, wait, doing, given>> /\ UNCHANGED otherVars

SpuriousWake ==
    /\ worker = "asleep"
    /\ ~notified
    /\ notified' = TRUE
    /\ UNCHANGED <<worker, held, wait, doing, given>> /\ UNCHANGED otherVars

\* A slip: the waiting list is handed out and kept.
PopReturnCopies ==
    /\ worker = "return"
    /\ m_stop \/ Len(given) < MaxGiven
    /\ doing' = IF m_stop THEN doing ELSE wait
    /\ given' = given \o doing'
    /\ held' = FALSE
    /\ worker' = "work"
    /\ UNCHANGED <<notified, wait>> /\ UNCHANGED otherVars

\* The end of Pop: after a stop the batch at hand is handed out again, else the
\* lists are swapped and a batch that was not emptied becomes the waiting list.
PopReturn ==
    /\ worker = "return"
    /\ m_stop \/ Len(given) < MaxGiven
    /\ IF m_stop THEN UNCHANGED <<wait, doing>> ELSE wait' = doing /\ doing' = wait
    /\ given' = given \o doing'
    /\ held' = FALSE
    /\ worker' = "work"
    /\ UNCHANGED notified /\ UNCHANGED otherVars

\* LoopRun works on the batch.
Work ==
    /\ worker = "work"
    /\ doing' = IF clears THEN <<>> ELSE doing
    /\ worker' = "loop"
    /\ UNCHANGED <<held, notified, wait, given>> /\ UNCHANGED otherVars

Worker == \/ LoopRun \/ PopLock \/ WaitTest \/ WaitBlock \/ WaitWake \/ PopReturn \/ Work

MainThread == StopNotify \/ Join

Next == Push \/ Start \/ Stop \/ MainThread \/ Worker \/ SpuriousWake

\* The worker and the main thread are scheduled; nobody has to push or to stop
\* and no spurious wake-up need happen.
Fairness == WF_vars(Worker) /\ WF_vars(MainThread)

Spec == Init /\ [][Next]_vars /\ Fairness

(***************************************************************************)
(* Properties.                                                             *)
(***************************************************************************)
Ranks(n) == [i \in 1..n |-> i]

\* ThreadOper.hpp:37-43, 72-80: what is pushed while lists are swapped and batches
\* worked on is neither lost nor overtaken: it has been handed out or still waits.
\* A worker that empties its batches gets every item once, in the order of Push.
HandedOutInOrder ==
    /\ Range(given) \cup Range(wait) = 1..pushed
    /\ clears => given \o wait = Ranks(pushed)

\* What HandedOutInOrder rests on: the batch at hand has been handed out, and a worker
\* that empties its batches comes to Pop without one.
BatchIsGiven ==
    /\ Range(doing) \subseteq Range(given)
    /\ clears /\ worker # "work" => doing = <<>>

\* The inductive invariant of ThreadOper_proofs.
IInv == TypeOK /\ HandedOutInOrder /\ BatchIsGiven /\ (owner = "new" => worker = "off")

\* ThreadOper.hpp:41, 75: while the worker runs, every item comes to it.
EveryItemComesOut ==
    \A i \in Items : clears /\ owner = "up" /\ pushed >= i ~> (i \in Range(given) \/ m_stop)

\* ThreadOper.hpp:47: Stop wakes the worker, so that Join returns, unless its notify
\* has fallen between the worker's test and its sleep and nothing else wakes it.
StopEndsUnlessLost ==
    owner = "join" ~> (owner = "joined" \/ (lost /\ worker = "asleep"))
===============================================================================
