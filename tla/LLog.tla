-------------------------------- MODULE LLog --------------------------------
(***************************************************************************)
(* The asynchronous logger of LLog.cpp: threads append lines to m_list     *)
(* under m_mutex, one writer thread takes them out and appends them to the *)
(* file of the day, and the main thread starts, stops and joins the writer.*)
(*                                                                         *)
(* A line is known by the rank of its AppendLog; the empty string that     *)
(* `content' starts with is 0.  AppendLog and Stop's notify are single     *)
(* steps.  The writer holds m_mutex across several steps, so that Stop,    *)
(* which does not take it, can fall between them.  Times are whole days,   *)
(* day 0 being the epoch, and stand for the midnight that begins the day.  *)
(***************************************************************************)
EXTENDS LogState, SequencesExt

vars == <<main, writer, locked, woken, stop, list, content, rest, next, read, file, day, sec,
          appended, before, out, early>>

\* What Run works on, what WriteFile works on, and what only others change.
runVars == <<locked, woken, list, content, rest>>
fileVars == <<next, read, file, out, early>>
otherVars == <<main, stop, day, sec, appended, before>>

TypeOK ==
    /\ main \in {"open", "spawn", "date", "up", "notify", "join", "joined"}
    /\ writer \in {"off", "loop", "lock", "test", "block", "asleep", "take", "roll", "put",
                   "write", "drain", "done"}
    /\ locked \in BOOLEAN /\ woken \in BOOLEAN /\ stop \in BOOLEAN /\ early \in BOOLEAN
    /\ list \in Seq(Lines)
    /\ content \in 0..MaxLines
    /\ rest \in Seq(Lines)
    /\ next \in Nat /\ read \in Nat /\ day \in FirstDay..LastDay /\ sec \in Nat
    /\ file \in Nat \cup {CLOSED}
    /\ appended \in 0..MaxLines /\ before \in 0..MaxLines
    /\ out \in Seq([line : Lines, to : Nat \cup {CLOSED}])

Init ==
    /\ main = "open" /\ writer = "off"
    /\ locked = FALSE /\ woken = FALSE /\ stop = FALSE /\ early = FALSE
    /\ list = <<>> /\ content = 0 /\ rest = <<>> /\ out = <<>>
    /\ next = 0 /\ read = 0 /\ day = FirstDay /\ sec = 0 /\ file = CLOSED
    /\ appended = 0 /\ before = 0

\* The states of m_file after an open of the file of day d.
Opened(d) == {d} \cup (IF OpensMayFail THEN {CLOSED} ELSE {})

(***************************************************************************)
(* The threads that log, and the clock.                                    *)
(***************************************************************************)
\* notify_one reaches the writer only if it is already asleep.
Notify == woken' = (woken \/ writer = "asleep")

\* A slip for the mutant runs: the writer is not notified.
AppendLogSilent ==
    /\ appended < MaxLines
    /\ ~locked
    /\ appended' = appended + 1
    /\ list' = Append(list, appended')
    /\ UNCHANGED <<main, writer, locked, woken, stop, content, rest, day, sec, before>>
    /\ UNCHANGED fileVars

AppendLog ==
    /\ appended < MaxLines
    /\ ~locked
    /\ appended' = appended + 1
    /\ list' = Append(list, appended')
    /\ Notify
    /\ UNCHANGED <<main, writer, locked, stop, content, rest, day, sec, before>>
    /\ UNCHANGED fileVars

Midnight ==
    /\ day < LastDay
    /\ day' = day + 1
    /\ UNCHANGED <<main, writer, stop, sec, appended, before>>
    /\ UNCHANGED runVars
    /\ UNCHANGED fileVars

(***************************************************************************)
(* The main thread.  Before "date" is done m_nextChangeTime is still what  *)
(* the constructor left, and the writer is already running.                *)
(***************************************************************************)
StartOpen ==
    /\ main = "open"
    /\ file' \in Opened(day)
    /\ sec' = day
    /\ main' = "spawn"
    /\ UNCHANGED <<writer, stop, day, appended, before, next, read, out, early>>
    /\ UNCHANGED runVars

StartSpawn ==
    /\ main = "spawn"
    /\ writer' = "loop"
    /\ main' = "date"
    /\ UNCHANGED <<stop, day, sec, appended, before>>
    /\ UNCHANGED runVars
    /\ UNCHANGED fileVars

StartDate ==
    /\ main = "date"
    /\ next' = sec + 1
    /\ main' = "up"
    /\ UNCHANGED <<writer, stop, day, sec, appended, before, read, file, out, early>>
    /\ UNCHANGED runVars

Stop ==
    /\ main = "up"
    /\ stop' = TRUE
    /\ before' = appended
    /\ main' = "notify"
    /\ UNCHANGED <<writer, day, sec, appended>>
    /\ UNCHANGED runVars
    /\ UNCHANGED fileVars

StopNotify ==
    /\ main = "notify"
    /\ Notify
    /\ main' = "join"
    /\ UNCHANGED <<writer, stop, day, sec, appended, before, locked, list, content, rest>>
    /\ UNCHANGED fileVars

Join ==
    /\ main = "join"
    /\ writer = "done"
    /\ main' = "joined"
    /\ UNCHANGED <<writer, stop, day, sec, appended, before>>
    /\ UNCHANGED runVars
    /\ UNCHANGED fileVars

(***************************************************************************)
(* The writer thread.                                                      *)
(***************************************************************************)
RunLoop ==
    /\ writer = "loop"
    /\ writer' = IF stop THEN "drain" ELSE "lock"
    /\ UNCHANGED otherVars /\ UNCHANGED runVars /\ UNCHANGED fileVars

RunLock ==
    /\ writer = "lock"
    /\ locked' = TRUE
    /\ writer' = "test"
    /\ UNCHANGED <<woken, list, content, rest>> /\ UNCHANGED otherVars /\ UNCHANGED fileVars

\* m_cond.wait: the predicate, then going to sleep, then waking up.
WaitTest ==
    /\ writer = "test"
    /\ writer' = IF stop \/ list # <<>> THEN "take" ELSE "block"
    /\ UNCHANGED otherVars /\ UNCHANGED runVars /\ UNCHANGED fileVars

WaitBlock ==
    /\ writer = "block"
    /\ locked' = FALSE
    /\ woken' = FALSE
    /\ writer' = "asleep"
    /\ UNCHANGED <<list, content, rest>> /\ UNCHANGED otherVars /\ UNCHANGED fileVars

WaitWake ==
    /\ writer = "asleep"
    /\ woken
    /\ locked' = TRUE
    /\ writer' = "test"
    /\ UNCHANGED <<woken, list, content, rest>> /\ UNCHANGED otherVars /\ UNCHANGED fileVars

SpuriousWake ==
    /\ writer = "asleep"
    /\ ~woken
    /\ woken' = TRUE
    /\ UNCHANGED <<writer, locked, list, content, rest>>
    /\ UNCHANGED otherVars /\ UNCHANGED fileVars

\* A slip: the newest line is taken.
RunTakeBack ==
    /\ writer = "take"
    /\ content' = IF list = <<>> THEN content ELSE Last(list)
    /\ list' = IF list = <<>> THEN list ELSE Front(list)
    /\ locked' = FALSE
    /\ writer' = IF content' = 0 THEN "loop" ELSE "write"
    /\ UNCHANGED <<woken, rest>> /\ UNCHANGED otherVars /\ UNCHANGED fileVars

\* content keeps its value when there is nothing to take.
RunTake ==
    /\ writer = "take"
    /\ content' = IF list = <<>> THEN content ELSE Head(list)
    /\ list' = IF list = <<>> THEN list ELSE Tail(list)
    /\ locked' = FALSE
    /\ writer' = IF content' = 0 THEN "loop" ELSE "write"
    /\ UNCHANGED <<woken, rest>> /\ UNCHANGED otherVars /\ UNCHANGED fileVars

\* WriteFile of the line at hand: the day check, the change of file (which
\* reads m_nextChangeTime again, while StartDate may be setting it), the
\* output.  During the final for_each the line is the first of rest.
WriteFileCheck ==
    /\ writer = "write"
    /\ read' = next
    /\ early' = (early \/ main = "date")
    /\ writer' = IF day >= next THEN "roll" ELSE "put"
    /\ UNCHANGED <<next, file, out>> /\ UNCHANGED otherVars /\ UNCHANGED runVars

\* A slip: the change time stays.
WriteFileRollStays ==
    /\ writer = "roll"
    /\ \E name \in {read, next} : file' \in Opened(name)
    /\ writer' = "put"
    /\ UNCHANGED <<next, read, out, early>> /\ UNCHANGED otherVars /\ UNCHANGED runVars

WriteFileRoll ==
    /\ writer = "roll"
    /\ \E name \in {read, next} : file' \in Opened(name)
    /\ next' \in {read + 1, next + 1}
    /\ writer' = "put"
    /\ UNCHANGED <<read, out, early>> /\ UNCHANGED otherVars /\ UNCHANGED runVars

WriteFilePut ==
    /\ writer = "put"
    /\ file' \in IF file = CLOSED THEN Opened(next - 1) ELSE {file}
    /\ LET line == IF locked THEN Head(rest) ELSE content IN
           out' = Append(out, [line |-> line, to |-> file'])
    /\ rest' = IF locked THEN Tail(rest) ELSE rest
    /\ writer' = IF ~locked THEN "loop" ELSE IF rest' = <<>> THEN "done" ELSE "write"
    /\ locked' = (writer' = "write")
    /\ UNCHANGED <<next, read, early, woken, list, content>> /\ UNCHANGED otherVars

\* The final for_each, under the lock and over a list that stays as it is.
RunDrain ==
    /\ writer = "drain"
    /\ rest' = list
    /\ locked' = (list # <<>>)
    /\ writer' = IF list = <<>> THEN "done" ELSE "write"
    /\ UNCHANGED <<woken, list, content>> /\ UNCHANGED otherVars /\ UNCHANGED fileVars

Writer ==
    \/ RunLoop \/ RunLock \/ WaitTest \/ WaitBlock \/ WaitWake \/ RunTake
    \/ WriteFileCheck \/ WriteFileRoll \/ WriteFilePut \/ RunDrain

Starting == StartOpen \/ StartSpawn \/ StartDate

Next ==
    \/ AppendLog \/ Midnight
    \/ Starting \/ Stop \/ StopNotify \/ Join
    \/ Writer \/ SpuriousWake

\* The writer and the main thread are scheduled; nobody has to log, midnight
\* has to come no more often than the bound says, Stop need not be called and
\* no spurious wake-up need happen.
Fairness == WF_vars(Writer) /\ WF_vars(Starting) /\ WF_vars(StopNotify) /\ WF_vars(Join)

Spec == Init /\ [][Next]_vars /\ Fairness

(***************************************************************************)
(* Properties.                                                             *)
(***************************************************************************)
\* While the logger runs, every line appended goes out.
EveryLineGoesOut == \A l \in Lines : appended >= l ~> (l \in Written \/ stop)

\* Stop wakes the writer (LLog.cpp:77), so that Join returns.
StopEndsWriter == main = "join" ~> main = "joined"
===============================================================================
