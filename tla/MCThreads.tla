------------------------------ MODULE MCThreads ------------------------------
(***************************************************************************)
(* A worker thread of ThreadOper, the logger with its writer thread, the   *)
(* stream of a thread that logs, and the start of a process: each is       *)
(* checked on its own.                                                     *)
(***************************************************************************)
EXTENDS ThreadOper, LogState, StreamState, ProcessState

CONSTANT Checked   \* what to check

VARIABLE which

Logger == INSTANCE LLog
Stream == INSTANCE LogStream
Process == INSTANCE StartProcess

logVars == <<main, writer, locked, woken, stop, list, content, rest, next, read, file, day, sec,
             appended, before, out, early>>
streamVars == <<loglevel, haveWrite, stream, currentTime, timeStr, open, line, due, interrupted>>
processVars == <<pc, limits, limitsBefore, root, files, openable, stdoutFile, stderrFile,
                 leader, ownSession, forkFailed>>
threadsVars == <<which, vars, logVars, streamVars, processVars>>

\* From a shell: no core file, some of the files, the stack unlimited, limited to more
\* or limited to less than the number of files.
Shells ==
    LET With(stack) == [core |-> [cur |-> 0, max |-> 3], nofile |-> [cur |-> 1, max |-> 2],
                        stack |-> stack]
    IN  {With([cur |-> 1, max |-> 3]), With([cur |-> 1, max |-> 2]), With([cur |-> 1, max |-> 1])}

\* Times with one, two and three digits of milliseconds in one second, and a later one.
TimesOfDay == {<<1, 5>>, <<1, 42>>, <<1, 137>>, <<2, 208>>}

\* What is not checked waits in one of its initial states.
ThreadsInit ==
    /\ Init /\ Logger!Init /\ Stream!Init /\ Process!Init
    /\ which \in Checked
    /\ which # "worker" => clears
    /\ which # "process" =>
          /\ limits["stack"].max = 3 /\ ~root /\ ~leader
          /\ files[0] = "terminal" /\ files[1] = "terminal" /\ files[2] = "terminal"
          /\ openable = {} /\ stdoutFile = "out" /\ stderrFile = "out"

WorkerStep(A) == which = "worker" /\ A /\ UNCHANGED <<which, logVars, streamVars, processVars>>
LoggerStep(A) == which = "logger" /\ A /\ UNCHANGED <<which, vars, streamVars, processVars>>
StreamStep == which = "stream" /\ Stream!Next /\ UNCHANGED <<which, vars, logVars, processVars>>
ProcessStep == which = "process" /\ Process!Next /\ UNCHANGED <<which, vars, logVars, streamVars>>

ThreadsNext == WorkerStep(Next) \/ LoggerStep(Logger!Next) \/ StreamStep \/ ProcessStep

\* The fairness of the two modules: `which' never changes, and the main thread of the
\* logger is at one place at a time.
ThreadsFairness ==
    /\ WF_threadsVars(WorkerStep(Worker) \/ LoggerStep(Logger!Writer))
    /\ WF_threadsVars(\/ WorkerStep(MainThread)
                      \/ LoggerStep(Logger!Starting \/ Logger!StopNotify \/ Logger!Join))

ThreadsSpec == ThreadsInit /\ [][ThreadsNext]_threadsVars /\ ThreadsFairness

-----------------------------------------------------------------------------
\* LLog.cpp:101, 111: while the logger runs, every line goes out.
EveryLineGoesOut == Logger!EveryLineGoesOut
=============================================================================
