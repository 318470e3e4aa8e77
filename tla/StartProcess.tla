---------------------------- MODULE StartProcess ----------------------------
(***************************************************************************)
(* BeforStartProcess of Linux_StartProcess.hpp: a process raises its       *)
(* limits, becomes a daemon and lets its three standard descriptors go.    *)
(* The kernel's part (setrlimit, fork, setsid, open, dup2) is modelled     *)
(* from what the calls return.                                             *)
(***************************************************************************)
EXTENDS ProcessState

vars == <<pc, limits, limitsBefore, root, files, openable, stdoutFile, stderrFile,
          leader, ownSession, forkFailed>>

\* What each part of the start works on, and the surroundings, which stay.
surroundings == <<limitsBefore, root, openable, stdoutFile, stderrFile>>
daemonVars == <<leader, ownSession, forkFailed>>

\* A shell may start a program with some of the standard descriptors closed, and
\* makes it the leader of a group, which a script does not.
Init ==
    /\ pc = "core"
    /\ limits \in ShellLimits
    /\ limitsBefore = limits
    /\ root \in BOOLEAN
    /\ files \in {f \in [0..3 -> {"terminal", FREE}] : f[3] = FREE}
    /\ openable \in SUBSET Files
    /\ stdoutFile \in {Null, "out"} /\ stderrFile \in {Null, "out", "err"}
    /\ leader \in BOOLEAN /\ ownSession = FALSE /\ forkFailed = FALSE

(***************************************************************************)
(* The limits.                                                             *)
(***************************************************************************)
Same(value) == [cur |-> value, max |-> value]

\* setrlimit: only root raises a hard limit, and that of files is never infinite.
Allowed(resource, value) ==
    /\ root \/ value <= limits[resource].max
    /\ resource = "nofile" => value < Infinity

\* One of the three functions: no limit at all, or else as much as the hard limit
\* allows, which the last of them sets for the wrong resource.
Raised(resource, fallback) ==
    IF Allowed(resource, Infinity) THEN [limits EXCEPT ![resource] = Same(Infinity)]
    ELSE IF Allowed(fallback, limits[resource].max)
         THEN [limits EXCEPT ![fallback] = Same(limits[resource].max)]
         ELSE limits

SetCoreFileUnlimit ==
    /\ pc = "core"
    /\ limits' = Raised("core", "core")
    /\ pc' = "nofile"
    /\ UNCHANGED <<files, surroundings, daemonVars>>

SetSocketFileSize ==
    /\ pc = "nofile"
    /\ limits' = Raised("nofile", "nofile")
    /\ pc' = "stack"
    /\ UNCHANGED <<files, surroundings, daemonVars>>

SetProcessStackSize ==
    /\ pc = "stack"
    /\ limits' = Raised("stack", "nofile")
    /\ pc' = "fork"
    /\ UNCHANGED <<files, surroundings, daemonVars>>

(***************************************************************************)
(* Daemonize.  The child goes on; the parent, and a process that could not *)
(* fork, end.                                                              *)
(***************************************************************************)
Fork(next) ==
    \/ leader' = FALSE /\ pc' = next /\ UNCHANGED forkFailed
    \/ forkFailed' = TRUE /\ pc' = "ended" /\ UNCHANGED leader

DaemonizeFork ==
    /\ pc = "fork"
    /\ Fork("setsid")
    /\ UNCHANGED <<limits, files, surroundings, ownSession>>

DaemonizeSetsid ==
    /\ pc = "setsid"
    /\ IF leader
       THEN pc' = "ended" /\ UNCHANGED <<leader, ownSession>>
       ELSE pc' = "fork again" /\ leader' = TRUE /\ ownSession' = TRUE
    /\ UNCHANGED <<limits, files, surroundings, forkFailed>>

DaemonizeForkAgain ==
    /\ pc = "fork again"
    /\ Fork("stdin")
    /\ UNCHANGED <<limits, files, surroundings, ownSession>>

(***************************************************************************)
(* The standard descriptors.  open returns the lowest one that is free.    *)
(***************************************************************************)
LowestFree(f) == CHOOSE fd \in DOMAIN f : f[fd] = FREE /\ \A g \in 0..(fd - 1) : f[g] # FREE

\* A slip for the mutant runs: the descriptor that open returned is closed even when it is fd.
SwitchFileToClosing(fd, file) ==
    LET closed == [files EXCEPT ![fd] = FREE]
    IN  files' = IF file \notin openable THEN closed
                 ELSE [[closed EXCEPT ![fd] = file] EXCEPT ![LowestFree(closed)] = FREE]

SwitchFileTo(fd, file) ==
    LET closed == [files EXCEPT ![fd] = FREE]
        tmpfd == LowestFree(closed)
    IN  files' = IF file \notin openable THEN closed
                 ELSE IF tmpfd = fd THEN [closed EXCEPT ![fd] = file]
                 ELSE [closed EXCEPT ![fd] = file, ![tmpfd] = FREE]

SetStdFileDescription ==
    /\ \/ pc = "stdin" /\ SwitchFileTo(0, Null) /\ pc' = "stdout"
       \/ pc = "stdout" /\ SwitchFileTo(1, stdoutFile) /\ pc' = "stderr"
       \/ pc = "stderr" /\ SwitchFileTo(2, stderrFile) /\ pc' = "started"
    /\ UNCHANGED <<limits, surroundings, daemonVars>>

Next ==
    \/ SetCoreFileUnlimit \/ SetSocketFileSize \/ SetProcessStackSize
    \/ DaemonizeFork \/ DaemonizeSetsid \/ DaemonizeForkAgain
    \/ SetStdFileDescription

Spec == Init /\ [][Next]_vars
=============================================================================
