---------------------------- MODULE ProcessState ----------------------------
(***************************************************************************)
(* The parameters of StartProcess, its state, and what holds of every      *)
(* state, in a module of their own as StreamState is for LogStream.        *)
(***************************************************************************)
EXTENDS Integers

CONSTANTS Infinity,       \* RLIM_INFINITY; lower limits are numbers below it
          ShellLimits,    \* the limits a process may come with
          FREE            \* a descriptor that is not in use

Resources == {"core", "nofile", "stack"}
Limits == {l \in [cur : 0..Infinity, max : 0..Infinity] : l.cur <= l.max}
Null == "dev/null"          \* as the code spells it
Files == {Null, "out", "err"}

\* The number of files a process may open is never unlimited: the kernel has a table.
LimitsAssumption ==
    /\ Infinity \in Nat
    /\ ShellLimits \subseteq {l \in [Resources -> Limits] : l["nofile"].max < Infinity}
DescriptorsAssumption == FREE \notin {"terminal"} \cup Files

ASSUME LimitsAssumption
ASSUME DescriptorsAssumption

VARIABLES pc,            \* the next call, or "started", or "ended" after exit(0)
          limits,        \* cur and max of the three resources
          limitsBefore,  \* history: the limits the process came with
          root,          \* the process may raise a hard limit
          files,         \* what the descriptors are open on
          openable,      \* the files that open() can open
          stdoutFile,    \* the arguments of BeforStartProcess
          stderrFile,
          leader,        \* the process leads its process group
          ownSession,    \* setsid has succeeded
          forkFailed     \* history

ProcessTypeOK ==
    /\ pc \in {"core", "nofile", "stack", "fork", "setsid", "fork again", "stdin", "stdout",
               "stderr", "started", "ended"}
    /\ limits \in [Resources -> Limits]
    /\ files \in [0..3 -> {"terminal", FREE} \cup Files]
    /\ {leader, ownSession, forkFailed} \subseteq BOOLEAN

-----------------------------------------------------------------------------
\* Linux_StartProcess.hpp:72-100: only a failed fork ends the start.  What starts is in
\* a session of its own, apart from the shell's, and none of its standard descriptors is
\* the one it came with.  Each is on its own file where that could be opened, whatever
\* lower ones were free, and no other stays open.  (That the process leads its session,
\* as lines 6-7, 70-71 and 77 say, is not so: the second fork, which line 79 calls
\* unnecessary, leaves it to a member that does not.)
StartsDetached ==
    /\ pc = "ended" => forkFailed
    /\ pc = "started" =>
        /\ ownSession
        /\ files = [fd \in 0..3 |->
              LET file == CASE fd = 0 -> Null [] fd = 1 -> stdoutFile [] fd = 2 -> stderrFile
                            [] OTHER -> FREE
              IN  IF file \in openable THEN file ELSE FREE]

\* Linux_StartProcess.hpp:26-69: the process may use all the files it is allowed to.
\* They become fewer only where no more memory than that is allowed for the stack,
\* whose limit is then set for the files.
LimitsRaised ==
    pc = "started" =>
        /\ limits["core"].cur = limits["core"].max
        /\ limits["nofile"].cur = limits["nofile"].max
        /\ limits["nofile"].max # limitsBefore["nofile"].max =>
               ~root /\ limits["nofile"].max = limitsBefore["stack"].max

\* Linux_StartProcess.hpp:26-110: what a process has become when its start is over.
StartsRight == ProcessTypeOK /\ StartsDetached /\ LimitsRaised
=============================================================================
