------------------------------ MODULE LogState ------------------------------
(***************************************************************************)
(* The parameters of LLog and what is assumed of them, its state, and the  *)
(* properties of every state, in a module of their own for LLog and for    *)
(* the modules that compose it.                                            *)
(***************************************************************************)
EXTENDS Integers, Sequences

CONSTANTS MaxLines,      \* bound: lines appended
          FirstDay,      \* the day on which the logger is started
          LastDay,       \* bound: the last day of a behaviour
          CLOSED,        \* m_file is not open
          OpensMayFail   \* whether m_file.open may fail

LinesAssumption == MaxLines \in Nat
DaysAssumption == FirstDay \in Nat \ {0} /\ LastDay \in Nat /\ FirstDay <= LastDay
FilesAssumption == CLOSED \notin Nat /\ OpensMayFail \in BOOLEAN

ASSUME LinesAssumption
ASSUME DaysAssumption
ASSUME FilesAssumption

VARIABLES main,      \* the main thread: in SetLogFileNameAndStart, Stop or Join
          writer,    \* the writer thread, in Run and WriteFile
          locked,    \* the writer holds m_mutex
          woken,     \* a notify has reached the sleeping writer
          stop,      \* m_stop
          list,      \* m_list
          content,   \* the local `content' of Run
          rest,      \* lines that the final for_each still has to write
          next,      \* m_nextChangeTime
          read,      \* the value of it that WriteFile compared with the clock
          file,      \* the day whose file is open in m_file, or CLOSED
          day,       \* the clock
          sec,       \* the local `sec' of SetLogFileNameAndStart
          appended,  \* history: how many lines were appended
          before,    \* history: how many of them when Stop was called
          out,       \* history: what went through `m_file << content'
          early      \* history: WriteFile looked at next before it was set

Lines == 1..MaxLines

-----------------------------------------------------------------------------
Written == {out[i].line : i \in DOMAIN out}

\* When Join returns, every line appended before Stop was called has gone out.
JoinFlushes == main = "joined" => 1..before \subseteq Written

\* Lines go out in the order of their AppendLog and none is skipped.  A line
\* goes out twice only when Stop finds nothing left to take: Run then writes
\* the content it still has.  Join does not return before they have gone out.
OutInOrder ==
    /\ out # <<>> => out[1].line = 1
    /\ \A i \in 1..(Len(out) - 1) :
          \/ out[i + 1].line = out[i].line + 1
          \/ out[i + 1].line = out[i].line /\ stop
    /\ \A i \in 1..(Len(out) - 2) : out[i + 2].line # out[i].line
    /\ JoinFlushes

\* Once the start is over, m_nextChangeTime is the midnight that ends the day
\* of the open file, and that file is not of a day to come: the writer changes
\* files day by day.  Unless it had looked at m_nextChangeTime too early.
FilesFollowDays ==
    main \notin {"open", "spawn", "date"} /\ ~early =>
        /\ file # CLOSED /\ writer # "roll" => next = file + 1
        /\ file # CLOSED => file <= day
=============================================================================
