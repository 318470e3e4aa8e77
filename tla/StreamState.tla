----------------------------- MODULE StreamState -----------------------------
(***************************************************************************)
(* The parameters of LogStream, its state, and what holds of every state,  *)
(* in a module of their own for LogStream and for the modules that put a   *)
(* thread that logs beside others.                                         *)
(***************************************************************************)
EXTENDS Integers, Sequences

CONSTANTS Levels,     \* LLOG_LEVEL
          Times,      \* what now_ms() may return: <<seconds, milliseconds>>
          MaxPuts,    \* bound: operands of a statement
          MaxDepth    \* bound: statements under way at a time

StatementsAssumption == MaxPuts \in Nat /\ MaxDepth \in Nat
TimesAssumption == Times \subseteq Nat \X (0..999)

ASSUME StatementsAssumption
ASSUME TimesAssumption

VARIABLES loglevel,      \* g_loglevel
          haveWrite,     \* m_haveWrite
          stream,        \* m_stream
          currentTime,   \* m_currentTime
          timeStr,       \* m_timeStr
          open,          \* the statements under way, the innermost last
          line,          \* what the last destructor appended, or <<>>
          due,           \* history: what that statement ought to log, or <<>>
          interrupted    \* history: another statement began within that one

Second(t) == t[1]

\* A statement: whether its level is on, the line it ought to log, its operands so far,
\* whether another began within it.
Statements == [on : BOOLEAN, line : Seq(Seq(Int)), puts : 0..MaxPuts, broken : BOOLEAN]

StreamTypeOK ==
    /\ loglevel \in Levels /\ haveWrite \in BOOLEAN /\ interrupted \in BOOLEAN
    /\ stream \in Seq(Seq(Int)) /\ line \in Seq(Seq(Int)) /\ due \in Seq(Seq(Int))
    /\ currentTime \in {0} \cup {Second(t) : t \in Times}
    /\ timeStr \in Seq(Int) /\ Len(timeStr) = 4
    /\ open \in Seq(Statements) /\ Len(open) <= MaxDepth

-----------------------------------------------------------------------------
\* LLog.cpp:147-153, 205-229; LLog.hpp:119-125: a statement whose level is on appends
\* its own head, the right time and its operands, any other appends nothing, whatever
\* was logged before and however the level changes meanwhile; except a statement that
\* another has logged within, which shares the thread's stream with it.
LinesAreWhole == StreamTypeOK /\ (interrupted \/ line = due)
=============================================================================
