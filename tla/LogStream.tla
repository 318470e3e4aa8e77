------------------------------ MODULE LogStream ------------------------------
(***************************************************************************)
(* LOG_DEBUG << a << b; of LLog.hpp: a LogPrint lives as long as the       *)
(* statement.  Its constructor starts a line in the thread's only          *)
(* StreamOutLog, operator<< adds to it, the destructor appends it to the   *)
(* log.  An operand may be a call that logs by itself, which nests.        *)
(*                                                                         *)
(* A line is a sequence of pieces: the head with the time as it is shown,  *)
(* then the number of the operand.  The time shown is the second and the   *)
(* three digits of m_timeStr[21..23].                                      *)
(***************************************************************************)
EXTENDS StreamState, SequencesExt

vars == <<loglevel, haveWrite, stream, currentTime, timeStr, open, line, due, interrupted>>

Digits(ms) == <<ms \div 100, (ms % 100) \div 10, ms % 10>>

Init ==
    /\ loglevel \in Levels /\ \A level \in Levels : level <= loglevel
    /\ haveWrite = TRUE
    /\ stream = <<>> /\ line = <<>> /\ due = <<>>
    /\ currentTime = 0 /\ timeStr = <<0, 0, 0, 0>>
    /\ open = <<>> /\ interrupted = FALSE

\* A slip for the mutant runs: the digits that the new time lacks are kept.
CachedDigitsKept(ms) ==
    <<IF ms < 100 THEN timeStr[2] ELSE ms \div 100,
      IF ms < 10 THEN timeStr[3] ELSE (ms % 100) \div 10,
      ms % 10>>

\* m_timeStr[21..23] within the second of the last call.
CachedDigits(ms) ==
    <<IF ms < 100 THEN 0 ELSE ms \div 100,
      IF ms < 10 THEN 0 ELSE (ms % 100) \div 10,
      ms % 10>>

GetCurrentTimeStr(t) ==
    /\ currentTime' = Second(t)
    /\ timeStr' = IF Second(t) # currentTime THEN <<Second(t)>> \o Digits(t[2])
                  ELSE <<timeStr[1]>> \o CachedDigits(t[2])

SetLogLevel ==
    /\ loglevel' \in Levels
    /\ UNCHANGED <<haveWrite, stream, currentTime, timeStr, open, line, due, interrupted>>

\* The constructor of LogPrint, at time t.
LogPrint(level, t) ==
    /\ Len(open) < MaxDepth
    /\ haveWrite' = (level <= loglevel)
    /\ IF haveWrite'
       THEN GetCurrentTimeStr(t) /\ stream' = <<timeStr'>>
       ELSE UNCHANGED <<currentTime, timeStr, stream>>
    /\ open' = Append([i \in DOMAIN open |-> [open[i] EXCEPT !.broken = TRUE]],
                      [on |-> haveWrite', line |-> <<<<Second(t)>> \o Digits(t[2])>>,
                       puts |-> 0, broken |-> FALSE])
    /\ UNCHANGED <<loglevel, line, due, interrupted>>

\* operator<< of the innermost statement.
Put ==
    /\ open # <<>>
    /\ LET now == Last(open)
           piece == <<now.puts + 1>>
       IN  /\ now.puts < MaxPuts
           /\ open' = Append(Front(open), [now EXCEPT !.line = Append(@, piece), !.puts = @ + 1])
           /\ stream' = IF haveWrite THEN Append(stream, piece) ELSE stream
    /\ UNCHANGED <<loglevel, haveWrite, currentTime, timeStr, line, due, interrupted>>

\* The destructor of LogPrint.
LogPrintEnds ==
    /\ open # <<>>
    /\ line' = IF haveWrite THEN stream ELSE <<>>
    /\ due' = IF Last(open).on THEN Last(open).line ELSE <<>>
    /\ interrupted' = Last(open).broken
    /\ open' = Front(open)
    /\ UNCHANGED <<loglevel, haveWrite, stream, currentTime, timeStr>>

Next ==
    \/ SetLogLevel \/ Put \/ LogPrintEnds
    \/ \E level \in Levels \ {0}, t \in Times : LogPrint(level, t)

Spec == Init /\ [][Next]_vars
=============================================================================
