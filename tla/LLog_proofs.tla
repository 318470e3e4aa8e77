------------------------------ MODULE LLog_proofs ------------------------------
(***************************************************************************)
(* For every number of lines and days: lines go out in order, none is      *)
(* skipped, at most one goes out twice, Join flushes what was logged       *)
(* before Stop, and the files follow the days.  And for every thread that  *)
(* logs, with any levels and times: its lines are whole.                   *)
(***************************************************************************)
EXTENDS LLog, StreamState, TLAPS, SequenceTheorems

Writing == {"write", "roll", "put"}

\* Where the threads are, who holds m_mutex, and what Stop implies.
Phases ==
    /\ stop <=> main \in {"notify", "join", "joined"}
    /\ main \in {"open", "spawn"} => writer = "off"
    /\ main = "joined" => writer = "done"
    /\ writer \in {"drain", "done"} => stop
    /\ writer \in Writing /\ locked => stop
    /\ writer \in {"test", "block", "take"} => locked
    /\ writer \in {"off", "loop", "lock", "asleep", "drain", "done"} => ~locked
    /\ writer = "take" => stop \/ list # <<>>
    /\ before <= appended

\* The list holds the lines after the one Run took last.
ListFollows ==
    /\ content + Len(list) = appended
    /\ \A i \in DOMAIN list : list[i] = content + i

\* Each line once; or once again the line that Run held when Stop found the list empty.
EachOnce == \A i \in DOMAIN out : out[i].line = i
OneRepeated ==
    /\ stop /\ content >= 1 /\ Len(out) > content
    /\ \A i \in DOMAIN out : out[i].line = IF i <= content THEN i ELSE i - 1

WrittenUpTo(l) ==
    \/ EachOnce /\ Len(out) = l
    \/ OneRepeated /\ Len(out) = l + 1

\* How far the file is, at each place of the writer.
Progress ==
    /\ writer \in {"off", "lock", "test", "block", "asleep", "take"} =>
          EachOnce /\ Len(out) = content
    /\ writer \in {"loop", "drain"} => WrittenUpTo(content)
    /\ writer \in Writing /\ ~locked =>
          /\ EachOnce /\ content >= 1
          /\ \/ Len(out) + 1 = content
             \/ Len(out) = content /\ stop
    /\ writer \in Writing /\ locked =>
          /\ Len(rest) \in 1..Len(list)
          /\ \A i \in DOMAIN rest : rest[i] = appended - Len(rest) + i
          /\ WrittenUpTo(appended - Len(rest))
    /\ writer = "done" => \E l \in before..MaxLines : WrittenUpTo(l)

\* m_nextChangeTime, the day of the open file and the clock.
DaysFit ==
    /\ writer = "put" => next >= 1
    /\ sec <= day
    /\ main = "open" => file = CLOSED
    /\ main \in {"spawn", "date"} /\ ~early => writer \notin {"roll", "put"} /\ file \in {CLOSED, sec}
    /\ main \notin {"open", "spawn", "date"} /\ ~early =>
          /\ next <= day + 1
          /\ writer = "roll" => (read = next /\ next <= day)
          /\ file # CLOSED => (file <= day /\ (writer # "roll" => next = file + 1))

\* The inductive invariant.
IInv == TypeOK /\ Phases /\ ListFollows /\ Progress /\ DaysFit

(***************************************************************************)
(* What an action that writes nothing keeps.                               *)
(***************************************************************************)
LEMMA OutKept ==
    ASSUME UNCHANGED <<out, content>>, stop => stop'
    PROVE  (EachOnce => EachOnce') /\ (OneRepeated => OneRepeated')
BY DEF EachOnce, OneRepeated

LEMMA ListKept ==
    ASSUME UNCHANGED <<list, content, appended>>
    PROVE  ListFollows => ListFollows'
BY DEF ListFollows

(***************************************************************************)
(* What the head of the list is, and what one more line in the file gives. *)
(***************************************************************************)
LEMMA HeadIsNext ==
    ASSUME TypeOK, ListFollows, list # <<>>
    PROVE  /\ Head(list) = content + 1 /\ Head(list) \in Lines
           /\ Tail(list) \in Seq(Lines) /\ Len(Tail(list)) = Len(list) - 1
           /\ \A i \in DOMAIN Tail(list) : Tail(list)[i] = content + 1 + i
<1>1. list \in Seq(Lines) /\ content \in Nat
    BY LinesAssumption DEF TypeOK, LinesAssumption
<1>2. Len(list) \in Nat \ {0} /\ DOMAIN list = 1..Len(list)
    BY <1>1, EmptySeq, LenProperties
<1>3. /\ Head(list) \in Lines
      /\ Tail(list) \in Seq(Lines) /\ Len(Tail(list)) = Len(list) - 1
      /\ \A i \in 1..Len(Tail(list)) : Tail(list)[i] = list[i + 1]
    BY <1>1, HeadTailProperties
<1>4. DOMAIN Tail(list) = 1..(Len(list) - 1)
    BY <1>3, LenProperties
<1>5. Head(list) = list[1]
    BY <1>1, <1>2
<1>6. \A i \in DOMAIN list : list[i] = content + i
    BY DEF ListFollows
<1>7. ASSUME NEW i \in DOMAIN Tail(list) PROVE Tail(list)[i] = content + 1 + i
    BY <1>1, <1>2, <1>3, <1>4, <1>6
<1>. QED
    BY <1>1, <1>2, <1>3, <1>5, <1>6, <1>7

LEMMA HeadOfRest ==
    ASSUME TypeOK, Len(rest) \in 1..Len(list),
           \A i \in DOMAIN rest : rest[i] = appended - Len(rest) + i
    PROVE  /\ Head(rest) = appended - Len(rest) + 1 /\ Head(rest) \in Lines
           /\ Tail(rest) \in Seq(Lines) /\ Len(Tail(rest)) = Len(rest) - 1
           /\ \A i \in DOMAIN Tail(rest) : Tail(rest)[i] = appended - Len(Tail(rest)) + i
<1>1. rest \in Seq(Lines) /\ list \in Seq(Lines) /\ appended \in Nat
    BY LinesAssumption DEF TypeOK, LinesAssumption
<1>2. Len(rest) \in Nat \ {0} /\ DOMAIN rest = 1..Len(rest)
    BY <1>1, LenProperties
<1>3. rest # <<>>
    BY <1>2, EmptySeq
<1>4. /\ Head(rest) \in Lines
      /\ Tail(rest) \in Seq(Lines) /\ Len(Tail(rest)) = Len(rest) - 1
      /\ \A i \in 1..Len(Tail(rest)) : Tail(rest)[i] = rest[i + 1]
    BY <1>1, <1>3, HeadTailProperties
<1>5. DOMAIN Tail(rest) = 1..(Len(rest) - 1)
    BY <1>4, LenProperties
<1>6. Head(rest) = rest[1]
    BY <1>1, <1>2
<1>7. ASSUME NEW i \in DOMAIN Tail(rest)
      PROVE  Tail(rest)[i] = appended - Len(Tail(rest)) + i
  <2>1. i \in Nat /\ i + 1 \in DOMAIN rest /\ Tail(rest)[i] = rest[i + 1]
    BY <1>2, <1>4, <1>5
  <2>. QED
    BY <1>1, <1>2, <1>4, <2>1
<1>. QED
    BY <1>1, <1>2, <1>4, <1>6, <1>7

LEMMA OneMoreLine ==
    ASSUME TypeOK, UNCHANGED <<content, stop>>, NEW l \in Lines, NEW to \in Nat \cup {CLOSED},
           out' = Append(out, [line |-> l, to |-> to])
    PROVE  /\ out' \in Seq([line : Lines, to : Nat \cup {CLOSED}])
           /\ Len(out) \in Nat /\ Len(out') = Len(out) + 1
           /\ EachOnce /\ l = Len(out) + 1 => EachOnce'
           /\ EachOnce /\ stop /\ Len(out) = content /\ l = content => OneRepeated'
           /\ OneRepeated /\ l = Len(out) => OneRepeated'
<1> DEFINE r == [line |-> l, to |-> to]
<1>1. out \in Seq([line : Lines, to : Nat \cup {CLOSED}]) /\ r \in [line : Lines, to : Nat \cup {CLOSED}]
    BY DEF TypeOK
<1>2. l \in Nat \ {0} /\ content \in Nat
    BY LinesAssumption DEF TypeOK, Lines, LinesAssumption
<1>3. /\ out' \in Seq([line : Lines, to : Nat \cup {CLOSED}])
      /\ Len(out') = Len(out) + 1
      /\ \A i \in 1..Len(out) : out'[i] = out[i]
      /\ out'[Len(out) + 1] = r
    BY <1>1, AppendProperties
<1>4. /\ Len(out) \in Nat /\ DOMAIN out = 1..Len(out)
      /\ DOMAIN out' = 1..(Len(out) + 1)
    BY <1>1, <1>3, LenProperties
<1>5. out'[Len(out) + 1].line = l
    BY <1>3
<1>6. \A i \in 1..Len(out) : out'[i].line = out[i].line
    BY <1>3
<1>7. \A i \in DOMAIN out' : i \in 1..Len(out) \/ i = Len(out) + 1
    BY <1>4
<1> HIDE DEF r
<1>8. EachOnce /\ l = Len(out) + 1 => EachOnce'
    BY <1>4, <1>5, <1>6, <1>7 DEF EachOnce
<1>9. EachOnce /\ stop /\ Len(out) = content /\ l = content => OneRepeated'
    BY <1>2, <1>3, <1>4, <1>5, <1>6, <1>7 DEF EachOnce, OneRepeated
<1>10. OneRepeated /\ l = Len(out) => OneRepeated'
    BY <1>2, <1>3, <1>4, <1>5, <1>6, <1>7 DEF OneRepeated
<1>. QED
    BY <1>3, <1>4, <1>8, <1>9, <1>10

LEMMA InitIInv == Init => IInv
<1> SUFFICES ASSUME Init PROVE IInv
    OBVIOUS
<1>1. TypeOK
<2>1. list \in Seq(Lines) /\ rest \in Seq(Lines) /\ out \in Seq([line : Lines, to : Nat \cup {CLOSED}])
    BY EmptySeq DEF Init
<2>2. /\ content \in 0..MaxLines /\ appended \in 0..MaxLines /\ before \in 0..MaxLines
      /\ day \in FirstDay..LastDay
    BY LinesAssumption, DaysAssumption DEF Init, LinesAssumption, DaysAssumption
<2>3. next \in Nat /\ read \in Nat /\ sec \in Nat /\ file \in Nat \cup {CLOSED}
    BY DEF Init
<2>. QED
    BY <2>1, <2>2, <2>3 DEF Init, TypeOK
<1>2. Phases /\ ListFollows
    BY DEF Init, Phases, ListFollows, Writing
<1>3. Progress
    BY DEF Init, Progress, EachOnce, Writing
<1>4. DaysFit
    BY DaysAssumption DEF Init, DaysFit, DaysAssumption
<1>. QED
    BY <1>1, <1>2, <1>3, <1>4 DEF IInv

(***************************************************************************)
(* The threads that log, and the clock.                                    *)
(***************************************************************************)
LEMMA AppendLogKeeps == IInv /\ AppendLog => IInv'
<1> SUFFICES ASSUME IInv, AppendLog PROVE IInv'
    OBVIOUS
<1> USE DEF IInv
<1>a. /\ appended + 1 \in Lines /\ appended' = appended + 1 /\ appended \in Nat
      /\ list \in Seq(Lines) /\ list' = Append(list, appended + 1)
    BY LinesAssumption DEF AppendLog, TypeOK, Lines, LinesAssumption
<1>b. /\ list' \in Seq(Lines) /\ Len(list') = Len(list) + 1
      /\ \A i \in 1..Len(list) : list'[i] = list[i]
      /\ list'[Len(list) + 1] = appended + 1
      /\ list' # <<>>
    BY <1>a, AppendProperties
<1>c. /\ Len(list) \in Nat /\ DOMAIN list = 1..Len(list)
      /\ DOMAIN list' = 1..(Len(list) + 1)
    BY <1>a, <1>b, LenProperties
<1>1. TypeOK'
    BY <1>a, <1>b, LinesAssumption DEF AppendLog, Notify, fileVars, TypeOK, LinesAssumption, Lines
<1>2. Phases'
    BY <1>a, <1>b DEF AppendLog, Notify, fileVars, TypeOK, Phases, Writing
<1>3. ListFollows'
  <2>1. content' = content /\ content \in Nat
    BY LinesAssumption DEF AppendLog, TypeOK, LinesAssumption
  <2>2. ASSUME NEW i \in DOMAIN list' PROVE list'[i] = content' + i
    <3>1. CASE i \in 1..Len(list)
        BY <1>b, <1>c, <2>1, <3>1 DEF ListFollows
    <3>2. CASE i = Len(list) + 1
        BY <1>a, <1>b, <1>c, <2>1, <3>2 DEF ListFollows
    <3>. QED
        BY <1>c, <3>1, <3>2
  <2>. QED
    BY <1>a, <1>b, <1>c, <2>1, <2>2 DEF ListFollows
<1>4. Progress'
    BY OutKept, <1>a DEF AppendLog, Notify, fileVars, TypeOK, Phases, Progress, WrittenUpTo, Writing
<1>5. DaysFit'
    BY DEF AppendLog, Notify, fileVars, TypeOK, Phases, DaysFit, Writing
<1>. QED
    BY <1>1, <1>2, <1>3, <1>4, <1>5

LEMMA MidnightKeeps == IInv /\ Midnight => IInv'
<1> SUFFICES ASSUME IInv, Midnight PROVE IInv'
    OBVIOUS
<1> USE DEF IInv
<1>1. TypeOK'
    BY LinesAssumption, DaysAssumption DEF Midnight, runVars, fileVars, otherVars, TypeOK, LinesAssumption, DaysAssumption
<1>2. Phases'
    BY DEF Midnight, runVars, fileVars, otherVars, TypeOK, Phases, Writing
<1>3. ListFollows'
    BY ListKept DEF Midnight, runVars, fileVars, otherVars
<1>4. Progress'
    BY OutKept DEF Midnight, runVars, fileVars, otherVars, TypeOK, Phases, Progress, WrittenUpTo, Writing
<1>5. DaysFit'
    BY DEF Midnight, runVars, fileVars, otherVars, TypeOK, Phases, DaysFit, Writing
<1>. QED
    BY <1>1, <1>2, <1>3, <1>4, <1>5

(***************************************************************************)
(* The main thread.                                                        *)
(***************************************************************************)
LEMMA StartOpenKeeps == IInv /\ StartOpen => IInv'
<1> SUFFICES ASSUME IInv, StartOpen PROVE IInv'
    OBVIOUS
<1> USE DEF IInv
<1>1. TypeOK'
    BY LinesAssumption, DaysAssumption DEF StartOpen, Opened, runVars, fileVars, otherVars, TypeOK, LinesAssumption, DaysAssumption
<1>2. Phases'
    BY DEF StartOpen, Opened, runVars, fileVars, otherVars, TypeOK, Phases, Writing
<1>3. ListFollows'
    BY ListKept DEF StartOpen, Opened, runVars, fileVars, otherVars
<1>4. Progress'
    BY OutKept DEF StartOpen, Opened, runVars, fileVars, otherVars, TypeOK, Phases, Progress, WrittenUpTo, Writing
<1>5. DaysFit'
    BY DEF StartOpen, Opened, runVars, fileVars, otherVars, TypeOK, Phases, DaysFit, Writing
<1>. QED
    BY <1>1, <1>2, <1>3, <1>4, <1>5

LEMMA StartSpawnKeeps == IInv /\ StartSpawn => IInv'
<1> SUFFICES ASSUME IInv, StartSpawn PROVE IInv'
    OBVIOUS
<1> USE DEF IInv
<1>1. TypeOK'
    BY LinesAssumption, DaysAssumption DEF StartSpawn, runVars, fileVars, otherVars, TypeOK, LinesAssumption, DaysAssumption
<1>2. Phases'
    BY DEF StartSpawn, runVars, fileVars, otherVars, TypeOK, Phases, Writing
<1>3. ListFollows'
    BY ListKept DEF StartSpawn, runVars, fileVars, otherVars
<1>4. Progress'
    BY OutKept DEF StartSpawn, runVars, fileVars, otherVars, TypeOK, Phases, Progress, WrittenUpTo, Writing
<1>5. DaysFit'
    BY DEF StartSpawn, runVars, fileVars, otherVars, TypeOK, Phases, DaysFit, Writing
<1>. QED
    BY <1>1, <1>2, <1>3, <1>4, <1>5

LEMMA StartDateKeeps == IInv /\ StartDate => IInv'
<1> SUFFICES ASSUME IInv, StartDate PROVE IInv'
    OBVIOUS
<1> USE DEF IInv
<1>1. TypeOK'
    BY LinesAssumption, DaysAssumption DEF StartDate, runVars, fileVars, otherVars, TypeOK, LinesAssumption, DaysAssumption
<1>2. Phases'
    BY DEF StartDate, runVars, fileVars, otherVars, TypeOK, Phases, Writing
<1>3. ListFollows'
    BY ListKept DEF StartDate, runVars, fileVars, otherVars
<1>4. Progress'
    BY OutKept DEF StartDate, runVars, fileVars, otherVars, TypeOK, Phases, Progress, WrittenUpTo, Writing
<1>5. DaysFit'
    BY DEF StartDate, runVars, fileVars, otherVars, TypeOK, Phases, DaysFit, Writing
<1>. QED
    BY <1>1, <1>2, <1>3, <1>4, <1>5

LEMMA StopKeeps == IInv /\ Stop => IInv'
<1> SUFFICES ASSUME IInv, Stop PROVE IInv'
    OBVIOUS
<1> USE DEF IInv
<1>1. TypeOK'
    BY LinesAssumption, DaysAssumption DEF Stop, runVars, fileVars, otherVars, TypeOK, LinesAssumption, DaysAssumption
<1>2. Phases'
    BY DEF Stop, runVars, fileVars, otherVars, TypeOK, Phases, Writing
<1>3. ListFollows'
    BY ListKept DEF Stop, runVars, fileVars, otherVars
<1>4. Progress'
    BY OutKept DEF Stop, runVars, fileVars, otherVars, TypeOK, Phases, Progress, WrittenUpTo, Writing
<1>5. DaysFit'
    BY DEF Stop, runVars, fileVars, otherVars, TypeOK, Phases, DaysFit, Writing
<1>. QED
    BY <1>1, <1>2, <1>3, <1>4, <1>5

LEMMA StopNotifyKeeps == IInv /\ StopNotify => IInv'
<1> SUFFICES ASSUME IInv, StopNotify PROVE IInv'
    OBVIOUS
<1> USE DEF IInv
<1>1. TypeOK'
    BY LinesAssumption, DaysAssumption DEF StopNotify, Notify, fileVars, TypeOK, LinesAssumption, DaysAssumption
<1>2. Phases'
    BY DEF StopNotify, Notify, fileVars, TypeOK, Phases, Writing
<1>3. ListFollows'
    BY ListKept DEF StopNotify, Notify, fileVars
<1>4. Progress'
    BY OutKept DEF StopNotify, Notify, fileVars, TypeOK, Phases, Progress, WrittenUpTo, Writing
<1>5. DaysFit'
    BY DEF StopNotify, Notify, fileVars, TypeOK, Phases, DaysFit, Writing
<1>. QED
    BY <1>1, <1>2, <1>3, <1>4, <1>5

LEMMA JoinKeeps == IInv /\ Join => IInv'
<1> SUFFICES ASSUME IInv, Join PROVE IInv'
    OBVIOUS
<1> USE DEF IInv
<1>1. TypeOK'
    BY LinesAssumption, DaysAssumption DEF Join, runVars, fileVars, otherVars, TypeOK, LinesAssumption, DaysAssumption
<1>2. Phases'
    BY DEF Join, runVars, fileVars, otherVars, TypeOK, Phases, Writing
<1>3. ListFollows'
    BY ListKept DEF Join, runVars, fileVars, otherVars
<1>4. Progress'
    BY OutKept DEF Join, runVars, fileVars, otherVars, TypeOK, Phases, Progress, WrittenUpTo, Writing
<1>5. DaysFit'
    BY DEF Join, runVars, fileVars, otherVars, TypeOK, Phases, DaysFit, Writing
<1>. QED
    BY <1>1, <1>2, <1>3, <1>4, <1>5

(***************************************************************************)
(* The writer thread.                                                      *)
(***************************************************************************)
LEMMA RunLoopKeeps == IInv /\ RunLoop => IInv'
<1> SUFFICES ASSUME IInv, RunLoop PROVE IInv'
    OBVIOUS
<1> USE DEF IInv
<1>1. TypeOK'
    BY LinesAssumption, DaysAssumption DEF RunLoop, runVars, fileVars, otherVars, TypeOK, LinesAssumption, DaysAssumption
<1>2. Phases'
    BY DEF RunLoop, runVars, fileVars, otherVars, TypeOK, Phases, Writing
<1>3. ListFollows'
    BY ListKept DEF RunLoop, runVars, fileVars, otherVars
<1>4. Progress'
  <2>1. /\ WrittenUpTo(content) /\ out' = out /\ content' = content /\ stop' = stop
        /\ writer' = IF stop THEN "drain" ELSE "lock"
    BY DEF RunLoop, runVars, fileVars, otherVars, Progress
  <2>2. (EachOnce => EachOnce') /\ (OneRepeated => OneRepeated')
    BY <2>1, OutKept
  <2>3. CASE stop
    BY <2>1, <2>2, <2>3 DEF Progress, WrittenUpTo, Writing
  <2>4. CASE ~stop
    BY <2>1, <2>2, <2>4 DEF Progress, WrittenUpTo, Writing, OneRepeated
  <2>. QED
    BY <2>3, <2>4
<1>5. DaysFit'
    BY DEF RunLoop, runVars, fileVars, otherVars, TypeOK, Phases, DaysFit, Writing
<1>. QED
    BY <1>1, <1>2, <1>3, <1>4, <1>5

LEMMA RunLockKeeps == IInv /\ RunLock => IInv'
<1> SUFFICES ASSUME IInv, RunLock PROVE IInv'
    OBVIOUS
<1> USE DEF IInv
<1>1. TypeOK'
    BY LinesAssumption, DaysAssumption DEF RunLock, runVars, fileVars, otherVars, TypeOK, LinesAssumption, DaysAssumption
<1>2. Phases'
    BY DEF RunLock, runVars, fileVars, otherVars, TypeOK, Phases, Writing
<1>3. ListFollows'
    BY ListKept DEF RunLock, runVars, fileVars, otherVars
<1>4. Progress'
    BY OutKept DEF RunLock, runVars, fileVars, otherVars, TypeOK, Phases, Progress, WrittenUpTo, Writing
<1>5. DaysFit'
    BY DEF RunLock, runVars, fileVars, otherVars, TypeOK, Phases, DaysFit, Writing
<1>. QED
    BY <1>1, <1>2, <1>3, <1>4, <1>5

LEMMA WaitTestKeeps == IInv /\ WaitTest => IInv'
<1> SUFFICES ASSUME IInv, WaitTest PROVE IInv'
    OBVIOUS
<1> USE DEF IInv
<1>1. TypeOK'
    BY LinesAssumption, DaysAssumption DEF WaitTest, runVars, fileVars, otherVars, TypeOK, LinesAssumption, DaysAssumption
<1>2. Phases'
    BY DEF WaitTest, runVars, fileVars, otherVars, TypeOK, Phases, Writing
<1>3. ListFollows'
    BY ListKept DEF WaitTest, runVars, fileVars, otherVars
<1>4. Progress'
    BY OutKept DEF WaitTest, runVars, fileVars, otherVars, TypeOK, Phases, Progress, WrittenUpTo, Writing
<1>5. DaysFit'
    BY DEF WaitTest, runVars, fileVars, otherVars, TypeOK, Phases, DaysFit, Writing
<1>. QED
    BY <1>1, <1>2, <1>3, <1>4, <1>5

LEMMA WaitBlockKeeps == IInv /\ WaitBlock => IInv'
<1> SUFFICES ASSUME IInv, WaitBlock PROVE IInv'
    OBVIOUS
<1> USE DEF IInv
<1>1. TypeOK'
    BY LinesAssumption, DaysAssumption DEF WaitBlock, runVars, fileVars, otherVars, TypeOK, LinesAssumption, DaysAssumption
<1>2. Phases'
    BY DEF WaitBlock, runVars, fileVars, otherVars, TypeOK, Phases, Writing
<1>3. ListFollows'
    BY ListKept DEF WaitBlock, runVars, fileVars, otherVars
<1>4. Progress'
    BY OutKept DEF WaitBlock, runVars, fileVars, otherVars, TypeOK, Phases, Progress, WrittenUpTo, Writing
<1>5. DaysFit'
    BY DEF WaitBlock, runVars, fileVars, otherVars, TypeOK, Phases, DaysFit, Writing
<1>. QED
    BY <1>1, <1>2, <1>3, <1>4, <1>5

LEMMA WaitWakeKeeps == IInv /\ WaitWake => IInv'
<1> SUFFICES ASSUME IInv, WaitWake PROVE IInv'
    OBVIOUS
<1> USE DEF IInv
<1>1. TypeOK'
    BY LinesAssumption, DaysAssumption DEF WaitWake, runVars, fileVars, otherVars, TypeOK, LinesAssumption, DaysAssumption
<1>2. Phases'
    BY DEF WaitWake, runVars, fileVars, otherVars, TypeOK, Phases, Writing
<1>3. ListFollows'
    BY ListKept DEF WaitWake, runVars, fileVars, otherVars
<1>4. Progress'
    BY OutKept DEF WaitWake, runVars, fileVars, otherVars, TypeOK, Phases, Progress, WrittenUpTo, Writing
<1>5. DaysFit'
    BY DEF WaitWake, runVars, fileVars, otherVars, TypeOK, Phases, DaysFit, Writing
<1>. QED
    BY <1>1, <1>2, <1>3, <1>4, <1>5

LEMMA SpuriousWakeKeeps == IInv /\ SpuriousWake => IInv'
<1> SUFFICES ASSUME IInv, SpuriousWake PROVE IInv'
    OBVIOUS
<1> USE DEF IInv
<1>1. TypeOK'
    BY LinesAssumption, DaysAssumption DEF SpuriousWake, runVars, fileVars, otherVars, TypeOK, LinesAssumption, DaysAssumption
<1>2. Phases'
    BY DEF SpuriousWake, runVars, fileVars, otherVars, TypeOK, Phases, Writing
<1>3. ListFollows'
    BY ListKept DEF SpuriousWake, runVars, fileVars, otherVars
<1>4. Progress'
    BY OutKept DEF SpuriousWake, runVars, fileVars, otherVars, TypeOK, Phases, Progress, WrittenUpTo, Writing
<1>5. DaysFit'
    BY DEF SpuriousWake, runVars, fileVars, otherVars, TypeOK, Phases, DaysFit, Writing
<1>. QED
    BY <1>1, <1>2, <1>3, <1>4, <1>5

LEMMA RunTakeKeeps == IInv /\ RunTake => IInv'
<1> SUFFICES ASSUME IInv, RunTake PROVE IInv'
    OBVIOUS
<1> USE DEF IInv
<1>a. /\ content \in 0..MaxLines /\ content \in Nat /\ appended \in Nat
      /\ list \in Seq(Lines) /\ Len(list) \in Nat
      /\ out' = out /\ appended' = appended /\ stop' = stop
    BY LinesAssumption, LenProperties DEF RunTake, TypeOK, otherVars, fileVars, LinesAssumption
<1>b. EachOnce /\ EachOnce' /\ Len(out) = content
    BY <1>a DEF RunTake, Progress, EachOnce
<1>c. CASE list = <<>>
  <2>1. /\ content' = content /\ list' = list /\ stop
        /\ writer' = IF content = 0 THEN "loop" ELSE "write"
    BY <1>c DEF RunTake, Phases
  <2>2. TypeOK'
    BY <2>1 DEF RunTake, TypeOK, fileVars, otherVars
  <2>3. Phases'
    BY <2>1 DEF RunTake, TypeOK, Phases, Writing, fileVars, otherVars
  <2>4. ListFollows'
    BY <1>a, <2>1, ListKept
  <2>5. Progress'
    BY <1>a, <1>b, <2>1 DEF RunTake, Progress, WrittenUpTo, Writing
  <2>6. DaysFit'
    BY <2>1 DEF RunTake, TypeOK, DaysFit, fileVars, otherVars
  <2>. QED
    BY <2>2, <2>3, <2>4, <2>5, <2>6
<1>d. CASE list # <<>>
  <2>1. /\ content' = content + 1 /\ content' \in Lines
        /\ list' \in Seq(Lines) /\ Len(list') = Len(list) - 1
        /\ \A i \in DOMAIN list' : list'[i] = content' + i
    BY <1>d, HeadIsNext DEF RunTake
  <2>2. writer' = "write" /\ ~locked'
    BY <1>a, <1>d, <2>1 DEF RunTake
  <2>3. TypeOK'
    <3>1. content' \in 0..MaxLines
        BY <2>1, LinesAssumption DEF Lines, LinesAssumption
    <3>2. UNCHANGED <<woken, rest, otherVars, fileVars>> /\ locked' = FALSE
        BY DEF RunTake
    <3>. QED
        BY <2>1, <2>2, <3>1, <3>2 DEF TypeOK, fileVars, otherVars
  <2>4. Phases'
    BY <2>2 DEF RunTake, TypeOK, Phases, Writing, fileVars, otherVars
  <2>5. ListFollows'
    <3>1. content + Len(list) = appended
        BY DEF ListFollows
    <3>2. content' + Len(list') = appended'
        BY <1>a, <2>1, <3>1
    <3>. QED
        BY <2>1, <3>2 DEF ListFollows
  <2>6. Progress'
    BY <1>a, <1>b, <2>1, <2>2 DEF Progress, Writing
  <2>7. DaysFit'
    BY <2>2 DEF RunTake, TypeOK, DaysFit, fileVars, otherVars
  <2>. QED
    BY <2>3, <2>4, <2>5, <2>6, <2>7
<1>. QED
    BY <1>c, <1>d

LEMMA WriteFileCheckKeeps == IInv /\ WriteFileCheck => IInv'
<1> SUFFICES ASSUME IInv, WriteFileCheck PROVE IInv'
    OBVIOUS
<1> USE DEF IInv
<1>1. TypeOK'
    BY LinesAssumption, DaysAssumption DEF WriteFileCheck, runVars, fileVars, otherVars, TypeOK, LinesAssumption, DaysAssumption
<1>2. Phases'
    BY DEF WriteFileCheck, runVars, fileVars, otherVars, TypeOK, Phases, Writing
<1>3. ListFollows'
    BY ListKept DEF WriteFileCheck, runVars, fileVars, otherVars
<1>4. Progress'
    BY OutKept DEF WriteFileCheck, runVars, fileVars, otherVars, TypeOK, Phases, Progress, WrittenUpTo, Writing
<1>5. DaysFit'
  <2>1. /\ next \in Nat /\ read \in Nat /\ day \in Nat /\ sec \in Nat
        /\ day >= 1 /\ read' = next /\ writer = "write"
        /\ UNCHANGED <<main, day, sec, next, file>>
    BY DaysAssumption DEF WriteFileCheck, otherVars, TypeOK, DaysAssumption
  <2>2. /\ writer' = "put" => next > day
        /\ writer' = "roll" => next <= day
        /\ writer' \in {"roll", "put"}
    BY <2>1 DEF WriteFileCheck
  <2>4. early' <=> (early \/ main = "date")
    BY DEF WriteFileCheck
  <2>3. main # "spawn"
    BY <2>1 DEF Phases
  <2>. QED
    BY <2>1, <2>2, <2>3, <2>4 DEF DaysFit
<1>. QED
    BY <1>1, <1>2, <1>3, <1>4, <1>5

LEMMA WriteFileRollKeeps == IInv /\ WriteFileRoll => IInv'
<1> SUFFICES ASSUME IInv, WriteFileRoll PROVE IInv'
    OBVIOUS
<1> USE DEF IInv
<1>1. TypeOK'
    BY LinesAssumption, DaysAssumption DEF WriteFileRoll, Opened, runVars, fileVars, otherVars, TypeOK, LinesAssumption, DaysAssumption
<1>2. Phases'
    BY DEF WriteFileRoll, Opened, runVars, fileVars, otherVars, TypeOK, Phases, Writing
<1>3. ListFollows'
    BY ListKept DEF WriteFileRoll, Opened, runVars, fileVars, otherVars
<1>4. Progress'
    BY OutKept DEF WriteFileRoll, Opened, runVars, fileVars, otherVars, TypeOK, Phases, Progress, WrittenUpTo, Writing
<1>5. DaysFit'
  <2>1. /\ next \in Nat /\ read \in Nat /\ day \in Nat /\ sec \in Nat
        /\ UNCHANGED <<main, day, sec, read, early>>
        /\ writer = "roll" /\ writer' = "put"
        /\ file' \in {read, next, CLOSED} /\ next' \in {read + 1, next + 1}
    BY DaysAssumption DEF WriteFileRoll, Opened, otherVars, TypeOK, DaysAssumption
  <2>2. main \notin {"open", "spawn"} /\ (early' <=> early)
    BY <2>1 DEF Phases
  <2>3. main # "date" /\ ~early => read = next /\ next <= day
    BY <2>1, <2>2 DEF DaysFit
  <2>4. main = "date" => early
    BY <2>1 DEF DaysFit
  <2>5. main # "date" /\ ~early => next' = next + 1 /\ file' \in {next, CLOSED}
    BY <2>1, <2>3
  <2>6. next' >= 1 /\ sec <= day
    BY <2>1 DEF DaysFit
  <2>7. main' # "date" /\ ~early' =>
            next' <= day' + 1 /\ file' \in {next' - 1, CLOSED} /\ (file' # CLOSED => file' <= day')
    BY <2>1, <2>2, <2>3, <2>5
  <2>8. next' \in Nat /\ main' \notin {"open", "spawn"} /\ (main' = "date" => early') /\ sec' <= day'
    BY <2>1, <2>2, <2>4, <2>6
  <2>. QED
    BY <2>1, <2>6, <2>7, <2>8 DEF DaysFit
<1>. QED
    BY <1>1, <1>2, <1>3, <1>4, <1>5

LEMMA WriteFilePutKeeps == IInv /\ WriteFilePut => IInv'
<1> SUFFICES ASSUME IInv, WriteFilePut PROVE IInv'
    OBVIOUS
<1> USE DEF IInv
<1> DEFINE written == IF locked THEN Head(rest) ELSE content
<1>a. /\ content \in 0..MaxLines /\ content \in Nat /\ appended \in Nat /\ appended \in 0..MaxLines
      /\ before \in Nat /\ before <= appended /\ MaxLines \in Nat
      /\ rest \in Seq(Lines) /\ Len(rest) \in Nat /\ Len(list) \in Nat
      /\ UNCHANGED <<content, list, stop, main, day, sec, appended, before, next, read, early>>
      /\ writer = "put" /\ out' = Append(out, [line |-> written, to |-> file'])
    BY LinesAssumption, LenProperties DEF WriteFilePut, TypeOK, otherVars, LinesAssumption, Phases
<1>b. file' \in Nat \cup {CLOSED}
    BY DEF WriteFilePut, Opened, TypeOK, DaysFit
<1>c. written \in Lines
  <2>1. CASE locked
    BY <1>a, <2>1, HeadOfRest DEF Progress, Writing
  <2>2. CASE ~locked
    BY <1>a, <2>2 DEF Progress, Writing, Lines
  <2>. QED
    BY <2>1, <2>2
<1> HIDE DEF written
<1>d. /\ out' \in Seq([line : Lines, to : Nat \cup {CLOSED}])
      /\ Len(out) \in Nat /\ Len(out') = Len(out) + 1
      /\ EachOnce /\ written = Len(out) + 1 => EachOnce'
      /\ EachOnce /\ stop /\ Len(out) = content /\ written = content => OneRepeated'
      /\ OneRepeated /\ written = Len(out) => OneRepeated'
    BY <1>a, <1>b, <1>c, OneMoreLine
<1>3. ListFollows'
    BY <1>a, ListKept
<1>5. DaysFit'
  <2>1. /\ next \in Nat /\ day \in Nat /\ sec \in Nat
        /\ file' = file \/ (file = CLOSED /\ file' = next - 1)
        /\ writer' \in {"loop", "done", "write"}
    BY DaysAssumption DEF WriteFilePut, Opened, TypeOK, DaysAssumption
  <2>2. /\ main \notin {"open", "spawn"}
        /\ next' = next /\ day' = day /\ sec' = sec /\ main' = main /\ (early' <=> early)
        /\ writer = "put"
    BY <1>a DEF Phases
  <2>3. /\ next >= 1 /\ sec <= day /\ (main = "date" => early)
        /\ ~early /\ main # "date" =>
              next <= day + 1 /\ (file # CLOSED => file <= day /\ next = file + 1)
    BY <2>2 DEF DaysFit
  <2>4. ASSUME ~early, main # "date", file' # CLOSED PROVE file' <= day /\ next = file' + 1
    BY <2>1, <2>3, <2>4
  <2>. QED
    BY <2>1, <2>2, <2>3, <2>4 DEF DaysFit
<1>e. CASE locked
  <2>1. /\ written = appended - Len(rest) + 1 /\ rest' = Tail(rest)
        /\ rest' \in Seq(Lines) /\ Len(rest') = Len(rest) - 1
        /\ \A i \in DOMAIN rest' : rest'[i] = appended - Len(rest') + i
        /\ Len(rest) \in 1..Len(list) /\ stop
    BY <1>a, <1>e, HeadOfRest DEF WriteFilePut, Progress, Phases, Writing, written
  <2>2. /\ writer' = IF rest' = <<>> THEN "done" ELSE "write"
        /\ locked' <=> rest' # <<>>
    BY <1>e DEF WriteFilePut
  <2>3. WrittenUpTo(appended - Len(rest))
    BY <1>a, <1>e DEF Progress, Writing
  <2>4. \/ EachOnce' /\ Len(out') = appended - Len(rest')
        \/ OneRepeated' /\ Len(out') = appended - Len(rest') + 1
    <3>1. CASE EachOnce /\ Len(out) = appended - Len(rest)
        <4>1. EachOnce'
            BY <1>d, <2>1, <3>1
        <4>. QED
            BY <1>a, <1>d, <2>1, <3>1, <4>1
    <3>2. CASE OneRepeated /\ Len(out) = appended - Len(rest) + 1
        <4>1. OneRepeated'
            BY <1>d, <2>1, <3>2
        <4>. QED
            BY <1>a, <1>d, <2>1, <3>2, <4>1
    <3>. QED
        BY <2>3, <3>1, <3>2 DEF WrittenUpTo
  <2>5. TypeOK'
    <3>1. woken' = woken
        BY DEF WriteFilePut
    <3>. QED
        BY <1>a, <1>b, <1>d, <2>1, <2>2, <3>1 DEF TypeOK
  <2>6. Phases'
    BY <1>a, <2>1, <2>2 DEF WriteFilePut, TypeOK, Phases, Writing, otherVars
  <2>7. CASE rest' = <<>>
    <3>a. Len(rest') = 0
        BY <2>7, EmptySeq
    <3>1. Len(rest') = 0 /\ writer' = "done" /\ ~locked' /\ appended \in before..MaxLines
        BY <1>a, <2>2, <2>7, <3>a
    <3>2. \/ EachOnce' /\ Len(out') = appended
          \/ OneRepeated' /\ Len(out') = appended + 1
        BY <1>a, <2>4, <3>1
    <3>3. Progress'
        BY <1>a, <3>1, <3>2 DEF Progress, WrittenUpTo, Writing
    <3>. QED
        BY <1>3, <1>5, <2>5, <2>6, <3>3
  <2>8. CASE rest' # <<>>
    <3>1. Len(rest') \in Nat \ {0} /\ writer' = "write" /\ locked'
        BY <2>1, <2>2, <2>8, EmptySeq
    <3>2. Len(rest') \in 1..Len(list')
        BY <1>a, <2>1, <3>1
    <3>3. Progress'
        BY <1>a, <2>1, <2>4, <3>1, <3>2 DEF Progress, WrittenUpTo, Writing
    <3>. QED
        BY <1>3, <1>5, <2>5, <2>6, <3>3
  <2>. QED
    BY <2>7, <2>8
<1>f. CASE ~locked
  <2>1. written = content /\ rest' = rest /\ writer' = "loop" /\ locked' = FALSE
    BY <1>a, <1>f DEF WriteFilePut, written
  <2>2. EachOnce /\ content >= 1 /\ (Len(out) + 1 = content \/ (Len(out) = content /\ stop))
    BY <1>a, <1>f DEF Progress, Writing
  <2>3. \/ EachOnce' /\ Len(out') = content
        \/ OneRepeated' /\ Len(out') = content + 1
    BY <1>a, <1>d, <2>1, <2>2
  <2>4. TypeOK'
    BY <1>a, <1>b, <1>d, <2>1 DEF WriteFilePut, TypeOK, otherVars
  <2>5. Phases'
    BY <1>a, <2>1 DEF TypeOK, Phases, Writing
  <2>6. Progress'
    BY <1>a, <2>1, <2>3 DEF Progress, WrittenUpTo, Writing
  <2>. QED
    BY <1>3, <1>5, <2>4, <2>5, <2>6
<1>. QED
    BY <1>e, <1>f

LEMMA RunDrainKeeps == IInv /\ RunDrain => IInv'
<1> SUFFICES ASSUME IInv, RunDrain PROVE IInv'
    OBVIOUS
<1> USE DEF IInv
<1>1. TypeOK'
    BY LinesAssumption, DaysAssumption DEF RunDrain, runVars, fileVars, otherVars, TypeOK, LinesAssumption, DaysAssumption
<1>2. Phases'
    BY DEF RunDrain, runVars, fileVars, otherVars, TypeOK, Phases, Writing
<1>3. ListFollows'
    BY ListKept DEF RunDrain, runVars, fileVars, otherVars
<1>4. Progress'
  <2>1. /\ WrittenUpTo(content) /\ out' = out /\ content' = content /\ stop' = stop /\ stop
        /\ list' = list /\ rest' = list /\ appended' = appended /\ before' = before
        /\ before <= appended
    BY DEF RunDrain, runVars, fileVars, otherVars, Progress, Phases
  <2>2. (EachOnce => EachOnce') /\ (OneRepeated => OneRepeated')
    BY <2>1, OutKept
  <2>3. /\ list \in Seq(Lines) /\ Len(list) \in Nat /\ content \in Nat /\ appended \in 0..MaxLines
        /\ before \in Nat /\ MaxLines \in Nat /\ content + Len(list) = appended
    BY LenProperties, LinesAssumption DEF TypeOK, ListFollows, LinesAssumption
  <2>4. CASE list = <<>>
    <3>a. Len(list) = 0
        BY <2>4, EmptySeq
    <3>b. content = appended
        BY <2>3, <3>a
    <3>c. ~locked'
        BY <2>4 DEF RunDrain
    <3>1. writer' = "done" /\ ~locked' /\ content \in before..MaxLines
        BY <2>1, <2>3, <2>4, <3>b, <3>c DEF RunDrain
    <3>2. \/ EachOnce' /\ Len(out') = content
          \/ OneRepeated' /\ Len(out') = content + 1
        BY <2>1, <2>2 DEF WrittenUpTo
    <3>. QED
        BY <2>1, <3>1, <3>2 DEF Progress, WrittenUpTo, Writing
  <2>5. CASE list # <<>>
    <3>a. Len(list) \in Nat \ {0}
        BY <2>3, <2>5, EmptySeq
    <3>b. locked'
        BY <2>5 DEF RunDrain
    <3>1. writer' = "write" /\ locked' /\ Len(list) \in 1..Len(list)
        BY <2>5, <3>a, <3>b DEF RunDrain
    <3>2. \A i \in DOMAIN list : list[i] = content + i
        BY DEF ListFollows
    <3>3. content = appended - Len(list)
        BY <2>3
    <3>. QED
        BY <2>1, <2>2, <3>1, <3>2, <3>3 DEF Progress, WrittenUpTo, Writing
  <2>. QED
    BY <2>4, <2>5
<1>5. DaysFit'
    BY DEF RunDrain, runVars, fileVars, otherVars, TypeOK, Phases, DaysFit, Writing
<1>. QED
    BY <1>1, <1>2, <1>3, <1>4, <1>5

(***************************************************************************)
(* The invariant, and what follows from it.                                *)
(***************************************************************************)
\* Every reachable state has its threads, its list, its file and its days in step.
THEOREM Invariant == Spec => []IInv
<1>1. IInv /\ UNCHANGED vars => IInv'
  <2> SUFFICES ASSUME IInv, UNCHANGED vars PROVE IInv'
    OBVIOUS
  <2>1. TypeOK' /\ Phases' /\ ListFollows' /\ DaysFit'
    BY DEF IInv, vars, TypeOK, Phases, ListFollows, DaysFit
  <2>2. Progress'
    BY OutKept DEF IInv, vars, Progress, WrittenUpTo
  <2>. QED
    BY <2>1, <2>2 DEF IInv
<1>2. IInv /\ [Next]_vars => IInv'
    BY <1>1, AppendLogKeeps, MidnightKeeps, StartOpenKeeps, StartSpawnKeeps, StartDateKeeps, StopKeeps,
       StopNotifyKeeps, JoinKeeps, RunLoopKeeps, RunLockKeeps, WaitTestKeeps, WaitBlockKeeps,
       WaitWakeKeeps, SpuriousWakeKeeps, RunTakeKeeps, WriteFileCheckKeeps, WriteFileRollKeeps, WriteFilePutKeeps, RunDrainKeeps
    DEF Next, Starting, Writer
<1>. QED
    BY InitIInv, <1>2, PTL DEF Spec

\* LLog.cpp:26-123: every variable keeps its type; the lines at hand are lines that were
\* appended, and the clock of the writer never leaves the days.
THEOREM TypeCorrect == Spec => []TypeOK
<1>1. IInv => TypeOK
    BY DEF IInv
<1>. QED
    BY <1>1, Invariant, PTL

LEMMA OneOfTwo == IInv => EachOnce \/ OneRepeated
BY DEF IInv, TypeOK, Progress, WrittenUpTo, Writing

LEMMA IInvJoinFlushes == IInv => JoinFlushes
<1>1. ASSUME IInv, main = "joined", NEW j \in 1..before PROVE j \in Written
  <2>1. Len(out) \in Nat /\ DOMAIN out = 1..Len(out)
    BY <1>1, LenProperties DEF IInv, TypeOK
  <2>2. content \in Nat /\ before \in Nat /\ MaxLines \in Nat
    BY <1>1, LinesAssumption DEF IInv, TypeOK, LinesAssumption
  <2>3. PICK l \in before..MaxLines : WrittenUpTo(l)
    BY <1>1 DEF IInv, Phases, Progress
  <2>4. CASE EachOnce /\ Len(out) = l
    <3>1. j \in DOMAIN out /\ out[j].line = j
        BY <2>1, <2>2, <2>4 DEF EachOnce
    <3>. QED
        BY <3>1 DEF Written
  <2>5. CASE OneRepeated /\ Len(out) = l + 1
    <3>1. CASE j <= content
      <4>1. j \in DOMAIN out /\ out[j].line = j
        BY <2>1, <2>2, <2>5, <3>1 DEF OneRepeated
      <4>. QED
        BY <4>1 DEF Written
    <3>2. CASE j > content
      <4>1. j + 1 \in DOMAIN out /\ out[j + 1].line = j
        BY <2>1, <2>2, <2>5, <3>2 DEF OneRepeated
      <4>. QED
        BY <4>1 DEF Written
    <3>. QED
        BY <2>2, <3>1, <3>2
  <2>. QED
    BY <2>3, <2>4, <2>5 DEF WrittenUpTo
<1>. QED
    BY <1>1 DEF JoinFlushes

LEMMA IInvOutInOrder == IInv => OutInOrder
<1>1. ASSUME IInv PROVE OutInOrder
  <2>1. Len(out) \in Nat /\ DOMAIN out = 1..Len(out)
    BY <1>1, LenProperties DEF IInv, TypeOK
  <2>2. content \in Nat
    BY <1>1, LinesAssumption DEF IInv, TypeOK, LinesAssumption
  <2>3. out # <<>> => Len(out) >= 1
    BY <1>1, EmptySeq DEF IInv, TypeOK
  <2>4. CASE EachOnce
    BY <1>1, <2>1, <2>3, <2>4, IInvJoinFlushes DEF EachOnce, OutInOrder
  <2>5. CASE OneRepeated
    <3>1. out[1].line = 1
        BY <2>1, <2>2, <2>5 DEF OneRepeated
    <3>2. ASSUME NEW i \in 1..(Len(out) - 1)
          PROVE  out[i + 1].line \in {out[i].line, out[i].line + 1} /\ stop
        BY <2>1, <2>2, <2>5 DEF OneRepeated
    <3>3. ASSUME NEW i \in 1..(Len(out) - 2) PROVE out[i + 2].line # out[i].line
        BY <2>1, <2>2, <2>5 DEF OneRepeated
    <3>. QED
        BY <1>1, <3>1, <3>2, <3>3, IInvJoinFlushes DEF OutInOrder
  <2>. QED
    BY <1>1, <2>4, <2>5, OneOfTwo
<1>. QED
    BY <1>1

\* LLog.cpp:103-123: lines go out in the order of AppendLog, none is skipped, and a line
\* goes out twice at most, after Stop; when Join returns, what was logged before Stop is out.
THEOREM LinesInOrder == Spec => []OutInOrder
<1>1. IInv => OutInOrder
    BY IInvOutInOrder
<1>. QED
    BY <1>1, Invariant, PTL

\* LLog.cpp:52-64: once the start is over, m_nextChangeTime is the midnight that ends the
\* day of the open file, and no file is of a day to come.
THEOREM FilesAlwaysFollow == Spec => []FilesFollowDays
<1>1. IInv => FilesFollowDays
    BY DEF IInv, DaysFit, FilesFollowDays
<1>. QED
    BY <1>1, Invariant, PTL

(***************************************************************************)
(* A thread that logs.                                                     *)
(***************************************************************************)
Stream == INSTANCE LogStream

\* The thread's stream belongs to its innermost statement: within every other another has
\* begun.  Until one begins within it, the stream holds what that statement ought to log,
\* or else its level is off and nothing is kept for it.
StreamIsTheInnermost ==
    /\ \A i \in 1..(Len(open) - 1) : open[i].broken
    /\ open # <<>> /\ ~open[Len(open)].broken =>
          /\ haveWrite <=> open[Len(open)].on
          /\ haveWrite => stream = open[Len(open)].line

StreamInv ==
    /\ LinesAreWhole
    /\ StreamIsTheInnermost
    /\ timeStr[1] = currentTime

\* The three digits of the milliseconds, however the second was reached.
LEMMA SameDigits ==
  ASSUME NEW ms \in 0..999
  PROVE  Stream!CachedDigits(ms) = Stream!Digits(ms)
<1>1. ms < 100 => ms \div 100 = 0 /\ ms % 100 = ms
    OBVIOUS
<1>2. ms < 10 => ms \div 10 = 0
    OBVIOUS
<1>. QED
    BY <1>1, <1>2 DEF Stream!CachedDigits, Stream!Digits

LEMMA ThreeDigits ==
  ASSUME NEW ms \in Nat
  PROVE  Stream!Digits(ms) \in Seq(Int) /\ Len(Stream!Digits(ms)) = 3
<1>1. ms \div 100 \in Int
    OBVIOUS
<1>2. (ms % 100) \div 10 \in Int
    OBVIOUS
<1>3. ms % 10 \in Int
    OBVIOUS
<1>4. \A x, y, z \in Int : <<x, y, z>> \in Seq(Int) /\ Len(<<x, y, z>>) = 3
    OBVIOUS
<1>. QED
    BY <1>1, <1>2, <1>3, <1>4, Zenon DEF Stream!Digits

\* The head of a line shows the time at which its statement began.
LEMMA HeadIsRight ==
  ASSUME StreamTypeOK, timeStr[1] = currentTime, NEW t \in Times, Stream!GetCurrentTimeStr(t)
  PROVE  /\ timeStr' = <<Second(t)>> \o Stream!Digits(t[2])
         /\ timeStr' \in Seq(Int) /\ Len(timeStr') = 4
         /\ currentTime' = Second(t) /\ timeStr'[1] = currentTime'
<1>1. t[1] \in Nat /\ t[2] \in Nat /\ t[2] \in 0..999
    BY TimesAssumption DEF TimesAssumption
<1>2. Stream!Second(t) = Second(t) /\ Second(t) \in Nat
    BY <1>1 DEF Stream!Second, Second
<1>3. Stream!CachedDigits(t[2]) = Stream!Digits(t[2])
    BY <1>1, SameDigits
<1>4. timeStr' = <<Second(t)>> \o Stream!Digits(t[2]) /\ currentTime' = Second(t)
    BY <1>2, <1>3 DEF Stream!GetCurrentTimeStr
<1>5. Stream!Digits(t[2]) \in Seq(Int) /\ Len(Stream!Digits(t[2])) = 3
    BY <1>1, ThreeDigits, Zenon
<1>6. <<Second(t)>> \in Seq(Int) /\ Len(<<Second(t)>>) = 1
    BY <1>2
<1>7. /\ timeStr' \in Seq(Int) /\ Len(timeStr') = 1 + 3
      /\ timeStr'[1] = <<Second(t)>>[1]
  <2>1. \A a, b \in Seq(Int) :
           /\ a \o b \in Seq(Int) /\ Len(a \o b) = Len(a) + Len(b)
           /\ Len(a) = 1 => (a \o b)[1] = a[1]
      BY ConcatProperties
  <2>. HIDE DEF Second
  <2>. QED
      BY <1>4, <1>5, <1>6, <2>1
<1>. QED
    BY <1>4, <1>7

\* What is left without the last element.
LEMMA FrontOf ==
  ASSUME NEW S, NEW s \in Seq(S), s # <<>>
  PROVE  LET f == SubSeq(s, 1, Len(s) - 1)
         IN  f \in Seq(S) /\ Len(f) = Len(s) - 1 /\ \A i \in 1..(Len(s) - 1) : f[i] = s[i]
<1>1. Len(s) \in Nat \ {0} /\ \A i \in 1..(Len(s) - 1) : s[i] \in S
    OBVIOUS
<1>2. PICK n \in Nat : n = Len(s) - 1
  <2>1. \A k \in Nat \ {0} : \E n \in Nat : n = k - 1
    <3>. TAKE k \in Nat \ {0}
    <3>1. k - 1 \in Nat
        OBVIOUS
    <3>. QED
        BY <3>1, Zenon
  <2>. QED
      BY <1>1, <2>1, Zenon
<1>3. /\ SubSeq(s, 1, n) \in Seq(S)
      /\ Len(SubSeq(s, 1, n)) = IF 1 <= n THEN n - 1 + 1 ELSE 0
      /\ \A i \in 1..(n - 1 + 1) : SubSeq(s, 1, n)[i] = s[1 + i - 1]
    BY <1>1, <1>2, SubSeqProperties
<1>4. Len(SubSeq(s, 1, n)) = n /\ \A i \in 1..n : SubSeq(s, 1, n)[i] = s[i]
    BY <1>3
<1>. QED
    BY <1>2, <1>3, <1>4, Zenon

\* A statement when another begins within it, and when it is given one operand more.
LEMMA Interrupted ==
  ASSUME NEW s \in Statements
  PROVE  [s EXCEPT !.broken = TRUE] \in Statements /\ [s EXCEPT !.broken = TRUE].broken
BY DEF Statements

LEMMA Lengthened ==
  ASSUME NEW s \in Statements, s.puts < MaxPuts
  PROVE  LET longer == [s EXCEPT !.line = Append(@, <<s.puts + 1>>), !.puts = @ + 1]
         IN  /\ longer \in Statements /\ longer.on = s.on /\ longer.broken = s.broken
             /\ longer.line = Append(s.line, <<s.puts + 1>>)
             /\ <<s.puts + 1>> \in Seq(Int) /\ s.line \in Seq(Seq(Int))
<1>1. /\ s.line \in Seq(Seq(Int)) /\ s.puts \in 0..MaxPuts /\ s.on \in BOOLEAN
      /\ s.broken \in BOOLEAN
    BY DEF Statements
<1>2. <<s.puts + 1>> \in Seq(Int) /\ s.puts + 1 \in 0..MaxPuts
    BY <1>1, StatementsAssumption DEF StatementsAssumption
<1>3. Append(s.line, <<s.puts + 1>>) \in Seq(Seq(Int))
    BY <1>1, <1>2, AppendProperties
<1>. QED
    BY <1>1, <1>2, <1>3 DEF Statements

LEMMA StreamStarts == Stream!Init => StreamInv
<1>. SUFFICES ASSUME Stream!Init PROVE StreamInv
    OBVIOUS
<1>1. /\ stream = <<>> /\ line = <<>> /\ due = <<>> /\ open = <<>>
      /\ loglevel \in Levels /\ haveWrite = TRUE /\ interrupted = FALSE
      /\ currentTime = 0 /\ timeStr = <<0, 0, 0, 0>>
    BY DEF Stream!Init
<1>2. /\ stream \in Seq(Seq(Int)) /\ line \in Seq(Seq(Int)) /\ due \in Seq(Seq(Int))
      /\ open \in Seq(Statements) /\ Len(open) = 0 /\ Len(open) <= MaxDepth
    BY <1>1, StatementsAssumption DEF StatementsAssumption
<1>3. timeStr \in Seq(Int) /\ Len(timeStr) = 4 /\ timeStr[1] = 0
    BY <1>1
<1>4. currentTime \in {0} \cup {Second(t) : t \in Times}
    BY <1>1
<1>5. haveWrite \in BOOLEAN /\ interrupted \in BOOLEAN
    BY <1>1
<1>6. StreamTypeOK
    BY <1>1, <1>2, <1>3, <1>4, <1>5, Zenon DEF StreamTypeOK
<1>7. StreamIsTheInnermost
    BY <1>1 DEF StreamIsTheInnermost
<1>. QED
    BY <1>1, <1>3, <1>6, <1>7 DEF StreamInv, LinesAreWhole

LEMMA StatementStarts ==
  ASSUME StreamInv, NEW level \in Levels, NEW t \in Times, Stream!LogPrint(level, t)
  PROVE  StreamInv'
<1>. DEFINE head == <<Second(t)>> \o Stream!Digits(t[2])
            now == [on |-> haveWrite', line |-> <<head>>, puts |-> 0, broken |-> FALSE]
            outer == [i \in DOMAIN open |-> [open[i] EXCEPT !.broken = TRUE]]
<1>1. /\ StreamTypeOK /\ StreamIsTheInnermost /\ timeStr[1] = currentTime
      /\ interrupted \/ line = due
    BY DEF StreamInv, LinesAreWhole
<1>2. /\ loglevel \in Levels /\ haveWrite \in BOOLEAN /\ interrupted \in BOOLEAN
      /\ stream \in Seq(Seq(Int)) /\ line \in Seq(Seq(Int)) /\ due \in Seq(Seq(Int))
      /\ currentTime \in {0} \cup {Second(s) : s \in Times}
      /\ timeStr \in Seq(Int) /\ Len(timeStr) = 4
      /\ open \in Seq(Statements)
    BY <1>1, Zenon DEF StreamTypeOK
<1>3. t[1] \in Nat /\ t[2] \in Nat /\ Stream!Second(t) = Second(t) /\ Second(t) \in Nat
    BY TimesAssumption DEF TimesAssumption, Stream!Second, Second
<1>4. head \in Seq(Int)
  <2>1. Stream!Digits(t[2]) \in Seq(Int)
    <3>. HIDE DEF head, now, outer
    <3>. QED
        BY <1>3, ThreeDigits
  <2>2. <<Second(t)>> \in Seq(Int)
      BY <1>3
  <2>3. \A a, b \in Seq(Int) : a \o b \in Seq(Int)
      BY ConcatProperties
  <2>. QED
      BY <2>1, <2>2, <2>3, Zenon
<1>5. haveWrite' \in BOOLEAN /\ open' = Append(outer, now) /\ Len(open) < MaxDepth
  <2>1. haveWrite' \in BOOLEAN
      BY DEF Stream!LogPrint
  <2>. QED
      BY <1>3, <2>1 DEF Stream!LogPrint
<1>6. now \in Statements /\ ~now.broken /\ now.on = haveWrite' /\ now.line = <<head>>
  <2>1. <<head>> \in Seq(Seq(Int)) /\ 0 \in 0..MaxPuts
      BY <1>4, StatementsAssumption DEF StatementsAssumption
  <2>. HIDE DEF head
  <2>. QED
      BY <1>5, <2>1 DEF Statements
<1>7. outer \in Seq(Statements) /\ Len(outer) = Len(open) /\ \A i \in 1..Len(open) : outer[i].broken
  <2>1. \A i \in 1..Len(open) : open[i] \in Statements
      BY <1>2
  <2>2. \A i \in 1..Len(open) :
           [open[i] EXCEPT !.broken = TRUE] \in Statements /\ [open[i] EXCEPT !.broken = TRUE].broken
      BY <2>1, Interrupted
  <2>3. outer = [i \in 1..Len(open) |-> [open[i] EXCEPT !.broken = TRUE]] /\ Len(open) \in Nat
      BY <1>2
  <2>4. outer \in [1..Len(open) -> Statements]
      BY <2>2, <2>3
  <2>. HIDE DEF outer
  <2>5. outer \in Seq(Statements) /\ Len(outer) = Len(open)
      BY <2>3, <2>4
  <2>. QED
      BY <2>2, <2>3, <2>5
<1>. HIDE DEF head, now, outer
<1>8. /\ open' \in Seq(Statements) /\ Len(open') = Len(open) + 1
      /\ open'[Len(open')] = now /\ \A i \in 1..Len(open) : open'[i] = outer[i]
    BY <1>5, <1>6, <1>7, AppendProperties
<1>9. UNCHANGED <<loglevel, line, due, interrupted>>
    BY DEF Stream!LogPrint
<1>10. /\ timeStr' \in Seq(Int) /\ Len(timeStr') = 4 /\ timeStr'[1] = currentTime'
       /\ currentTime' \in {0} \cup {Second(s) : s \in Times} /\ stream' \in Seq(Seq(Int))
       /\ haveWrite' => stream' = <<head>>
  <2>1. CASE haveWrite'
    <3>1. Stream!GetCurrentTimeStr(t) /\ stream' = <<timeStr'>>
        BY <2>1 DEF Stream!LogPrint
    <3>2. /\ timeStr' = head /\ Len(timeStr') = 4
          /\ currentTime' = Second(t) /\ timeStr'[1] = currentTime'
        BY <1>1, <3>1, HeadIsRight DEF head
    <3>3. <<head>> \in Seq(Seq(Int))
        BY <1>4
    <3>. QED
        BY <1>4, <3>1, <3>2, <3>3, Zenon
  <2>2. CASE ~haveWrite'
    <3>1. UNCHANGED <<currentTime, timeStr, stream>>
        BY <2>2 DEF Stream!LogPrint
    <3>. QED
        BY <1>1, <1>2, <2>2, <3>1
  <2>. QED
      BY <2>1, <2>2
<1>11. StreamIsTheInnermost'
  <2>1. open'[Len(open')].on = haveWrite' /\ open'[Len(open')].line = <<head>>
      BY <1>6, <1>8
  <2>2. \A i \in 1..(Len(open') - 1) : open'[i].broken
    <3>1. Len(open) \in Nat
        BY <1>2
    <3>. QED
        BY <1>7, <1>8, <3>1
  <2>. QED
      BY <1>10, <2>1, <2>2, Zenon DEF StreamIsTheInnermost
<1>12. Len(open') <= MaxDepth
    BY <1>2, <1>5, <1>8, StatementsAssumption DEF StatementsAssumption
<1>13. loglevel' \in Levels /\ interrupted' \in BOOLEAN /\ line' \in Seq(Seq(Int))
       /\ due' \in Seq(Seq(Int)) /\ (interrupted' \/ line' = due')
    BY <1>1, <1>2, <1>9, Zenon
<1>14. StreamTypeOK'
    BY <1>5, <1>8, <1>10, <1>12, <1>13, Zenon DEF StreamTypeOK
<1>. QED
    BY <1>10, <1>11, <1>13, <1>14 DEF StreamInv, LinesAreWhole

LEMMA OperandIsPut ==
  ASSUME StreamInv, Stream!Put
  PROVE  StreamInv'
<1>. DEFINE n == Len(open)
            now == open[n]
            piece == <<now.puts + 1>>
            longer == [now EXCEPT !.line = Append(@, piece), !.puts = @ + 1]
            outer == SubSeq(open, 1, n - 1)
<1>1. /\ StreamTypeOK /\ StreamIsTheInnermost /\ timeStr[1] = currentTime
      /\ interrupted \/ line = due
    BY DEF StreamInv, LinesAreWhole
<1>2. open \in Seq(Statements) /\ stream \in Seq(Seq(Int)) /\ Len(open) <= MaxDepth
    BY <1>1, Zenon DEF StreamTypeOK
<1>3. /\ open # <<>> /\ now.puts < MaxPuts /\ open' = Append(outer, longer)
      /\ stream' = IF haveWrite THEN Append(stream, piece) ELSE stream
      /\ UNCHANGED <<loglevel, haveWrite, currentTime, timeStr, line, due, interrupted>>
    BY DEF Stream!Put, Stream!Last, Stream!Front
<1>4. n \in Nat \ {0} /\ now \in Statements /\ \A i \in 1..(n - 1) : open[i] \in Statements
    BY <1>2, <1>3
<1>5. /\ longer \in Statements /\ longer.on = now.on /\ longer.broken = now.broken
      /\ longer.line = Append(now.line, piece) /\ piece \in Seq(Int)
    BY <1>3, <1>4, Lengthened, Zenon
<1>6. /\ outer \in Seq(Statements) /\ Len(outer) = n - 1
      /\ \A i \in 1..(n - 1) : outer[i] = open[i]
    BY <1>2, <1>3, FrontOf
<1>. HIDE DEF now, piece, longer, outer
<1>7. /\ open' \in Seq(Statements) /\ Len(open') = n /\ open'[n] = longer
      /\ \A i \in 1..(n - 1) : open'[i] = open[i]
    BY <1>3, <1>4, <1>5, <1>6, AppendProperties
<1>8. stream' \in Seq(Seq(Int))
    BY <1>2, <1>3, <1>5, AppendProperties
<1>9. StreamIsTheInnermost'
  <2>1. /\ \A i \in 1..(n - 1) : open[i].broken
        /\ ~now.broken => (haveWrite <=> now.on) /\ (haveWrite => stream = now.line)
      BY <1>1, <1>3 DEF StreamIsTheInnermost, now
  <2>2. \A i \in 1..(Len(open') - 1) : open'[i].broken
      BY <1>4, <1>7, <2>1
  <2>3. ~longer.broken => (haveWrite' <=> longer.on) /\ (haveWrite' => stream' = longer.line)
      BY <1>3, <1>5, <2>1, Zenon
  <2>. QED
      BY <1>7, <2>2, <2>3, Zenon DEF StreamIsTheInnermost
<1>10. StreamTypeOK'
    BY <1>1, <1>2, <1>3, <1>7, <1>8, Zenon DEF StreamTypeOK
<1>. QED
    BY <1>1, <1>3, <1>9, <1>10, Zenon DEF StreamInv, LinesAreWhole

LEMMA StatementEnds ==
  ASSUME StreamInv, Stream!LogPrintEnds
  PROVE  StreamInv'
<1>. DEFINE n == Len(open)
            now == open[n]
<1>1. /\ StreamTypeOK /\ StreamIsTheInnermost /\ timeStr[1] = currentTime
    BY DEF StreamInv, LinesAreWhole
<1>2. open \in Seq(Statements) /\ stream \in Seq(Seq(Int)) /\ Len(open) <= MaxDepth
    BY <1>1, Zenon DEF StreamTypeOK
<1>3. /\ open # <<>>
      /\ line' = IF haveWrite THEN stream ELSE <<>>
      /\ due' = IF now.on THEN now.line ELSE <<>>
      /\ interrupted' = now.broken
      /\ open' = SubSeq(open, 1, n - 1)
      /\ UNCHANGED <<loglevel, haveWrite, stream, currentTime, timeStr>>
    BY DEF Stream!LogPrintEnds, Stream!Last, Stream!Front
<1>4. n \in Nat \ {0} /\ now \in Statements /\ \A i \in 1..(n - 1) : open[i] \in Statements
    BY <1>2, <1>3
<1>5. now.line \in Seq(Seq(Int)) /\ now.broken \in BOOLEAN /\ <<>> \in Seq(Seq(Int))
    BY <1>4 DEF Statements
<1>6. /\ open' \in Seq(Statements) /\ Len(open') = n - 1
      /\ \A i \in 1..(n - 1) : open'[i] = open[i]
    BY <1>2, <1>3, FrontOf
<1>7. /\ \A i \in 1..(n - 1) : open[i].broken
      /\ ~now.broken => (haveWrite <=> now.on) /\ (haveWrite => stream = now.line)
    BY <1>1, <1>3 DEF StreamIsTheInnermost
<1>8. line' \in Seq(Seq(Int)) /\ due' \in Seq(Seq(Int)) /\ interrupted' \in BOOLEAN
    BY <1>2, <1>3, <1>5, Zenon
<1>9. StreamIsTheInnermost'
  <2>1. \A i \in 1..(Len(open') - 1) : open'[i].broken
      BY <1>4, <1>6, <1>7
  <2>2. open' # <<>> => open'[Len(open')].broken
      BY <1>4, <1>6, <1>7
  <2>. QED
      BY <2>1, <2>2, Zenon DEF StreamIsTheInnermost
<1>. HIDE DEF now
<1>10. interrupted' \/ line' = due'
    BY <1>3, <1>7, Zenon
<1>11. Len(open') <= MaxDepth
    BY <1>2, <1>4, <1>6, StatementsAssumption DEF StatementsAssumption
<1>12. StreamTypeOK'
    BY <1>1, <1>3, <1>6, <1>8, <1>11, Zenon DEF StreamTypeOK
<1>. QED
    BY <1>1, <1>3, <1>9, <1>10, <1>12, Zenon DEF StreamInv, LinesAreWhole

\* LLog.cpp:147-153, 205-229: however statements nest, levels change and the time goes on,
\* a statement appends its own line with the time at which it began, or nothing if its
\* level is off, unless another has logged within it.
THEOREM LinesStayWhole == Stream!Spec => []LinesAreWhole
<1>1. StreamInv /\ [Stream!Next]_Stream!vars => StreamInv'
  <2>. SUFFICES ASSUME StreamInv, [Stream!Next]_Stream!vars PROVE StreamInv'
      OBVIOUS
  <2>1. CASE Stream!SetLogLevel
      BY <2>1 DEF Stream!SetLogLevel, StreamInv, LinesAreWhole, StreamIsTheInnermost, StreamTypeOK
  <2>2. CASE Stream!Put
      BY <2>2, OperandIsPut
  <2>3. CASE Stream!LogPrintEnds
      BY <2>3, StatementEnds
  <2>4. CASE \E level \in Levels \ {0}, t \in Times : Stream!LogPrint(level, t)
      BY <2>4, StatementStarts
  <2>5. CASE UNCHANGED Stream!vars
      BY <2>5 DEF Stream!vars, StreamInv, LinesAreWhole, StreamIsTheInnermost, StreamTypeOK
  <2>. QED
      BY <2>1, <2>2, <2>3, <2>4, <2>5 DEF Stream!Next
<1>2. StreamInv => LinesAreWhole
    BY DEF StreamInv
<1>. QED
    BY <1>1, <1>2, StreamStarts, PTL DEF Stream!Spec
================================================================================
