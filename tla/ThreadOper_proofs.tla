--------------------------- MODULE ThreadOper_proofs ---------------------------
(***************************************************************************)
(* For every number of items: what is pushed to a ThreadOper is handed out *)
(* or waits, and a worker that empties its batches gets every item once,   *)
(* in the order of Push.  And for every process that StartProcess starts:  *)
(* it is what its start is for.                                            *)
(***************************************************************************)
EXTENDS ThreadOper, ProcessState, TLAPS, SequenceTheorems

\* The ranks of one push more.
LEMMA NextRank ==
  ASSUME NEW n \in Nat, NEW m \in Nat, n < m
  PROVE  Append(Ranks(n), n + 1) = Ranks(n + 1)
<1>1. Ranks(n) \in Seq(1..m) /\ Ranks(n + 1) \in Seq(1..m) /\ n + 1 \in 1..m
  BY DEF Ranks
<1>2. Len(Ranks(n)) = n /\ Len(Ranks(n + 1)) = n + 1
  BY DEF Ranks
<1>3. \A i \in 1..(n + 1) : Append(Ranks(n), n + 1)[i] = Ranks(n + 1)[i]
  BY <1>1, <1>2, AppendProperties DEF Ranks
<1> QED BY <1>1, <1>2, <1>3, AppendProperties, SeqEqual

\* A push lands behind everything that was handed out or waits.
LEMMA PushFacts ==
  ASSUME NEW g \in Seq(Items), NEW w \in Seq(Items), NEW e \in Items
  PROVE  /\ Append(w, e) \in Seq(Items)
         /\ g \o Append(w, e) = Append(g \o w, e)
         /\ Range(Append(w, e)) = Range(w) \cup {e}
<1>1. <<e>> \in Seq(Items) /\ Append(w, e) = w \o <<e>>
  BY AppendIsConcat
<1>2. g \o w \in Seq(Items) /\ Append(g \o w, e) = (g \o w) \o <<e>>
  BY ConcatProperties, AppendIsConcat
<1>3. Range(<<e>>) = {e}
  BY DEF Range
<1>4. Range(w \o <<e>>) = Range(w) \cup {e}
  <2>1. \A s, t \in Seq(Items) : Range(s \o t) = Range(s) \cup Range(t)
    BY RangeConcatenation
  <2> QED BY <1>1, <1>3, <2>1
<1>5. g \o (w \o <<e>>) = (g \o w) \o <<e>>
  BY <1>1, ConcatAssociative
<1> QED BY <1>1, <1>2, <1>4, <1>5, AppendProperties

LEMMA InitIInv == Init => IInv
<1> SUFFICES ASSUME Init PROVE IInv
  OBVIOUS
<1>1. TypeOK
  <2>1. <<>> \in Seq(Items) /\ 0 \in 0..MaxItems
    BY ItemsAssumption, EmptySeq DEF ItemsAssumption
  <2>2. clears \in BOOLEAN /\ pushed \in 0..MaxItems
    BY <2>1 DEF Init
  <2> QED BY <2>1, <2>2, Zenon DEF Init, TypeOK
<1>2. Range(<<>>) = {} /\ 1..0 = {}
  BY DEF Range
<1>3. <<>> \in Seq(Items) /\ <<>> \o <<>> = <<>>
  BY EmptySeq, ConcatEmptySeq
<1>4. Ranks(0) = <<>>
  BY DEF Ranks
<1> QED BY <1>1, <1>2, <1>3, <1>4 DEF Init, IInv, HandedOutInOrder, BatchIsGiven

\* Push appends the next rank.
LEMMA PushIInv == IInv /\ Push => IInv'
<1> SUFFICES ASSUME IInv, Push PROVE IInv'
  OBVIOUS
<1> USE ItemsAssumption DEF ItemsAssumption
<1>1. /\ pushed \in Nat /\ pushed + 1 \in Items /\ pushed' = pushed + 1
      /\ wait' = Append(wait, pushed + 1) /\ pushed < MaxItems
      /\ UNCHANGED <<owner, worker, held, lost, m_stop, doing, clears, given>>
      /\ wait \in Seq(Items) /\ doing \in Seq(Items) /\ given \in Seq(Items)
  BY DEF IInv, TypeOK, Push, Items
<1>2. notified' \in BOOLEAN
  BY DEF Push, Notify, IInv, TypeOK
<1>3. /\ wait' \in Seq(Items)
      /\ given \o wait' = Append(given \o wait, pushed + 1)
      /\ Range(wait') = Range(wait) \cup {pushed + 1}
  BY <1>1, PushFacts
<1>4. TypeOK'
  BY <1>1, <1>2, <1>3 DEF IInv, TypeOK, Items
<1>5. (clears => given \o wait = Ranks(pushed))'
  <2> SUFFICES ASSUME clears PROVE given \o wait' = Ranks(pushed + 1)
    BY <1>1
  <2>1. given \o wait = Ranks(pushed)
    BY DEF IInv, HandedOutInOrder
  <2>2. MaxItems \in Nat /\ Append(Ranks(pushed), pushed + 1) = Ranks(pushed + 1)
    BY <1>1, NextRank
  <2> QED BY <1>3, <2>1, <2>2
<1>6. (Range(given) \cup Range(wait) = 1..pushed)'
  <2>1. 1..(pushed + 1) = (1..pushed) \cup {pushed + 1}
    BY <1>1
  <2> QED BY <1>1, <1>3, <2>1 DEF IInv, HandedOutInOrder
<1>7. BatchIsGiven'
  BY <1>1 DEF IInv, BatchIsGiven
<1>8. (owner = "new" => worker = "off")'
  BY <1>1 DEF IInv
<1> QED BY <1>4, <1>5, <1>6, <1>7, <1>8 DEF IInv, HandedOutInOrder

\* The end of Pop moves the waiting items to what was handed out.
LEMMA PopReturnIInv == IInv /\ PopReturn => IInv'
<1> SUFFICES ASSUME IInv, PopReturn PROVE IInv'
  OBVIOUS
<1>1. /\ given' = given \o doing' /\ worker = "return" /\ worker' = "work" /\ held' = FALSE
      /\ UNCHANGED <<notified, owner, lost, m_stop, clears, pushed>>
  BY DEF PopReturn, otherVars
<1>2. wait \in Seq(Items) /\ doing \in Seq(Items) /\ given \in Seq(Items)
  BY DEF IInv, TypeOK
<1>3. wait' \in Seq(Items) /\ doing' \in Seq(Items)
  BY <1>2 DEF PopReturn
<1>4. given' \in Seq(Items) /\ Range(given') = Range(given) \cup Range(doing')
  BY <1>1, <1>2, <1>3, ConcatProperties, RangeConcatenation
<1>5. TypeOK'
  BY <1>1, <1>3, <1>4 DEF IInv, TypeOK
<1>6. BatchIsGiven'
  BY <1>1, <1>4 DEF BatchIsGiven
<1>7. (Range(given) \cup Range(wait) = 1..pushed)'
  <2>1. Range(given) \cup Range(wait) = 1..pushed /\ Range(doing) \subseteq Range(given)
    BY DEF IInv, HandedOutInOrder, BatchIsGiven
  <2>2. CASE m_stop
    <3>1. wait' = wait /\ doing' = doing
      BY <2>2 DEF PopReturn
    <3> QED BY <1>1, <1>4, <2>1, <3>1
  <2>3. CASE ~m_stop
    <3>1. wait' = doing /\ doing' = wait
      BY <2>3 DEF PopReturn
    <3> QED BY <1>1, <1>4, <2>1, <3>1
  <2> QED BY <2>2, <2>3
<1>8. (clears => given \o wait = Ranks(pushed))'
  <2> SUFFICES ASSUME clears PROVE given' \o wait' = Ranks(pushed)
    BY <1>1
  <2>1. doing = <<>> /\ given \o wait = Ranks(pushed)
    BY <1>1 DEF IInv, HandedOutInOrder, BatchIsGiven
  <2>2. CASE m_stop
    <3>1. wait' = wait /\ doing' = <<>>
      BY <2>1, <2>2 DEF PopReturn
    <3>2. given' = given
      BY <1>1, <1>2, <3>1, ConcatEmptySeq
    <3> QED BY <2>1, <3>1, <3>2
  <2>3. CASE ~m_stop
    <3>1. wait' = <<>> /\ given' = given \o wait
      BY <1>1, <2>1, <2>3 DEF PopReturn
    <3>2. given' \o <<>> = given'
      BY <1>4, ConcatEmptySeq
    <3> QED BY <2>1, <3>1, <3>2
  <2> QED BY <2>2, <2>3
<1>9. (owner = "new" => worker = "off")'
  BY <1>1 DEF IInv
<1> QED BY <1>5, <1>6, <1>7, <1>8, <1>9 DEF IInv, HandedOutInOrder

\* No other step hands out or takes in an item.
LEMMA NextIInv == IInv /\ [Next]_vars => IInv'
<1> SUFFICES ASSUME IInv, [Next]_vars PROVE IInv'
  OBVIOUS
<1> USE DEF IInv, HandedOutInOrder, BatchIsGiven, TypeOK, popVars, otherVars
<1>1. CASE Push
  BY <1>1, PushIInv
<1>2. CASE PopReturn
  BY <1>2, PopReturnIInv
<1>3. CASE Start
  BY <1>3 DEF Start
<1>4. CASE Stop
  BY <1>4 DEF Stop
<1>5. CASE StopNotify
  BY <1>5 DEF StopNotify, Notify
<1>6. CASE Join
  BY <1>6 DEF Join
<1>7. CASE LoopRun
  BY <1>7 DEF LoopRun
<1>8. CASE PopLock
  BY <1>8 DEF PopLock
<1>9. CASE WaitTest
  BY <1>9 DEF WaitTest
<1>10. CASE WaitBlock
  BY <1>10 DEF WaitBlock
<1>11. CASE WaitWake
  BY <1>11 DEF WaitWake
<1>12. CASE SpuriousWake
  BY <1>12 DEF SpuriousWake
<1>13. CASE Work
  <2>1. /\ worker' = "loop" /\ doing' = (IF clears THEN <<>> ELSE doing)
        /\ UNCHANGED <<owner, lost, m_stop, clears, pushed, held, notified, wait, given>>
    BY <1>13 DEF Work
  <2>2. owner # "new"
    BY <1>13 DEF Work
  <2>3. TypeOK'
    BY <2>1, EmptySeq
  <2>4. BatchIsGiven'
    <3>1. Range(<<>>) = {}
      BY DEF Range
    <3> QED BY <2>1, <3>1
  <2> QED BY <2>1, <2>2, <2>3, <2>4
<1>14. CASE UNCHANGED vars
  BY <1>14 DEF vars
<1> QED
  BY <1>1, <1>2, <1>3, <1>4, <1>5, <1>6, <1>7, <1>8, <1>9, <1>10, <1>11, <1>12, <1>13, <1>14
  DEF Next, MainThread, Worker

\* Every variable keeps its kind, and with it the three invariants hold for ever.
THEOREM Invariant == Spec => []IInv
<1>1. Init => IInv
  BY InitIInv
<1>2. IInv /\ [Next]_vars => IInv'
  BY NextIInv
<1> QED BY <1>1, <1>2, PTL DEF Spec

\* ThreadOper.hpp:82-87: the lists hold items that were pushed, for every number of them.
THEOREM TypeCorrect == Spec => []TypeOK
<1>1. IInv => TypeOK
  BY DEF IInv
<1> QED BY <1>1, Invariant, PTL

\* ThreadOper.hpp:37-43, 72-80: no item is lost between the two lists, none overtakes
\* another, and a worker that empties its batches gets none twice.
THEOREM AlwaysHandedOutInOrder == Spec => []HandedOutInOrder
<1>1. IInv => HandedOutInOrder
  BY DEF IInv
<1> QED BY <1>1, Invariant, PTL

(***************************************************************************)
(* The start of a process.                                                 *)
(***************************************************************************)
Process == INSTANCE StartProcess

\* The arguments and the limits the process came with.
Given ==
    /\ limitsBefore \in [Resources -> Limits] /\ root \in BOOLEAN
    /\ stdoutFile \in Files /\ stderrFile \in Files

\* A hard limit as it was, and a limit that is used up to the hard one.
AsBefore(resource) == limits[resource] = limitsBefore[resource]
Used(resource) == limits[resource].cur = limits[resource].max

\* How far the limits have come; that of files is never unlimited.
LimitsFollow ==
    /\ limits["nofile"].max < Infinity
    /\ pc = "core" => AsBefore("nofile") /\ AsBefore("stack")
    /\ pc = "nofile" => Used("core") /\ AsBefore("nofile") /\ AsBefore("stack")
    /\ pc = "stack" => /\ Used("core") /\ Used("nofile") /\ AsBefore("stack")
                       /\ limits["nofile"].max = limitsBefore["nofile"].max
    /\ pc \notin {"core", "nofile", "stack"} =>
          /\ Used("core") /\ Used("nofile")
          /\ limits["nofile"].max # limitsBefore["nofile"].max =>
                 ~root /\ limits["nofile"].max = limitsBefore["stack"].max

\* A child leads no group until setsid makes it lead one; its own child is in that session.
DaemonFollows ==
    /\ pc = "setsid" => ~leader
    /\ pc = "fork again" => ownSession
    /\ pc \in {"stdin", "stdout", "stderr", "started"} => ownSession
    /\ pc = "ended" => forkFailed

\* What a descriptor is on once it has been switched.
SwitchedTo(file) == IF file \in openable THEN file ELSE FREE

\* The descriptors are switched one after the other, and no other is opened.
FilesFollow ==
    /\ files[3] = FREE
    /\ pc \in {"stdout", "stderr", "started"} => files[0] = SwitchedTo(Null)
    /\ pc \in {"stderr", "started"} => files[1] = SwitchedTo(stdoutFile)
    /\ pc = "started" => files[2] = SwitchedTo(stderrFile)

ProcessInv == ProcessTypeOK /\ Given /\ LimitsFollow /\ DaemonFollows /\ FilesFollow

-----------------------------------------------------------------------------
\* There is a lowest free descriptor where the fourth is free.
LEMMA LowestFreeIsFree ==
  ASSUME NEW f \in [0..3 -> {"terminal", FREE} \cup Files], f[3] = FREE
  PROVE  /\ Process!LowestFree(f) \in 0..3 /\ f[Process!LowestFree(f)] = FREE
         /\ \A g \in 0..3 : f[g] = FREE => Process!LowestFree(f) <= g
<1>. DEFINE Lowest(fd) == f[fd] = FREE /\ \A g \in 0..(fd - 1) : f[g] # FREE
<1>1. \E fd \in DOMAIN f : Lowest(fd)
  <2>1. f[0] = FREE => Lowest(0)
      OBVIOUS
  <2>2. f[0] # FREE /\ f[1] = FREE => Lowest(1)
      OBVIOUS
  <2>3. f[0] # FREE /\ f[1] # FREE /\ f[2] = FREE => Lowest(2)
      OBVIOUS
  <2>4. f[0] # FREE /\ f[1] # FREE /\ f[2] # FREE => Lowest(3)
      OBVIOUS
  <2>5. {0, 1, 2, 3} \subseteq DOMAIN f
      OBVIOUS
  <2>. HIDE DEF Lowest
  <2>. QED
      BY <2>1, <2>2, <2>3, <2>4, <2>5
<1>2. Process!LowestFree(f) \in DOMAIN f /\ Lowest(Process!LowestFree(f))
  <2>. HIDE DEF Lowest
  <2>1. Process!LowestFree(f) = CHOOSE fd \in DOMAIN f : Lowest(fd)
      BY DEF Process!LowestFree, Lowest
  <2>. QED
      BY <1>1, <2>1
<1>3. \A g \in 0..3 : f[g] = FREE => Process!LowestFree(f) <= g
  <2>. SUFFICES ASSUME NEW g \in 0..3, f[g] = FREE, ~(Process!LowestFree(f) <= g) PROVE FALSE
      OBVIOUS
  <2>1. Process!LowestFree(f) \in 0..3
      BY <1>2
  <2>2. g \in 0..(Process!LowestFree(f) - 1)
      BY <2>1
  <2>. QED
      BY <1>2, <2>2
<1>. QED
    BY <1>2, <1>3

\* SwitchFileTo changes its own descriptor and no other, whichever open returned.
LEMMA SwitchesOne ==
  ASSUME files \in [0..3 -> {"terminal", FREE} \cup Files], files[3] = FREE,
         NEW fd \in 0..2, NEW file \in Files, Process!SwitchFileTo(fd, file)
  PROVE  files' = [files EXCEPT ![fd] = SwitchedTo(file)]
<1>. DEFINE closed == [files EXCEPT ![fd] = FREE]
            tmpfd == Process!LowestFree(closed)
<1>1. closed \in [0..3 -> {"terminal", FREE} \cup Files] /\ closed[3] = FREE
    OBVIOUS
<1>2. tmpfd \in 0..3 /\ closed[tmpfd] = FREE
    BY <1>1, LowestFreeIsFree
<1>3. files' = IF file \notin openable THEN closed
               ELSE IF tmpfd = fd THEN [closed EXCEPT ![fd] = file]
               ELSE [closed EXCEPT ![fd] = file, ![tmpfd] = FREE]
    BY DEF Process!SwitchFileTo
<1>4. CASE file \notin openable
    BY <1>3, <1>4 DEF SwitchedTo
<1>5. CASE file \in openable /\ tmpfd = fd
  <2>1. [closed EXCEPT ![fd] = file] = [files EXCEPT ![fd] = file]
      OBVIOUS
  <2>. QED
      BY <1>3, <1>5, <2>1 DEF SwitchedTo
<1>6. CASE file \in openable /\ tmpfd # fd
  <2>. HIDE DEF tmpfd
  <2>1. files[tmpfd] = FREE
      BY <1>2, <1>6
  <2>2. [closed EXCEPT ![fd] = file, ![tmpfd] = FREE] = [files EXCEPT ![fd] = file]
      BY <1>2, <1>6, <2>1
  <2>. QED
      BY <1>3, <1>6, <2>2 DEF SwitchedTo
<1>. QED
    BY <1>4, <1>5, <1>6

LEMMA LimitParts ==
  ASSUME NEW l \in [Resources -> Limits], NEW r \in Resources
  PROVE  l[r].cur \in 0..Infinity /\ l[r].max \in 0..Infinity /\ l[r].cur <= l[r].max
BY DEF Limits

\* A limit that is set is a limit.
LEMMA SameIsLimit ==
  ASSUME NEW v \in 0..Infinity
  PROVE  Process!Same(v) \in Limits /\ Process!Same(v).cur = v /\ Process!Same(v).max = v
BY LimitsAssumption DEF LimitsAssumption, Limits, Process!Same

LEMMA RaisedIsRight ==
  ASSUME NEW resource \in Resources, NEW fallback \in Resources,
         limits \in [Resources -> Limits],
         limits' = Process!Raised(resource, fallback)
  PROVE  /\ limits' \in [Resources -> Limits]
         /\ \/ /\ Process!Allowed(resource, Infinity)
               /\ limits' = [limits EXCEPT ![resource] = Process!Same(Infinity)]
            \/ /\ ~Process!Allowed(resource, Infinity)
               /\ Process!Allowed(fallback, limits[resource].max)
               /\ limits' = [limits EXCEPT ![fallback] = Process!Same(limits[resource].max)]
            \/ /\ ~Process!Allowed(resource, Infinity)
               /\ ~Process!Allowed(fallback, limits[resource].max)
               /\ limits' = limits
<1>1. Process!Same(Infinity) \in Limits /\ Process!Same(limits[resource].max) \in Limits
    BY LimitsAssumption, SameIsLimit, LimitParts DEF LimitsAssumption
<1>. QED
    BY <1>1 DEF Process!Raised

LEMMA ProcessStarts == Process!Init => ProcessInv
<1>. SUFFICES ASSUME Process!Init PROVE ProcessInv
    OBVIOUS
<1>1. /\ pc = "core" /\ limits \in ShellLimits /\ limitsBefore = limits
      /\ files \in [0..3 -> {"terminal", FREE}] /\ files[3] = FREE
      /\ root \in BOOLEAN /\ leader \in BOOLEAN /\ ownSession = FALSE /\ forkFailed = FALSE
      /\ stdoutFile \in Files /\ stderrFile \in Files
    BY DEF Process!Init, Files, Process!Files, Null, Process!Null
<1>2. limits \in [Resources -> Limits] /\ limits["nofile"].max < Infinity
    BY <1>1, LimitsAssumption DEF LimitsAssumption
<1>3. files \in [0..3 -> {"terminal", FREE} \cup Files]
    BY <1>1
<1>4. ProcessTypeOK /\ Given
    BY <1>1, <1>2, <1>3 DEF ProcessTypeOK, Given
<1>5. LimitsFollow
    BY <1>1, <1>2 DEF LimitsFollow, AsBefore
<1>6. DaemonFollows /\ FilesFollow
    BY <1>1 DEF DaemonFollows, FilesFollow
<1>. QED
    BY <1>4, <1>5, <1>6 DEF ProcessInv

\* The three functions that raise a limit.
LEMMA LimitIsSet ==
  ASSUME ProcessInv,
         \/ Process!SetCoreFileUnlimit
         \/ Process!SetSocketFileSize
         \/ Process!SetProcessStackSize
  PROVE  ProcessInv'
<1>. DEFINE core == limits["core"]
            nofile == limits["nofile"]
            stack == limits["stack"]
<1>1. /\ limits \in [Resources -> Limits] /\ limitsBefore \in [Resources -> Limits]
      /\ nofile.max < Infinity /\ {"core", "nofile", "stack"} = Resources
      /\ files \in [0..3 -> {"terminal", FREE} \cup Files]
      /\ {leader, ownSession, forkFailed} \subseteq BOOLEAN /\ files[3] = FREE
    BY DEF ProcessInv, ProcessTypeOK, Given, LimitsFollow, FilesFollow, Resources
<1>2. /\ core.max \in 0..Infinity /\ nofile.max \in 0..Infinity /\ stack.max \in 0..Infinity
      /\ Infinity \in Nat /\ Infinity \in 0..Infinity
    BY <1>1, LimitParts, LimitsAssumption DEF LimitsAssumption
<1>3. UNCHANGED <<files, limitsBefore, root, openable, stdoutFile, stderrFile, leader,
                  ownSession, forkFailed>>
    BY DEF Process!SetCoreFileUnlimit, Process!SetSocketFileSize, Process!SetProcessStackSize,
           Process!surroundings, Process!daemonVars
<1>4. limits' \in [Resources -> Limits] /\ LimitsFollow' /\ pc' \in {"nofile", "stack", "fork"}
  <2>1. CASE Process!SetCoreFileUnlimit
    <3>1. /\ pc = "core" /\ pc' = "nofile" /\ limits' = Process!Raised("core", "core")
        BY <2>1 DEF Process!SetCoreFileUnlimit
    <3>2. AsBefore("nofile") /\ AsBefore("stack")
        BY <3>1 DEF ProcessInv, LimitsFollow
    <3>3. Process!Allowed("core", core.max)
        BY <1>2 DEF Process!Allowed
    <3>4. /\ limits' \in [Resources -> Limits]
          /\ \E v \in 0..Infinity : limits' = [limits EXCEPT !["core"] = Process!Same(v)]
        BY <1>1, <1>2, <3>1, <3>3, RaisedIsRight
    <3>5. PICK v \in 0..Infinity : limits' = [limits EXCEPT !["core"] = Process!Same(v)]
        BY <3>4
    <3>6. /\ limits'["core"] = Process!Same(v) /\ limits'["nofile"] = nofile
          /\ limits'["stack"] = stack
        BY <1>1, <3>5
    <3>7. limits'["core"].cur = limits'["core"].max
        BY <3>6, SameIsLimit
    <3>. QED
        BY <1>1, <1>3, <3>1, <3>2, <3>4, <3>6, <3>7 DEF LimitsFollow, AsBefore, Used
  <2>2. CASE Process!SetSocketFileSize
    <3>1. /\ pc = "nofile" /\ pc' = "stack" /\ limits' = Process!Raised("nofile", "nofile")
        BY <2>2 DEF Process!SetSocketFileSize
    <3>2. Used("core") /\ AsBefore("nofile") /\ AsBefore("stack")
        BY <3>1 DEF ProcessInv, LimitsFollow
    <3>3. Process!Allowed("nofile", nofile.max) /\ ~Process!Allowed("nofile", Infinity)
        BY <1>1, <1>2 DEF Process!Allowed
    <3>4. /\ limits' \in [Resources -> Limits]
          /\ limits' = [limits EXCEPT !["nofile"] = Process!Same(nofile.max)]
        BY <1>1, <3>1, <3>3, RaisedIsRight
    <3>5. /\ limits'["nofile"] = Process!Same(nofile.max) /\ limits'["core"] = core
          /\ limits'["stack"] = stack
        BY <1>1, <3>4
    <3>6. limits'["nofile"].cur = nofile.max /\ limits'["nofile"].max = nofile.max
        BY <1>2, <3>5, SameIsLimit
    <3>. QED
        BY <1>1, <1>3, <3>1, <3>2, <3>4, <3>5, <3>6 DEF LimitsFollow, AsBefore, Used
  <2>3. CASE Process!SetProcessStackSize
    <3>1. /\ pc = "stack" /\ pc' = "fork" /\ limits' = Process!Raised("stack", "nofile")
        BY <2>3 DEF Process!SetProcessStackSize
    <3>2. /\ Used("core") /\ Used("nofile") /\ AsBefore("stack")
          /\ nofile.max = limitsBefore["nofile"].max
        BY <3>1 DEF ProcessInv, LimitsFollow
    <3>3. /\ limits' \in [Resources -> Limits]
          /\ \/ limits' = limits
             \/ limits' = [limits EXCEPT !["stack"] = Process!Same(Infinity)]
             \/ /\ limits' = [limits EXCEPT !["nofile"] = Process!Same(stack.max)]
                /\ ~Process!Allowed("stack", Infinity)
                /\ Process!Allowed("nofile", stack.max)
        BY <1>1, <3>1, RaisedIsRight
    <3>4. CASE limits' = limits
        BY <1>1, <1>3, <3>1, <3>2, <3>3, <3>4 DEF LimitsFollow, Used
    <3>5. CASE limits' = [limits EXCEPT !["stack"] = Process!Same(Infinity)]
      <4>1. limits'["nofile"] = nofile /\ limits'["core"] = core
          BY <1>1, <3>5
      <4>. QED
          BY <1>1, <1>3, <3>1, <3>2, <3>3, <4>1 DEF LimitsFollow, Used
    <3>6. CASE /\ limits' = [limits EXCEPT !["nofile"] = Process!Same(stack.max)]
               /\ ~Process!Allowed("stack", Infinity)
               /\ Process!Allowed("nofile", stack.max)
      <4>1. limits'["nofile"] = Process!Same(stack.max) /\ limits'["core"] = core
          BY <1>1, <3>6
      <4>2. limits'["nofile"].cur = stack.max /\ limits'["nofile"].max = stack.max
          BY <1>2, <4>1, SameIsLimit
      <4>3. ~root /\ stack.max < Infinity
          BY <3>6 DEF Process!Allowed
      <4>4. stack.max = limitsBefore["stack"].max
          BY <3>2 DEF AsBefore
      <4>. QED
          BY <1>3, <3>1, <3>2, <3>3, <4>1, <4>2, <4>3, <4>4 DEF LimitsFollow, Used
    <3>. QED
        BY <3>3, <3>4, <3>5, <3>6
  <2>. QED
      BY <2>1, <2>2, <2>3
<1>5. ProcessTypeOK' /\ Given'
    BY <1>1, <1>3, <1>4 DEF ProcessInv, ProcessTypeOK, Given
<1>6. DaemonFollows' /\ FilesFollow'
    BY <1>1, <1>3, <1>4 DEF DaemonFollows, FilesFollow
<1>. QED
    BY <1>4, <1>5, <1>6 DEF ProcessInv

\* The two forks and setsid.
LEMMA DaemonStep ==
  ASSUME ProcessInv,
         Process!DaemonizeFork \/ Process!DaemonizeSetsid \/ Process!DaemonizeForkAgain
  PROVE  ProcessInv'
<1>1. /\ UNCHANGED <<limits, files, limitsBefore, root, openable, stdoutFile, stderrFile>>
      /\ pc \in {"fork", "setsid", "fork again"}
      /\ pc' \in {"setsid", "fork again", "stdin", "ended"}
    BY DEF Process!DaemonizeFork, Process!DaemonizeSetsid, Process!DaemonizeForkAgain,
           Process!Fork, Process!surroundings
<1>2. DaemonFollows' /\ {leader', ownSession', forkFailed'} \subseteq BOOLEAN
  <2>1. {leader, ownSession, forkFailed} \subseteq BOOLEAN /\ DaemonFollows
      BY DEF ProcessInv, ProcessTypeOK
  <2>2. CASE Process!DaemonizeFork
      BY <2>1, <2>2 DEF Process!DaemonizeFork, Process!Fork, DaemonFollows
  <2>3. CASE Process!DaemonizeSetsid
      BY <2>1, <2>3 DEF Process!DaemonizeSetsid, DaemonFollows
  <2>4. CASE Process!DaemonizeForkAgain
      BY <2>1, <2>4 DEF Process!DaemonizeForkAgain, Process!Fork, DaemonFollows
  <2>. QED
      BY <2>2, <2>3, <2>4
<1>3. ProcessTypeOK' /\ Given'
    BY <1>1, <1>2 DEF ProcessInv, ProcessTypeOK, Given
<1>4. LimitsFollow' /\ FilesFollow'
    BY <1>1 DEF ProcessInv, LimitsFollow, FilesFollow, AsBefore, Used
<1>. QED
    BY <1>2, <1>3, <1>4 DEF ProcessInv

\* The three standard descriptors, one after the other.
LEMMA DescriptorIsSwitched ==
  ASSUME ProcessInv, Process!SetStdFileDescription
  PROVE  ProcessInv'
<1>1. /\ UNCHANGED <<limits, limitsBefore, root, openable, stdoutFile, stderrFile, leader,
                     ownSession, forkFailed>>
      /\ pc \in {"stdin", "stdout", "stderr"} /\ pc' \in {"stdout", "stderr", "started"}
    BY DEF Process!SetStdFileDescription, Process!surroundings, Process!daemonVars
<1>2. /\ files \in [0..3 -> {"terminal", FREE} \cup Files] /\ FilesFollow
      /\ Null \in Files /\ stdoutFile \in Files /\ stderrFile \in Files
    BY DEF ProcessInv, ProcessTypeOK, Given, Files
<1>3. files[3] = FREE
    BY <1>2 DEF FilesFollow
<1>4. files' \in [0..3 -> {"terminal", FREE} \cup Files] /\ FilesFollow'
  <2>1. \A file : SwitchedTo(file)' = SwitchedTo(file)
      BY <1>1 DEF SwitchedTo
  <2>2. \A file \in Files : SwitchedTo(file) \in {FREE} \cup Files
      BY DEF SwitchedTo
  <2>3. CASE pc = "stdin" /\ Process!SwitchFileTo(0, Null) /\ pc' = "stdout"
    <3>1. files' = [files EXCEPT ![0] = SwitchedTo(Null)]
        BY <1>2, <1>3, <2>3, SwitchesOne
    <3>. QED
        BY <1>1, <1>2, <1>3, <2>2, <2>3, <3>1 DEF FilesFollow, SwitchedTo
  <2>4. CASE pc = "stdout" /\ Process!SwitchFileTo(1, stdoutFile) /\ pc' = "stderr"
    <3>1. files' = [files EXCEPT ![1] = SwitchedTo(stdoutFile)]
        BY <1>2, <1>3, <2>4, SwitchesOne
    <3>. QED
        BY <1>1, <1>2, <1>3, <2>2, <2>4, <3>1 DEF FilesFollow, SwitchedTo
  <2>5. CASE pc = "stderr" /\ Process!SwitchFileTo(2, stderrFile) /\ pc' = "started"
    <3>1. files' = [files EXCEPT ![2] = SwitchedTo(stderrFile)]
        BY <1>2, <1>3, <2>5, SwitchesOne
    <3>. QED
        BY <1>1, <1>2, <1>3, <2>2, <2>5, <3>1 DEF FilesFollow, SwitchedTo
  <2>. QED
      BY <2>3, <2>4, <2>5 DEF Process!SetStdFileDescription, Process!Null, Null
<1>5. ProcessTypeOK' /\ Given'
    BY <1>1, <1>4 DEF ProcessInv, ProcessTypeOK, Given
<1>6. LimitsFollow' /\ DaemonFollows'
    BY <1>1 DEF ProcessInv, LimitsFollow, DaemonFollows, AsBefore, Used
<1>. QED
    BY <1>4, <1>5, <1>6 DEF ProcessInv

LEMMA ProcessInvIsRight == ProcessInv => StartsRight
<1>. SUFFICES ASSUME ProcessInv PROVE StartsRight
    OBVIOUS
<1>1. ProcessTypeOK /\ LimitsFollow /\ DaemonFollows /\ FilesFollow
    BY DEF ProcessInv
<1>2. LimitsRaised
    BY <1>1 DEF LimitsFollow, LimitsRaised, Used
<1>3. StartsDetached
  <2>1. pc = "ended" => forkFailed
      BY <1>1 DEF DaemonFollows
  <2>. DEFINE wanted == [fd \in 0..3 |->
                 LET file == CASE fd = 0 -> Null [] fd = 1 -> stdoutFile [] fd = 2 -> stderrFile
                               [] OTHER -> FREE
                 IN  IF file \in openable THEN file ELSE FREE]
  <2>2. ASSUME pc = "started" PROVE ownSession /\ files = wanted
    <3>1. /\ files[0] = SwitchedTo(Null) /\ files[1] = SwitchedTo(stdoutFile)
          /\ files[2] = SwitchedTo(stderrFile) /\ files[3] = FREE
        BY <1>1, <2>2 DEF FilesFollow
    <3>2. /\ wanted[0] = SwitchedTo(Null) /\ wanted[1] = SwitchedTo(stdoutFile)
          /\ wanted[2] = SwitchedTo(stderrFile) /\ wanted[3] = FREE
        BY DEF SwitchedTo
    <3>3. \A fd \in 0..3 : files[fd] = wanted[fd]
      <4>. HIDE DEF wanted
      <4>1. \A fd \in 0..3 : fd \in {0, 1, 2, 3}
          OBVIOUS
      <4>. QED
          BY <3>1, <3>2, <4>1
    <3>4. files \in [0..3 -> {"terminal", FREE} \cup Files]
        BY <1>1 DEF ProcessTypeOK
    <3>5. wanted = [fd \in 0..3 |-> wanted[fd]] /\ files = [fd \in 0..3 |-> files[fd]]
        BY <3>4
    <3>6. ownSession
        BY <1>1, <2>2 DEF DaemonFollows
    <3>. HIDE DEF wanted
    <3>. QED
        BY <3>3, <3>5, <3>6
  <2>. QED
      BY <2>1, <2>2 DEF StartsDetached
<1>. QED
    BY <1>1, <1>2, <1>3 DEF StartsRight

\* Linux_StartProcess.hpp:26-110: whatever limits a process comes with, whichever of its
\* standard descriptors are closed and whichever files can be opened, when its start is over
\* it may use all the files it is allowed to, is in a session of its own and has its own
\* files; and a start that does not end so has failed to fork.
THEOREM ProcessesStartRight == Process!Spec => []StartsRight
<1>1. ProcessInv /\ [Process!Next]_Process!vars => ProcessInv'
  <2>. SUFFICES ASSUME ProcessInv, [Process!Next]_Process!vars PROVE ProcessInv'
      OBVIOUS
  <2>1. CASE Process!SetStdFileDescription
      BY <2>1, DescriptorIsSwitched
  <2>2. CASE \/ Process!SetCoreFileUnlimit
             \/ Process!SetSocketFileSize
             \/ Process!SetProcessStackSize
      BY <2>2, LimitIsSet
  <2>3. CASE Process!DaemonizeFork \/ Process!DaemonizeSetsid \/ Process!DaemonizeForkAgain
      BY <2>3, DaemonStep
  <2>4. CASE UNCHANGED Process!vars
      BY <2>4 DEF Process!vars, ProcessInv, ProcessTypeOK, Given, LimitsFollow, DaemonFollows,
                  FilesFollow, AsBefore, Used, SwitchedTo
  <2>. QED
      BY <2>1, <2>2, <2>3, <2>4 DEF Process!Next
<1>. QED
    BY <1>1, ProcessStarts, ProcessInvIsRight, PTL DEF Process!Spec
===============================================================================
