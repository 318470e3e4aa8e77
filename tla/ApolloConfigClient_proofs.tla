----------------------- MODULE ApolloConfigClient_proofs -----------------------
(***************************************************************************)
(* For every finite set of namespaces and every number of releases: once   *)
(* no fetch of a namespace is under way, what it loaded is as new as the   *)
(* notification id that is saved for it, or the load was missed.           *)
(***************************************************************************)
EXTENDS ApolloConfigClient, TLAPS, SequenceTheorems, FiniteSetTheorems

Reply == [id : 0..MaxRelease, kind : Kinds \cup {"none", "error"}]

\* The ids a client knows are never ahead of the server, and only namespaces that are
\* registered are fetched.
IdsFollowReleases ==
  /\ \A n \in Namespaces : m_notificationId[n] <= release[n]
  /\ \A n \in DOMAIN changed : changed[n] <= release[n]
  /\ \A n \in Namespaces : DOMAIN fetches[n] # {} => n \in namespaces

\* A fetch that will bring content no older than the saved id, or will be missed.
Brings(n, fetch) ==
  fetch = NoReply \/ fetch.kind # "good" \/ fetch.id >= m_notificationId[n]

\* An id that is saved is missed, loaded or still to be brought.
LoadedOrComing ==
  \A n \in Namespaces :
    \/ n \in missed \/ loaded[n] >= m_notificationId[n]
    \/ \E i \in DOMAIN fetches[n] : Brings(n, fetches[n][i])

\* The inductive invariant.
IInv == TypeOK /\ IdsFollowReleases /\ LoadedOrComing

-----------------------------------------------------------------------------
\* What is left when one element is taken out.
LEMMA RemoveAtFacts ==
  ASSUME NEW S, NEW s \in Seq(S), NEW i \in DOMAIN s
  PROVE  /\ RemoveAt(s, i) \in Seq(S)
         /\ \A j \in DOMAIN s \ {i} : \E m \in DOMAIN RemoveAt(s, i) : RemoveAt(s, i)[m] = s[j]
<1> DEFINE n == Len(s)
           a == SubSeq(s, 1, i - 1)
           b == SubSeq(s, i + 1, n)
<1>1. n \in Nat /\ DOMAIN s = 1..n /\ i \in 1..n
  BY LenProperties
<1>2. \A j \in 1..n : s[j] \in S
  BY ElementOfSeq
<1>3. a \in Seq(S) /\ Len(a) = i - 1 /\ \A j \in 1..(i - 1) : a[j] = s[j]
  <2>1. 1 \in Int /\ i - 1 \in Int /\ \A j \in 1..(i - 1) : s[j] \in S
    BY <1>1, <1>2
  <2>2. /\ a \in Seq(S) /\ Len(a) = IF 1 <= i - 1 THEN i - 1 - 1 + 1 ELSE 0
        /\ \A j \in 1..(i - 1 - 1 + 1) : a[j] = s[1 + j - 1]
    BY <2>1, SubSeqProperties
  <2> QED BY <1>1, <2>2
<1>4. b \in Seq(S) /\ Len(b) = n - i /\ \A j \in 1..(n - i) : b[j] = s[i + j]
  <2>1. i + 1 \in Int /\ n \in Int /\ \A j \in (i + 1)..n : s[j] \in S
    BY <1>1, <1>2
  <2>2. /\ b \in Seq(S) /\ Len(b) = IF i + 1 <= n THEN n - (i + 1) + 1 ELSE 0
        /\ \A j \in 1..(n - (i + 1) + 1) : b[j] = s[(i + 1) + j - 1]
    BY <2>1, SubSeqProperties
  <2> QED BY <1>1, <2>2
<1> HIDE DEF a, b
<1>5. /\ a \o b \in Seq(S) /\ Len(a \o b) = n - 1 /\ DOMAIN (a \o b) = 1..(n - 1)
      /\ \A j \in 1..(i - 1) : (a \o b)[j] = s[j]
      /\ \A j \in i..(n - 1) : (a \o b)[j] = s[j + 1]
  <2>1. /\ a \o b \in Seq(S) /\ Len(a \o b) = Len(a) + Len(b)
        /\ \A j \in 1..(Len(a) + Len(b)) :
             (a \o b)[j] = IF j <= Len(a) THEN a[j] ELSE b[j - Len(a)]
    BY <1>3, <1>4, ConcatProperties
  <2>2. DOMAIN (a \o b) = 1..(n - 1) /\ Len(a \o b) = n - 1
    <3>1. Len(a \o b) = n - 1
      BY <1>1, <1>3, <1>4, <2>1
    <3>2. DOMAIN (a \o b) = 1..Len(a \o b)
      BY <2>1, LenProperties
    <3> QED BY <3>1, <3>2
  <2>3. ASSUME NEW j \in 1..(i - 1) PROVE (a \o b)[j] = s[j]
    BY <1>1, <1>3, <1>4, <2>1
  <2>4. ASSUME NEW j \in i..(n - 1) PROVE (a \o b)[j] = s[j + 1]
    <3>1. /\ j \in 1..(Len(a) + Len(b)) /\ ~(j <= Len(a)) /\ j - Len(a) = j - i + 1
          /\ j - i + 1 \in 1..(n - i) /\ i + (j - i + 1) = j + 1
      BY <1>1, <1>3, <1>4
    <3>2. (a \o b)[j] = b[j - i + 1]
      BY <2>1, <3>1
    <3> QED BY <1>4, <3>1, <3>2
  <2> QED BY <2>1, <2>2, <2>3, <2>4
<1>6. RemoveAt(s, i) = a \o b
  BY DEF RemoveAt, a, b
<1>7. ASSUME NEW j \in DOMAIN s \ {i} PROVE \E m \in DOMAIN (a \o b) : (a \o b)[m] = s[j]
  <2>1. CASE j < i
    <3>1. j \in 1..(n - 1) /\ j \in 1..(i - 1)
      BY <1>1, <2>1
    <3> QED BY <1>5, <3>1
  <2>2. CASE j > i
    <3>1. j - 1 \in 1..(n - 1) /\ j - 1 \in i..(n - 1) /\ (j - 1) + 1 = j
      BY <1>1, <2>2
    <3> QED BY <1>5, <3>1
  <2> QED BY <1>1, <2>1, <2>2
<1> QED BY <1>5, <1>6, <1>7

LEMMA InitIInv == Init => IInv
<1> SUFFICES ASSUME Init PROVE IInv
  OBVIOUS
<1> USE ApolloAssumption DEF ApolloAssumption
<1>1. TypeOK
  <2>1. fetches \in [Namespaces -> Seq(Reply)]
    BY EmptySeq DEF Init
  <2>2. m_totalConfigs \in 0..Cardinality(Namespaces)
    BY FS_CardinalityType DEF Init
  <2>3. DOMAIN changed = {}
    BY DEF Init
  <2>4. -1 \in Ids /\ 1 \in 1..MaxRelease /\ 0 \in 0..MaxRelease
    BY DEF Ids
  <2> QED BY <2>1, <2>2, <2>3, <2>4 DEF Init, TypeOK, Reply
<1>2. IdsFollowReleases
  <2>1. \A n \in Namespaces : DOMAIN fetches[n] = {} /\ m_notificationId[n] = -1 /\ release[n] = 1
    BY DEF Init
  <2>2. DOMAIN changed = {}
    BY DEF Init
  <2> QED BY <2>1, <2>2 DEF IdsFollowReleases
<1>3. LoadedOrComing
  BY DEF Init, LoadedOrComing
<1> QED BY <1>1, <1>2, <1>3 DEF IInv

LEMMA TypeFacts ==
  ASSUME IInv
  PROVE  /\ \A n \in Namespaces :
              /\ fetches[n] \in Seq(Reply) /\ DOMAIN fetches[n] = 1..Len(fetches[n])
              /\ Len(fetches[n]) \in Nat
              /\ \A i \in DOMAIN fetches[n] : fetches[n][i] \in Reply
              /\ release[n] \in 1..MaxRelease /\ release[n] \in Int
              /\ m_notificationId[n] \in Ids /\ m_notificationId[n] \in Int
              /\ loaded[n] \in 0..MaxRelease /\ loaded[n] \in Int
         /\ Ids \subseteq Int
<1> USE ApolloAssumption DEF ApolloAssumption
<1>1. Ids \subseteq Int
  BY DEF Ids
<1>2. ASSUME NEW n \in Namespaces
      PROVE  /\ fetches[n] \in Seq(Reply) /\ DOMAIN fetches[n] = 1..Len(fetches[n])
             /\ Len(fetches[n]) \in Nat
             /\ \A i \in DOMAIN fetches[n] : fetches[n][i] \in Reply
  <2>1. fetches[n] \in Seq(Reply)
    BY DEF IInv, TypeOK, Reply
  <2> QED BY <2>1, LenProperties, ElementOfSeq
<1>3. ASSUME NEW n \in Namespaces
      PROVE  /\ release[n] \in 1..MaxRelease /\ release[n] \in Int
             /\ m_notificationId[n] \in Ids /\ m_notificationId[n] \in Int
             /\ loaded[n] \in 0..MaxRelease /\ loaded[n] \in Int
  <2>1. release[n] \in 1..MaxRelease /\ m_notificationId[n] \in Ids /\ loaded[n] \in 0..MaxRelease
    BY DEF IInv, TypeOK
  <2>2. release[n] \in Int /\ loaded[n] \in Int
    BY <2>1
  <2>3. m_notificationId[n] \in Int
    BY <1>1, <2>1
  <2> QED BY <2>1, <2>2, <2>3
<1>4. ASSUME NEW n \in Namespaces
      PROVE  /\ fetches[n] \in Seq(Reply) /\ DOMAIN fetches[n] = 1..Len(fetches[n])
             /\ Len(fetches[n]) \in Nat
             /\ \A i \in DOMAIN fetches[n] : fetches[n][i] \in Reply
             /\ release[n] \in 1..MaxRelease /\ release[n] \in Int
             /\ m_notificationId[n] \in Ids /\ m_notificationId[n] \in Int
             /\ loaded[n] \in 0..MaxRelease /\ loaded[n] \in Int
  BY <1>2, <1>3, Zenon
<1> QED BY <1>1, <1>4, Zenon

\* The server moves a namespace on.
LEMMA ReleasesIInv == ASSUME IInv, NEW n \in Namespaces, Releases(n) PROVE IInv'
<1> USE ApolloAssumption DEF ApolloAssumption
<1>1. /\ release' = [release EXCEPT ![n] = @ + 1] /\ release[n] < MaxRelease
      /\ kind' \in [Namespaces -> Kinds]
      /\ UNCHANGED <<namespaces, phase, m_totalConfigs, watch, asked, changed, failed,
                     m_notificationId, fetches, loaded, missed>>
  BY DEF Releases, program, watching, IInv, TypeOK
<1>2. /\ release' \in [Namespaces -> 1..MaxRelease]
      /\ \A x \in Namespaces : release'[x] >= release[x] /\ release'[x] \in Int
  BY <1>1, TypeFacts DEF IInv, TypeOK
<1>3. TypeOK'
  BY <1>1, <1>2 DEF IInv, TypeOK
<1>4. IdsFollowReleases'
  <2>1. \A x \in DOMAIN changed : x \in Namespaces /\ changed[x] \in Int
    BY TypeFacts DEF IInv, TypeOK
  <2> QED BY <1>1, <1>2, <2>1, TypeFacts DEF IInv, IdsFollowReleases
<1>5. LoadedOrComing'
  BY <1>1 DEF IInv, LoadedOrComing, Brings
<1> QED BY <1>3, <1>4, <1>5 DEF IInv

\* A fetch is answered with what the server has now, or fails.
LEMMA FetchReplyIInv ==
  ASSUME IInv, NEW n \in Namespaces,
         NEW reply \in {Error, [id |-> release[n], kind |-> kind[n]]}, FetchReply(n, reply)
  PROVE  IInv'
<1>1. PICK i \in DOMAIN fetches[n] : /\ fetches[n][i] = NoReply
                                     /\ fetches' = [fetches EXCEPT ![n][i] = reply]
  BY DEF FetchReply
<1>2. UNCHANGED <<release, kind, namespaces, phase, m_totalConfigs, watch, asked, changed, failed,
                  m_notificationId, loaded, missed>>
  BY DEF FetchReply, server, program, watching
<1>3. reply \in Reply /\ Brings(n, reply)
  <2>1. CASE reply = Error
    BY <2>1, ApolloAssumption DEF Error, Reply, Brings, ApolloAssumption
  <2>2. CASE reply = [id |-> release[n], kind |-> kind[n]]
    <3>1. release[n] \in 0..MaxRelease /\ kind[n] \in Kinds /\ release[n] >= m_notificationId[n]
      BY TypeFacts DEF IInv, TypeOK, IdsFollowReleases
    <3> QED BY <2>2, <3>1 DEF Reply, Brings
  <2> QED BY <2>1, <2>2
<1>4. /\ fetches'[n] = [fetches[n] EXCEPT ![i] = reply]
      /\ \A x \in Namespaces \ {n} : fetches'[x] = fetches[x]
  BY <1>1 DEF IInv, TypeOK
<1>5. /\ fetches'[n] \in Seq(Reply) /\ DOMAIN fetches'[n] = DOMAIN fetches[n]
      /\ fetches'[n][i] = reply
      /\ \A j \in DOMAIN fetches[n] \ {i} : fetches'[n][j] = fetches[n][j]
  <2>1. fetches[n] \in Seq(Reply) /\ i \in 1..Len(fetches[n]) /\ DOMAIN fetches[n] = 1..Len(fetches[n])
    BY TypeFacts
  <2>2. [fetches[n] EXCEPT ![i] = reply] \in Seq(Reply)
    BY <1>3, <2>1, ExceptSeq
  <2> QED BY <1>4, <2>1, <2>2
<1>6. TypeOK'
  <2>1. fetches' \in [Namespaces -> Seq(Reply)]
    <3>1. \A x \in Namespaces : fetches'[x] \in Seq(Reply)
      BY <1>4, <1>5, TypeFacts
    <3>2. fetches' = [x \in Namespaces |-> fetches'[x]]
      BY <1>1 DEF IInv, TypeOK
    <3> QED BY <3>1, <3>2
  <2> QED BY <1>2, <2>1 DEF IInv, TypeOK, Reply
<1>7. IdsFollowReleases'
  BY <1>2, <1>4, <1>5 DEF IInv, IdsFollowReleases
<1>8. LoadedOrComing'
  <2>1. \A x \in Namespaces : \A j \in DOMAIN fetches[x] :
          Brings(x, fetches[x][j]) => j \in DOMAIN fetches'[x] /\ Brings(x, fetches'[x][j])
    BY <1>3, <1>4, <1>5
  <2>2. \A x, y : Brings(x, y)' <=> Brings(x, y)
    BY <1>2 DEF Brings
  <2> QED BY <1>2, <2>1, <2>2 DEF IInv, LoadedOrComing
<1> QED BY <1>6, <1>7, <1>8 DEF IInv

\* The program and the watch request touch neither ids nor fetches.
LEMMA OtherIInv ==
  ASSUME IInv,
         UNCHANGED <<release, kind, m_notificationId, fetches, loaded, missed>>,
         namespaces \subseteq namespaces', namespaces' \subseteq Namespaces,
         phase' \in {"setup", "waiting", "done"},
         m_totalConfigs' \in 0..Cardinality(Namespaces),
         watch' \in {"none", "posted", "asked", "answered", "timer", "ended"},
         asked' \in [Namespaces -> Ids], failed' \in BOOLEAN,
         DOMAIN changed' \subseteq namespaces',
         \A n \in DOMAIN changed' : changed'[n] \in Ids /\ changed'[n] <= release[n]
  PROVE  IInv'
<1>1. TypeOK'
  BY DEF IInv, TypeOK
<1>2. IdsFollowReleases'
  BY DEF IInv, IdsFollowReleases
<1>3. LoadedOrComing'
  BY DEF IInv, LoadedOrComing, Brings
<1> QED BY <1>1, <1>2, <1>3 DEF IInv

\* The answer of a watch request, with ids the server has.
LEMMA WatchReplyIInv ==
  ASSUME IInv, NEW ids, NEW err \in BOOLEAN, WatchReply(ids, err),
         DOMAIN ids \subseteq namespaces,
         \A n \in DOMAIN ids : ids[n] \in Ids /\ ids[n] <= release[n]
  PROVE  IInv'
<1>1. /\ watch' = "answered" /\ changed' = ids /\ failed' = err
      /\ UNCHANGED <<release, kind, namespaces, phase, m_totalConfigs, asked, m_notificationId,
                     fetches, loaded, missed>>
  BY DEF WatchReply, server, program
<1> QED BY <1>1, OtherIInv DEF IInv, TypeOK

LEMMA WatchAnsweredIInv == ASSUME IInv, WatchAnswered PROVE IInv'
<1> DEFINE ids == [n \in Moved |-> release[n]]
<1>1. WatchReply(ids, FALSE) /\ DOMAIN ids = Moved /\ Moved \subseteq namespaces
  BY DEF WatchAnswered, Moved
<1>2. \A n \in Moved : n \in Namespaces /\ ids[n] = release[n] /\ ids[n] \in Ids
  BY <1>1, TypeFacts DEF IInv, TypeOK, Ids
<1>3. \A n \in Moved : ids[n] <= release[n]
  BY <1>2, TypeFacts
<1> HIDE DEF ids
<1> QED BY <1>1, <1>2, <1>3, WatchReplyIInv

LEMMA WatchEmptyIInv == ASSUME IInv, WatchNoChange \/ WatchFails PROVE IInv'
<1>1. PICK err \in BOOLEAN : WatchReply(<<>>, err)
  BY DEF WatchNoChange, WatchFails
<1>2. DOMAIN <<>> = {}
  OBVIOUS
<1> QED BY <1>1, <1>2, WatchReplyIInv

LEMMA ProgramIInv == ASSUME IInv, Program PROVE IInv'
<1> USE DEF IInv, TypeOK, IdsFollowReleases
<1>1. CASE BeginWatching \/ WaitEnd \/ \E n \in Namespaces : RegistConfig(n)
  BY <1>1, OtherIInv DEF BeginWatching, Post, WaitEnd, RegistConfig, server, program, watching
<1>2. CASE WaitGetAllConfigAndBeginWatching
  <2>1. Cardinality(namespaces) \in 0..Cardinality(Namespaces)
    BY ApolloAssumption, FS_Subset, FS_CardinalityType DEF ApolloAssumption
  <2> QED BY <1>2, <2>1, OtherIInv DEF WaitGetAllConfigAndBeginWatching, Post, server
<1> QED BY <1>1, <1>2 DEF Program

\* Posted, TimerExpires and OnWatchError send the watch again or arm its timer.
LEMMA WatchAgainIInv == ASSUME IInv, Posted \/ TimerExpires \/ OnWatchError PROVE IInv'
<1>1. CASE Posted \/ TimerExpires
  <2>1. /\ watch' \in {"none", "asked", "timer", "ended"} /\ changed' = <<>> /\ failed' = FALSE
        /\ asked' \in {asked, m_notificationId}
        /\ UNCHANGED <<release, kind, namespaces, phase, m_totalConfigs, m_notificationId, fetches,
                       loaded, missed>>
    BY <1>1 DEF Posted, TimerExpires, WatchConfig, server, program
  <2>2. DOMAIN changed' = {}
    BY <2>1
  <2> QED BY <2>1, <2>2, OtherIInv DEF IInv, TypeOK
<1>2. CASE OnWatchError
  BY <1>2, OtherIInv DEF OnWatchError, server, program, IInv, TypeOK, IdsFollowReleases
<1> QED BY <1>1, <1>2

\* A reply saves the ids, fetches what moved on and sends the next watch.
LEMMA OnWatchReplyIInv == ASSUME IInv, OnWatchReply PROVE IInv'
<1>1. /\ m_notificationId' = [n \in Namespaces |->
                               IF n \in DOMAIN changed THEN changed[n] ELSE m_notificationId[n]]
      /\ WatchConfig(m_notificationId')
      /\ UNCHANGED <<release, kind, namespaces, phase, m_totalConfigs, loaded>>
  BY DEF OnWatchReply, server, program
<1>2. PICK sent \in SUBSET DOMAIN changed :
        /\ fetches' = [n \in Namespaces |->
                         IF n \in sent THEN Append(fetches[n], NoReply) ELSE fetches[n]]
        /\ missed' = missed \cup (DOMAIN changed \ sent)
  BY DEF OnWatchReply, GetOneConfigs
<1>3. m_notificationId' \in [Namespaces -> Ids]
  BY <1>1 DEF IInv, TypeOK
<1>4. /\ watch' \in {"none", "asked", "timer", "ended"} /\ asked' \in [Namespaces -> Ids]
      /\ failed' = FALSE /\ DOMAIN changed' = {}
  <2>1. /\ watch' \in {"none", "asked", "timer", "ended"} /\ failed' = FALSE /\ changed' = <<>>
        /\ asked' \in {asked, m_notificationId'}
    BY <1>1 DEF WatchConfig
  <2> QED BY <1>3, <2>1 DEF IInv, TypeOK
<1>5. DOMAIN changed \subseteq namespaces /\ namespaces \subseteq Namespaces
  BY DEF IInv, TypeOK
<1>6. ASSUME NEW n \in Namespaces
      PROVE  /\ fetches'[n] \in Seq(Reply)
             /\ \A i \in DOMAIN fetches[n] : i \in DOMAIN fetches'[n] /\ fetches'[n][i] = fetches[n][i]
             /\ n \in sent => \E i \in DOMAIN fetches'[n] : fetches'[n][i] = NoReply
             /\ n \notin sent => fetches'[n] = fetches[n]
  <2>1. NoReply \in Reply
    BY ApolloAssumption DEF NoReply, Reply, ApolloAssumption
  <2>2. /\ fetches[n] \in Seq(Reply) /\ DOMAIN fetches[n] = 1..Len(fetches[n])
        /\ Len(fetches[n]) \in Nat
    BY TypeFacts
  <2>3. CASE n \in sent
    <3> DEFINE m == Len(fetches[n])
    <3>1. fetches'[n] = Append(fetches[n], NoReply)
      BY <1>2, <2>3
    <3>2. /\ fetches'[n] \in Seq(Reply) /\ Len(fetches'[n]) = m + 1
          /\ \A i \in 1..m : fetches'[n][i] = fetches[n][i]
          /\ fetches'[n][m + 1] = NoReply
      BY <2>1, <2>2, <3>1, AppendProperties
    <3>3. DOMAIN fetches'[n] = 1..(m + 1)
      BY <3>2, LenProperties
    <3>4. m + 1 \in DOMAIN fetches'[n] /\ \A i \in 1..m : i \in DOMAIN fetches'[n]
      BY <2>2, <3>3
    <3> QED BY <2>2, <2>3, <3>2, <3>4
  <2>4. CASE n \notin sent
    BY <1>2, <2>2, <2>4
  <2> QED BY <2>3, <2>4
<1>7. TypeOK'
  <2>1. fetches' \in [Namespaces -> Seq(Reply)]
    BY <1>2, <1>6
  <2> QED BY <1>1, <1>2, <1>3, <1>4, <1>5, <2>1 DEF IInv, TypeOK, Reply
<1>8. IdsFollowReleases'
  <2>1. \A n \in Namespaces : m_notificationId'[n] <= release'[n]
    BY <1>1 DEF IInv, IdsFollowReleases
  <2>2. \A n \in Namespaces : DOMAIN fetches'[n] # {} => n \in namespaces'
    BY <1>1, <1>5, <1>6 DEF IInv, IdsFollowReleases
  <2> QED BY <1>4, <2>1, <2>2 DEF IdsFollowReleases
<1>9. LoadedOrComing'
  <2> SUFFICES ASSUME NEW n \in Namespaces, n \notin missed', ~(loaded'[n] >= m_notificationId'[n])
               PROVE  \E i \in DOMAIN fetches'[n] : Brings(n, fetches[n][i])'
    BY DEF LoadedOrComing
  <2>1. CASE n \in sent
    BY <1>6, <2>1 DEF Brings
  <2>2. CASE n \notin sent
    <3>1. n \notin DOMAIN changed /\ n \notin missed /\ m_notificationId'[n] = m_notificationId[n]
      BY <1>1, <1>2, <2>2
    <3>2. PICK i \in DOMAIN fetches[n] : Brings(n, fetches[n][i])
      BY <1>1, <3>1 DEF IInv, LoadedOrComing
    <3> QED BY <1>6, <3>1, <3>2 DEF Brings
  <2> QED BY <2>1, <2>2
<1> QED BY <1>7, <1>8, <1>9 DEF IInv

\* A fetch that is answered is loaded or missed; the other fetches remain.
LEMMA GetConfigCallBackIInv == ASSUME IInv, NEW n \in Namespaces, GetConfigCallBack(n) PROVE IInv'
<1>1. PICK i \in DOMAIN fetches[n] :
        LET reply == fetches[n][i]
        IN  /\ reply # NoReply
            /\ fetches' = [fetches EXCEPT ![n] = RemoveAt(@, i)]
            /\ \/ /\ reply.kind = "good"
                  /\ loaded' = [loaded EXCEPT ![n] = reply.id]
                  /\ Counted
                  /\ missed' = IF reply.id < loaded[n] THEN missed \cup {n} ELSE missed
               \/ /\ reply.kind # "good"
                  /\ missed' = missed \cup {n}
                  /\ UNCHANGED <<loaded, m_totalConfigs>>
            /\ UNCHANGED <<server, program, watching, m_notificationId>>
  BY DEF GetConfigCallBack
<1> DEFINE reply == fetches[n][i]
<1>2. /\ reply # NoReply /\ fetches' = [fetches EXCEPT ![n] = RemoveAt(@, i)]
      /\ UNCHANGED <<release, kind, namespaces, phase, watch, asked, changed, failed,
                     m_notificationId>>
  BY <1>1 DEF server, program, watching
<1>3. reply \in Reply /\ reply.id \in 0..MaxRelease /\ reply.id \in Int
  BY TypeFacts, ApolloAssumption DEF Reply, ApolloAssumption
<1>4. /\ fetches'[n] \in Seq(Reply)
      /\ \A j \in DOMAIN fetches[n] \ {i} :
           \E m \in DOMAIN fetches'[n] : fetches'[n][m] = fetches[n][j]
      /\ \A x \in Namespaces \ {n} : fetches'[x] = fetches[x]
      /\ fetches' \in [Namespaces -> Seq(Reply)]
  <2>1. fetches'[n] = RemoveAt(fetches[n], i) /\ \A x \in Namespaces \ {n} : fetches'[x] = fetches[x]
    BY <1>2 DEF IInv, TypeOK
  <2>2. /\ RemoveAt(fetches[n], i) \in Seq(Reply)
        /\ \A j \in DOMAIN fetches[n] \ {i} :
             \E m \in DOMAIN RemoveAt(fetches[n], i) : RemoveAt(fetches[n], i)[m] = fetches[n][j]
    BY TypeFacts, RemoveAtFacts
  <2>3. fetches' \in [Namespaces -> Seq(Reply)]
    BY <1>2, <2>2 DEF IInv, TypeOK, Reply
  <2> QED BY <2>1, <2>2, <2>3
<1>5. n \in namespaces
  BY DEF IInv, IdsFollowReleases
<1> HIDE DEF reply
<1>6. m_totalConfigs' \in 0..Cardinality(Namespaces)
  <2>1. m_totalConfigs \in 0..Cardinality(Namespaces) /\ Cardinality(Namespaces) \in Nat
    BY ApolloAssumption, FS_CardinalityType DEF IInv, TypeOK, ApolloAssumption
  <2>2. Counted \/ UNCHANGED m_totalConfigs
    BY <1>1
  <2> QED BY <2>1, <2>2 DEF Counted
<1>7. CASE /\ reply.kind = "good" /\ loaded' = [loaded EXCEPT ![n] = reply.id]
           /\ missed' = IF reply.id < loaded[n] THEN missed \cup {n} ELSE missed
  <2>1. TypeOK'
    BY <1>2, <1>3, <1>4, <1>5, <1>6, <1>7 DEF IInv, TypeOK, Reply
  <2>2. IdsFollowReleases'
    BY <1>2, <1>4, <1>5 DEF IInv, IdsFollowReleases
  <2>3. LoadedOrComing'
    <3> SUFFICES ASSUME NEW x \in Namespaces, x \notin missed',
                        ~(loaded'[x] >= m_notificationId[x])
                 PROVE  \E j \in DOMAIN fetches'[x] : Brings(x, fetches'[x][j])
      BY <1>2 DEF LoadedOrComing, Brings
    <3>1. x \notin missed
      BY <1>7
    <3>2. CASE x # n
      BY <1>4, <1>7, <3>1, <3>2 DEF IInv, TypeOK, LoadedOrComing
    <3>3. CASE x = n
      <4>1. loaded'[n] = reply.id /\ ~(reply.id < loaded[n])
        BY <1>7, <3>3 DEF IInv, TypeOK
      <4>2. ~(loaded[n] >= m_notificationId[n]) /\ ~(reply.id >= m_notificationId[n])
        BY <1>3, <3>3, <4>1, TypeFacts
      <4>3. PICK j \in DOMAIN fetches[n] : Brings(n, fetches[n][j])
        BY <3>1, <3>3, <4>2 DEF IInv, LoadedOrComing
      <4>4. j # i
        BY <1>2, <1>7, <4>2, <4>3 DEF Brings, reply
      <4> QED BY <1>4, <3>3, <4>3, <4>4
    <3> QED BY <3>2, <3>3
  <2> QED BY <2>1, <2>2, <2>3 DEF IInv
<1>8. CASE missed' = missed \cup {n} /\ UNCHANGED loaded
  <2>1. TypeOK'
    BY <1>2, <1>4, <1>5, <1>6, <1>8 DEF IInv, TypeOK, Reply
  <2>2. IdsFollowReleases'
    BY <1>2, <1>4, <1>5 DEF IInv, IdsFollowReleases
  <2>3. LoadedOrComing'
    BY <1>2, <1>4, <1>8 DEF IInv, LoadedOrComing, Brings
  <2> QED BY <2>1, <2>2, <2>3 DEF IInv
<1> QED BY <1>1, <1>7, <1>8 DEF reply

-----------------------------------------------------------------------------
LEMMA NextIInv == IInv /\ [Next]_vars => IInv'
<1> SUFFICES ASSUME IInv, [Next]_vars PROVE IInv'
  OBVIOUS
<1>1. CASE WatchAnswered \/ WatchNoChange \/ WatchFails
  BY <1>1, WatchAnsweredIInv, WatchEmptyIInv
<1>2. ASSUME NEW n \in Namespaces, Releases(n) PROVE IInv'
  BY <1>2, ReleasesIInv
<1>3. ASSUME NEW n \in Namespaces, FetchAnswered(n) \/ FetchFails(n) PROVE IInv'
  BY <1>3, FetchReplyIInv DEF FetchAnswered, FetchFails
<1>4. CASE Program
  BY <1>4, ProgramIInv
<1>5. CASE Posted \/ TimerExpires \/ OnWatchError
  BY <1>5, WatchAgainIInv
<1>6. CASE OnWatchReply
  BY <1>6, OnWatchReplyIInv
<1>7. ASSUME NEW n \in Namespaces, GetConfigCallBack(n) PROVE IInv'
  BY <1>7, GetConfigCallBackIInv
<1>8. CASE UNCHANGED vars
  BY <1>8 DEF vars, IInv, TypeOK, IdsFollowReleases, LoadedOrComing, Brings
<1> QED BY <1>1, <1>2, <1>3, <1>4, <1>5, <1>6, <1>7, <1>8 DEF Next, Network, IoThread

\* The inductive invariant holds in every state.
THEOREM Invariant == Spec => []IInv
<1>1. Init => IInv
  BY InitIInv
<1>2. IInv /\ [Next]_vars => IInv'
  BY NextIInv
<1> QED BY <1>1, <1>2, PTL DEF Spec

\* ApolloConfigClient.h: every variable keeps its kind, and what is counted down never
\* exceeds the number of namespaces.
THEOREM TypeCorrect == Spec => []TypeOK
<1>1. IInv => TypeOK
  BY DEF IInv
<1> QED BY <1>1, Invariant, PTL

\* ApolloConfigClient.cpp:190-191: an id saved before its content has come is loaded, or
\* a later one, when no fetch is under way, unless a load was missed.
THEOREM AlwaysLoadedOrMissed == Spec => []LoadedOrMissed
<1>1. IInv => LoadedOrMissed
  <2>1. DOMAIN <<>> = {}
    OBVIOUS
  <2> QED BY <2>1 DEF IInv, LoadedOrComing, LoadedOrMissed
<1> QED BY <1>1, Invariant, PTL
================================================================================
