-------------------------- MODULE ApolloConfigClient --------------------------
(***************************************************************************)
(* ApolloConfigClient.cpp/.h: one io thread watches the namespaces of an   *)
(* appId and cluster.  A long-polling watch request carries the            *)
(* notification ids known so far; its reply names the namespaces that have *)
(* moved on, each is fetched by a request of its own, and the next watch   *)
(* goes out at once.  A failed watch is sent again by a timer, one per     *)
(* failure.  WaitGetAllConfigAndBeginWatching blocks the program until     *)
(* m_totalConfigs, which every successful load counts down, is 0.          *)
(*                                                                         *)
(* The content of a namespace is its notification id on the server; its    *)
(* kind says whether ParseConfig takes it.  Pairs of appId and cluster     *)
(* share nothing but m_totalConfigs: one is modelled.                      *)
(***************************************************************************)
EXTENDS ApolloState, SequencesExt

CONSTANT RequestMayThrow   \* request() may throw

vars == <<release, kind, namespaces, phase, m_totalConfigs, watch, asked, changed,
          failed, m_notificationId, fetches, loaded, missed>>

server == <<release, kind>>
watching == <<watch, asked, changed, failed>>
program == <<namespaces, phase>>

Ids == {-1} \cup 1..MaxRelease

NoReply == [id |-> 0, kind |-> "none"]
Error   == [id |-> 0, kind |-> "error"]

TypeOK ==
  /\ release \in [Namespaces -> 1..MaxRelease] /\ kind \in [Namespaces -> Kinds]
  /\ namespaces \subseteq Namespaces
  /\ phase \in {"setup", "waiting", "done"}
  /\ m_totalConfigs \in 0..Cardinality(Namespaces)
  /\ watch \in {"none", "posted", "asked", "answered", "timer", "ended"}
  /\ asked \in [Namespaces -> Ids]
  /\ DOMAIN changed \subseteq namespaces /\ \A n \in DOMAIN changed : changed[n] \in Ids
  /\ failed \in BOOLEAN
  /\ m_notificationId \in [Namespaces -> Ids]
  /\ fetches \in [Namespaces ->
                   Seq([id : 0..MaxRelease, kind : Kinds \cup {"none", "error"}])]
  /\ loaded \in [Namespaces -> 0..MaxRelease]
  /\ missed \subseteq namespaces

Init ==
  /\ release = [n \in Namespaces |-> 1] /\ kind \in [Namespaces -> Kinds]
  /\ namespaces = {} /\ phase = "setup" /\ m_totalConfigs = 0
  /\ watch = "none" /\ asked = [n \in Namespaces |-> -1] /\ changed = <<>>
  /\ failed = FALSE
  /\ m_notificationId = [n \in Namespaces |-> -1]
  /\ fetches = [n \in Namespaces |-> <<>>]
  /\ loaded = [n \in Namespaces |-> 0]
  /\ missed = {}

-----------------------------------------------------------------------------
(* The server and the network.                                             *)

Releases(n) ==
  /\ release[n] < MaxRelease                              \* bound
  /\ release' = [release EXCEPT ![n] = @ + 1]
  /\ \E q \in Kinds : kind' = [kind EXCEPT ![n] = q]
  /\ UNCHANGED <<program, m_totalConfigs, watching, m_notificationId, fetches, loaded,
                 missed>>

WatchReply(ids, err) ==
  /\ watch = "asked"
  /\ watch' = "answered" /\ changed' = ids /\ failed' = err
  /\ UNCHANGED <<server, program, m_totalConfigs, asked, m_notificationId, fetches,
                 loaded, missed>>

Moved == {n \in namespaces : release[n] # asked[n]}

\* 200, with the namespaces whose id is another one.
WatchAnswered == Moved # {} /\ WatchReply([n \in Moved |-> release[n]], FALSE)

\* 304: nothing moved for a minute.
WatchNoChange == Moved = {} /\ WatchReply(<<>>, FALSE)

\* An error, a time-out, another status or a reply that is no array.
WatchFails == WatchReply(<<>>, TRUE)

FetchReply(n, reply) ==
  /\ \E i \in DOMAIN fetches[n] : /\ fetches[n][i] = NoReply
                                  /\ fetches' = [fetches EXCEPT ![n][i] = reply]
  /\ UNCHANGED <<server, program, m_totalConfigs, watching, m_notificationId, loaded,
                 missed>>

FetchAnswered(n) == FetchReply(n, [id |-> release[n], kind |-> kind[n]])

FetchFails(n) == FetchReply(n, Error)

-----------------------------------------------------------------------------
(* The program's main thread.                                              *)

RegistConfig(n) ==
  /\ phase = "setup" /\ watch = "none" /\ n \notin namespaces
  /\ namespaces' = namespaces \cup {n}
  /\ UNCHANGED <<server, phase, m_totalConfigs, watching, m_notificationId, fetches,
                 loaded, missed>>

Post ==
  /\ phase = "setup" /\ watch = "none"
  /\ watch' = "posted"
  /\ UNCHANGED <<server, namespaces, asked, changed, failed, m_notificationId, fetches,
                 loaded, missed>>

BeginWatching == Post /\ UNCHANGED <<phase, m_totalConfigs>>

WaitGetAllConfigAndBeginWatching ==
  Post /\ phase' = "waiting" /\ m_totalConfigs' = Cardinality(namespaces)

\* compare_exchange succeeds.
WaitEnd ==
  /\ phase = "waiting" /\ m_totalConfigs = 0
  /\ phase' = "done"
  /\ UNCHANGED <<server, namespaces, m_totalConfigs, watching, m_notificationId, fetches,
                 loaded, missed>>

-----------------------------------------------------------------------------
(* The io thread.                                                          *)

\* The request goes out with the ids known, or request() throws and a timer is armed, or
\* the ids cannot be written as JSON, which is logged and ends the watch.
WatchConfig(ids) ==
  /\ IF namespaces = {} THEN watch' = "none" /\ UNCHANGED asked
     ELSE \/ watch' = "asked" /\ asked' = ids
          \/ RequestMayThrow /\ watch' = "timer" /\ UNCHANGED asked
          \/ watch' = "ended" /\ UNCHANGED asked
  /\ changed' = <<>> /\ failed' = FALSE

Posted ==
  /\ watch = "posted" /\ WatchConfig(m_notificationId)
  /\ UNCHANGED <<server, program, m_totalConfigs, m_notificationId, fetches, loaded,
                 missed>>

\* DelayExcute's handler.
TimerExpires ==
  /\ watch = "timer" /\ WatchConfig(m_notificationId)
  /\ UNCHANGED <<server, program, m_totalConfigs, m_notificationId, fetches, loaded,
                 missed>>

\* Mutant: the error is only logged.
OnWatchErrorLogged ==
  /\ watch = "answered" /\ failed
  /\ watch' = "none" /\ failed' = FALSE
  /\ UNCHANGED <<server, program, m_totalConfigs, asked, changed, m_notificationId,
                 fetches, loaded, missed>>

OnWatchError ==
  /\ watch = "answered" /\ failed
  /\ watch' = "timer" /\ failed' = FALSE
  /\ UNCHANGED <<server, program, m_totalConfigs, asked, changed, m_notificationId,
                 fetches, loaded, missed>>

\* Mutant: only the first namespace of the reply is fetched.
GetOneConfigsFirst(sent) ==
  /\ \E n \in sent : fetches' = [fetches EXCEPT ![n] = Append(@, NoReply)]
  /\ UNCHANGED missed

\* GetOneConfig of every namespace that moved; sent are those whose request() did not
\* throw, the others are logged and forgotten.
GetOneConfigs(sent) ==
  /\ fetches' = [n \in Namespaces |->
                   IF n \in sent THEN Append(fetches[n], NoReply) ELSE fetches[n]]
  /\ missed' = missed \cup (DOMAIN changed \ sent)

\* The ids are saved, the namespaces are asked for, and the next watch goes out.
OnWatchReply ==
  /\ watch = "answered" /\ ~failed
  /\ m_notificationId' = [n \in Namespaces |->
                            IF n \in DOMAIN changed THEN changed[n] ELSE m_notificationId[n]]
  /\ \E sent \in (IF RequestMayThrow THEN SUBSET DOMAIN changed ELSE {DOMAIN changed}) :
       GetOneConfigs(sent)
  /\ WatchConfig(m_notificationId')
  /\ UNCHANGED <<server, program, m_totalConfigs, loaded>>

\* Mutant: ParseConfig's success is not counted.
CountedNever == UNCHANGED m_totalConfigs

\* A successful load counts, whichever namespace it is of.
Counted == m_totalConfigs' = IF m_totalConfigs > 0 THEN m_totalConfigs - 1 ELSE 0

\* Request i of n is answered.  An error and a content that cannot be parsed are logged.
GetConfigCallBack(n) == \E i \in DOMAIN fetches[n] :
  LET reply == fetches[n][i]
  IN  /\ reply # NoReply
      /\ fetches' = [fetches EXCEPT ![n] = RemoveAt(@, i)]
      /\ \/ /\ reply.kind = "good"
            /\ loaded' = [loaded EXCEPT ![n] = reply.id]
            /\ Counted
            /\ missed' = IF reply.id < loaded[n] THEN missed \cup {n} ELSE missed
         \/ /\ reply.kind # "good"
            /\ missed' = missed \cup {n}
            /\ UNCHANGED <<loaded, m_totalConfigs>>
      /\ UNCHANGED <<server, program, watching, m_notificationId>>

Network == \/ WatchAnswered \/ WatchNoChange \/ WatchFails
           \/ \E n \in Namespaces : Releases(n) \/ FetchAnswered(n) \/ FetchFails(n)

Program == \/ BeginWatching \/ WaitGetAllConfigAndBeginWatching \/ WaitEnd
           \/ \E n \in Namespaces : RegistConfig(n)

IoThread == \/ Posted \/ TimerExpires \/ OnWatchError \/ OnWatchReply
            \/ \E n \in Namespaces : GetConfigCallBack(n)

Next == Network \/ Program \/ IoThread

(* The io thread and the waiting loop run; request() does not throw for     *)
(* ever.  A watch that is asked again and again is answered some time,      *)
(* though it may fail in between, and a fetch is answered or fails.         *)
Fairness ==
  /\ WF_vars(Posted) /\ SF_vars(TimerExpires /\ watch' = "asked") /\ WF_vars(WaitEnd)
  /\ WF_vars(OnWatchError \/ OnWatchReply) /\ SF_vars(WatchAnswered)
  /\ \A n \in Namespaces : /\ WF_vars(FetchAnswered(n) \/ FetchFails(n))
                           /\ WF_vars(GetConfigCallBack(n))

Spec == Init /\ [][Next]_vars /\ Fairness

-----------------------------------------------------------------------------
\* ApolloConfigClient.cpp:145-149, 176-208: whatever a watch ends in, the next one goes
\* out.  The one way out is lines 127-136: a request that cannot be written as JSON is
\* logged and neither sent nor tried again, and the watch of these namespaces is over.
KeepsWatching == watch # "none" /\ namespaces # {} ~> watch \in {"asked", "ended"}

\* An id that was saved though nothing of its namespace has been loaded or asked for: the
\* fetch was lost or refused, and it is not repeated before the next release.
FirstLoadLost(n) == m_notificationId[n] # -1 /\ loaded[n] = 0 /\ fetches[n] = <<>>

\* ApolloConfigClient.cpp:69-74: the program that waits goes on.  It waits for ever only
\* when the watch is over (lines 127-136), or for a namespace whose first load is lost:
\* its id is saved before its content has come (190-191), against lines 55 and 58.
WaitEnds == phase = "waiting" ~>
              phase = "done" \/ watch = "ended" \/ \E n \in namespaces : FirstLoadLost(n)

\* ApolloConfigClient.cpp:58: the wait ends when every configuration is loaded.
WaitLoadsAll == phase = "done" => \A n \in namespaces : loaded[n] > 0
=============================================================================
