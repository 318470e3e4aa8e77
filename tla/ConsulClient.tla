------------------------------ MODULE ConsulClient ------------------------------
(***************************************************************************)
(* ConsulClient.cpp/.h: one io thread keeps a configuration object per key *)
(* up to date with a Consul server.  Every key has a chain of requests:    *)
(* the handler of a reply sends the next (blocking) query, or, after a     *)
(* failure, arms m_timer to send a plain one m_retryTime seconds later.    *)
(* All keys share that one timer.  Handlers run one at a time.             *)
(*                                                                         *)
(* The content of a key is its ModifyIndex on the server (version); how    *)
(* the client takes it is its quality: "good", "refused" (ParseJsonConfig  *)
(* keeps the old data without throwing, as ConfigTest does) or "garbage"   *)
(* (the reply cannot be parsed or ParseJsonConfig throws).                 *)
(***************************************************************************)
EXTENDS Integers, Sequences, SequencesExt

CONSTANTS Keys,
          NULL,
          MaxVersion,      \* bound: the server changes a key so often
          Qualities,       \* the kinds of content the server may hold
          RequestMayThrow, \* request() may throw
          MayStop          \* the program calls Stop

ASSUME ConsulAssumption ==
  /\ MaxVersion \in Nat \ {0}
  /\ Qualities \subseteq {"good", "refused", "garbage"} /\ "good" \in Qualities
  /\ RequestMayThrow \in BOOLEAN /\ MayStop \in BOOLEAN
  /\ NULL \notin Keys

VARIABLES version, quality,  \* the server: index and kind of each key's content
          registered,        \* keys of m_configs
          posted,            \* Init has posted GetKeyValueJson_All: "no", "yes", "run"
          requests,          \* requests in flight of each key, oldest first
          timer,             \* the key m_timer will retry, NULL when not armed
          due,               \* keys whose retry handler is queued in m_ioservice
          modifyIndex,       \* m_modifyIndex of each key, 0 for ""
          applied,           \* version of the data each object holds, 0 for none
          refused,           \* history: the version it refused since, 0 for none
          lost,              \* history: keys whose chain the code let go
          stopped            \* m_ioservice was stopped

vars == <<version, quality, registered, posted, requests, timer, due, modifyIndex,
          applied, refused, lost, stopped>>

server == <<version, quality>>
objects == <<modifyIndex, applied, refused>>

Versions == 1..MaxVersion

NoIndex == -1      \* modify_index of a plain query

\* What came back: nothing yet, an error (or a reply without content or without
\* X-Consul-Index), or a version of the key.
NoReply == [index |-> 0, what |-> "none"]
Error   == [index |-> 0, what |-> "error"]

Request == [asked : {NoIndex, 0} \cup Versions,
            reply : [index : {0} \cup Versions,
                     what : {"none", "error", "good", "refused", "garbage"}]]

\* The requests of k that are under way or waiting to be sent again.
Chains(k) == {<<"request", i>> : i \in DOMAIN requests[k]}
               \cup {<<"timer", 0>> : j \in {timer} \cap {k}}
               \cup {<<"due", i>> : i \in {j \in DOMAIN due : due[j] = k}}

TypeOK ==
  /\ version \in [Keys -> Versions] /\ quality \in [Keys -> Qualities]
  /\ registered \subseteq Keys
  /\ posted \in {"no", "yes", "run"}
  /\ requests \in [Keys -> Seq(Request)]
  /\ timer \in Keys \cup {NULL}
  /\ due \in Seq(Keys)
  /\ modifyIndex \in [Keys -> {0} \cup Versions]
  /\ applied \in [Keys -> {0} \cup Versions] /\ refused \in [Keys -> {0} \cup Versions]
  /\ lost \subseteq registered
  /\ stopped \in BOOLEAN

Begin ==
  /\ version = [k \in Keys |-> 1] /\ quality \in [Keys -> Qualities]
  /\ registered = {} /\ posted = "no"
  /\ requests = [k \in Keys |-> <<>>]
  /\ timer = NULL /\ due = <<>>
  /\ modifyIndex = [k \in Keys |-> 0] /\ applied = [k \in Keys |-> 0]
  /\ refused = [k \in Keys |-> 0]
  /\ lost = {} /\ stopped = FALSE

-----------------------------------------------------------------------------
(* The server and the network.                                             *)

Changes(k) ==
  /\ version[k] < MaxVersion                              \* bound
  /\ version' = [version EXCEPT ![k] = @ + 1]
  /\ \E q \in Qualities : quality' = [quality EXCEPT ![k] = q]
  /\ UNCHANGED <<registered, posted, requests, timer, due, objects, lost, stopped>>

Answered(k, i, reply) ==
  /\ requests[k][i].reply = NoReply
  /\ requests' = [requests EXCEPT ![k][i].reply = reply]
  /\ UNCHANGED <<server, registered, posted, timer, due, objects, lost, stopped>>

Current(k) == [index |-> version[k], what |-> quality[k]]

\* A plain query is answered at once, a blocking one when the index has moved.
Answers(k) == \E i \in DOMAIN requests[k] :
                requests[k][i].asked # version[k] /\ Answered(k, i, Current(k))

\* A blocking query that saw no change for five minutes.
AnswersUnchanged(k) == \E i \in DOMAIN requests[k] :
                         requests[k][i].asked = version[k] /\ Answered(k, i, Current(k))

Fails(k) == \E i \in DOMAIN requests[k] : Answered(k, i, Error)

-----------------------------------------------------------------------------
(* The program's main thread.                                              *)

RegistKeyValue(k) ==
  /\ k \notin registered
  /\ registered' = registered \cup {k}
  /\ UNCHANGED <<server, posted, requests, timer, due, objects, lost, stopped>>

Init ==
  /\ posted = "no"
  /\ posted' = "yes"
  /\ UNCHANGED <<server, registered, requests, timer, due, objects, lost, stopped>>

Stop ==
  /\ MayStop /\ posted # "no"
  /\ stopped' = TRUE
  /\ UNCHANGED <<server, registered, posted, requests, timer, due, objects, lost>>

-----------------------------------------------------------------------------
(* The io thread.                                                          *)

\* DoRealQuestConfig: the request it puts on the wire.  Of the index it is passed it
\* only sees whether the query is plain; a blocking one asks with the saved index, as
\* it is by then.  A request() that throws is logged and forgotten.
Sent(k, modify_index, saved) ==
  LET asked == IF modify_index = NoIndex THEN NoIndex ELSE saved
  IN  IF k \in registered THEN {<<[asked |-> asked, reply |-> NoReply]>>}
                               \cup (IF RequestMayThrow THEN {<<>>} ELSE {})
      ELSE {<<>>}

GetKeyValueJson_All ==
  /\ ~stopped /\ posted = "yes"
  /\ posted' = "run"
  /\ \E sent \in [registered -> UNION {Sent(k, NoIndex, modifyIndex[k]) : k \in registered}] :
       /\ requests' = [k \in Keys |-> IF k \in registered THEN requests[k] \o sent[k]
                                      ELSE requests[k]]
       /\ lost' = lost \cup {k \in registered : sent[k] = <<>>}
  /\ UNCHANGED <<server, registered, timer, due, objects, stopped>>

\* Mutant: the retry is also queued at once.
DelayExecutAtOnce(k) == timer' = k /\ due' = Append(due, k) /\ UNCHANGED lost

\* expires_from_now aborts the wait that is pending, and with it its retry.
DelayExecut(k) ==
  /\ timer' = k
  /\ lost' = lost \cup ({timer} \ {NULL})
  /\ UNCHANGED due

\* Mutant: the failed request is never retried.
err_callbackForgets(k) == UNCHANGED <<timer, due, lost, objects>>

err_callback(k) == DelayExecut(k) /\ UNCHANGED objects

\* Request i of k is answered and its handler is the one that runs.
Handled(k, i) ==
  /\ ~stopped
  /\ i \in DOMAIN requests[k] /\ requests[k][i].reply # NoReply
  /\ UNCHANGED <<server, registered, posted, stopped>>

\* The chain goes on with a blocking query.
Rewatch(k, i, modify_index) == \E s \in Sent(k, modify_index, modifyIndex'[k]) :
  /\ requests' = [requests EXCEPT ![k] = RemoveAt(@, i) \o s]
  /\ lost' = IF s = <<>> THEN lost \cup {k} ELSE lost

OnError(k, i) ==
  /\ Handled(k, i) /\ requests[k][i].reply = Error
  /\ requests' = [requests EXCEPT ![k] = RemoveAt(@, i)]
  /\ err_callback(k)

OnUnchanged(k, i) ==
  /\ Handled(k, i)
  /\ requests[k][i].reply # Error /\ requests[k][i].reply.index = modifyIndex[k]
  /\ UNCHANGED <<timer, due, objects>>
  /\ Rewatch(k, i, requests[k][i].reply.index)

IsNew(k, i) == /\ requests[k][i].reply # Error
               /\ requests[k][i].reply.index # modifyIndex[k]

OnGarbage(k, i) ==
  /\ Handled(k, i) /\ IsNew(k, i) /\ requests[k][i].reply.what = "garbage"
  /\ requests' = [requests EXCEPT ![k] = RemoveAt(@, i)]
  /\ err_callback(k)

\* ParseJsonConfig, which may refuse the content and say nothing.
Parsed(k, reply) ==
  IF reply.what = "good"
  THEN /\ applied' = [applied EXCEPT ![k] = reply.index]
       /\ refused' = [refused EXCEPT ![k] = 0]
  ELSE /\ refused' = [refused EXCEPT ![k] = reply.index]
       /\ UNCHANGED applied

\* Mutant: the index is not saved.
OnChangedUnsaved(k, i) ==
  LET reply == requests[k][i].reply
  IN  /\ Handled(k, i) /\ IsNew(k, i) /\ reply.what \in {"good", "refused"}
      /\ Parsed(k, reply)
      /\ UNCHANGED <<timer, due, modifyIndex>>
      /\ Rewatch(k, i, reply.index)

\* The content is parsed, then its index is saved for the next query.
OnChanged(k, i) ==
  LET reply == requests[k][i].reply
  IN  /\ Handled(k, i) /\ IsNew(k, i) /\ reply.what \in {"good", "refused"}
      /\ Parsed(k, reply)
      /\ modifyIndex' = [modifyIndex EXCEPT ![k] = reply.index]
      /\ Rewatch(k, i, reply.index)
      /\ UNCHANGED <<timer, due>>

OnResponse(k) == \E i \in DOMAIN requests[k] :
  OnError(k, i) \/ OnUnchanged(k, i) \/ OnGarbage(k, i) \/ OnChanged(k, i)

\* Mutant: the handler of a wait nobody armed.
TimerExpiresIdle ==
  /\ ~stopped
  /\ due' = Append(due, timer) /\ timer' = NULL
  /\ UNCHANGED <<server, registered, posted, requests, objects, lost, stopped>>

\* The wait ends and its handler is queued.
TimerExpires ==
  /\ ~stopped /\ timer # NULL
  /\ due' = Append(due, timer) /\ timer' = NULL
  /\ UNCHANGED <<server, registered, posted, requests, objects, lost, stopped>>

Retry ==
  /\ ~stopped /\ due # <<>>
  /\ LET k == Head(due)
     IN  \E s \in Sent(k, NoIndex, modifyIndex[k]) :
           /\ requests' = [requests EXCEPT ![k] = @ \o s]
           /\ lost' = IF s = <<>> THEN lost \cup {k} ELSE lost
  /\ due' = Tail(due)
  /\ UNCHANGED <<server, registered, posted, timer, objects, stopped>>

Network == \E k \in Keys : Changes(k) \/ Answers(k) \/ AnswersUnchanged(k) \/ Fails(k)

Program == Init \/ Stop \/ \E k \in Keys : RegistKeyValue(k)

IoThread == GetKeyValueJson_All \/ TimerExpires \/ Retry \/ \E k \in Keys : OnResponse(k)

Next == Network \/ Program \/ IoThread

(* The io thread runs its handlers and the timer runs down.  The server     *)
(* answers a query infinitely often when it is asked infinitely often: a    *)
(* request may fail any number of times, not for ever (an assumption about  *)
(* the environment, without which no client can make progress).             *)
Fairness == /\ WF_vars(TimerExpires) /\ WF_vars(Retry)
            /\ \A k \in Keys : WF_vars(OnResponse(k)) /\ SF_vars(Answers(k))

Spec == Begin /\ [][Next]_vars /\ Fairness

-----------------------------------------------------------------------------
\* ConsulClient.cpp:184-258: every handler ends in at most one next step of its
\* key's chain, a request or a retry; a second chain would let an older reply be
\* handled after a newer one.
OneChain == \A k \in Keys : \A x, y \in Chains(k) : x = y

\* What an object holds never goes back to an older version of its key, however
\* replies, failures and retries interleave.
NeverGoesBack == [][\A k \in Keys : applied'[k] >= applied[k]]_vars

\* ConsulClient.cpp:181-182, 240-245: a blocking query sleeps on the very version that
\* the object holds, or else on the one it refused since: a change that the object has
\* not been offered wakes it.  (Line 242 says that the content has been parsed by then:
\* ParseJsonConfig may have refused it, ConsulClient.h:113-140, and the object stays
\* with its older version until the next change.)
WatchesWhatItHas ==
  \A k \in Keys : \A i \in DOMAIN requests[k] :
    requests[k][i].asked # NoIndex =>
      requests[k][i].asked = IF refused[k] = 0 THEN applied[k] ELSE refused[k]

\* A key that is watched catches up with every change of the server, unless the
\* content stays garbage, another key's failure aborts its retry, its request
\* throws or the client is stopped.
CatchesUp == \A k \in Keys :
  Chains(k) # {} ~> \/ modifyIndex[k] = version[k] \/ quality[k] = "garbage"
                   \/ k \in lost \/ stopped

\* ConsulClient.h:39: a failed request is sent again after a while.
FailedIsRetried == \A k \in Keys : timer = k ~> requests[k] # <<>> \/ stopped
=============================================================================
