-------------------------- MODULE ConsulClient_proofs --------------------------
(***************************************************************************)
(* For every set of keys and every number of changes: a key has at most    *)
(* one request or retry under way, a blocking query carries the index of   *)
(* the version its object holds or has refused since, and no object goes   *)
(* back to an older version, however replies, failures, retries and stops  *)
(* interleave.                                                             *)
(***************************************************************************)
EXTENDS ConsulClient, TLAPS, SequenceTheorems

\* OneChain, place by place.
OneEach ==
  /\ \A k \in Keys :
       /\ Len(requests[k]) <= 1
       /\ timer = k => Len(requests[k]) = 0
       /\ \A j \in DOMAIN due : due[j] = k => Len(requests[k]) = 0 /\ timer # k
  /\ \A i, j \in DOMAIN due : due[i] = due[j] => i = j

\* Nothing is asked for before Init's handler has run, nor for a key it did not find.
AsksForRegistered ==
  /\ \A k \in Keys : Len(requests[k]) > 0 => k \in registered /\ posted = "run"
  /\ timer # NULL => timer \in registered /\ posted = "run"
  /\ \A j \in DOMAIN due : due[j] \in registered /\ posted = "run"

\* An object never holds more than its index says, and that is never ahead of a reply
\* that waits to be handled, nor that of the server.
RepliesAreNewer ==
  \A k \in Keys :
    /\ applied[k] <= modifyIndex[k] /\ modifyIndex[k] <= version[k]
    /\ \A i \in DOMAIN requests[k] :
         requests[k][i].reply.what \in {"good", "refused", "garbage"} =>
           /\ modifyIndex[k] <= requests[k][i].reply.index
           /\ requests[k][i].reply.index # 0
           /\ requests[k][i].reply.index <= version[k]

\* The version an object holds, or the one it has refused since.
Offered(k) == IF refused[k] = 0 THEN applied[k] ELSE refused[k]

\* m_modifyIndex is the version that the object was offered last, taken or refused; it
\* can refuse contents only if there are such.
IndexIsOffered ==
  \A k \in Keys : /\ modifyIndex[k] = Offered(k)
                  /\ refused[k] # 0 => "refused" \in Qualities

\* A blocking query waits on the saved index; what is answered is of a kind there is.
AsksWhatIsSaved ==
  \A k \in Keys : \A i \in DOMAIN requests[k] :
    /\ requests[k][i].asked # NoIndex => requests[k][i].asked = modifyIndex[k]
    /\ requests[k][i].reply.what \in {"none", "error"} \cup Qualities

\* The inductive invariant.
IInv == TypeOK /\ OneEach /\ AsksForRegistered /\ IndexIsOffered /\ AsksWhatIsSaved
          /\ RepliesAreNewer

-----------------------------------------------------------------------------
LEMMA BeginIInv == Begin => IInv
<1> SUFFICES ASSUME Begin PROVE IInv
  OBVIOUS
<1> USE ConsulAssumption DEF ConsulAssumption
<1>1. /\ \A k \in Keys : /\ requests[k] = <<>> /\ modifyIndex[k] = 0 /\ applied[k] = 0
                         /\ refused[k] = 0 /\ version[k] = 1
      /\ timer = NULL /\ due = <<>>
  BY DEF Begin
<1>2. TypeOK
  <2>1. requests \in [Keys -> Seq(Request)] /\ due \in Seq(Keys)
    BY EmptySeq DEF Begin
  <2>2. 1 \in Versions
    BY DEF Versions
  <2> QED BY <2>1, <2>2 DEF Begin, TypeOK
<1>3. \A k \in Keys : Len(requests[k]) = 0 /\ DOMAIN requests[k] = {}
  BY <1>1
<1>4. Len(due) = 0 /\ DOMAIN due = {}
  BY <1>1
<1>5. OneEach
  BY <1>1, <1>3, <1>4 DEF OneEach
<1>6. AsksForRegistered
  BY <1>1, <1>3, <1>4 DEF AsksForRegistered
<1>7. IndexIsOffered /\ AsksWhatIsSaved /\ RepliesAreNewer
  BY <1>1, <1>3 DEF IndexIsOffered, Offered, AsksWhatIsSaved, RepliesAreNewer
<1> QED BY <1>2, <1>5, <1>6, <1>7 DEF IInv

LEMMA RequestFacts ==
  ASSUME IInv, NEW k \in Keys
  PROVE  /\ requests[k] \in Seq(Request) /\ Len(requests[k]) \in {0, 1}
         /\ DOMAIN requests[k] = 1..Len(requests[k])
         /\ \A i \in DOMAIN requests[k] : i = 1 /\ requests[k][i] \in Request
<1>1. requests[k] \in Seq(Request) /\ Len(requests[k]) <= 1
  BY DEF IInv, TypeOK, OneEach
<1>2. Len(requests[k]) \in Nat /\ DOMAIN requests[k] = 1..Len(requests[k])
  BY <1>1
<1>3. \A i \in 1..Len(requests[k]) : requests[k][i] \in Request
  BY <1>1, ElementOfSeq
<1>4. Len(requests[k]) \in {0, 1} /\ \A i \in 1..Len(requests[k]) : i = 1
  <2>1. \A n \in Nat : n <= 1 => n \in {0, 1} /\ \A i \in 1..n : i = 1
    OBVIOUS
  <2> QED BY <1>1, <1>2, <2>1
<1>5. ASSUME NEW i \in DOMAIN requests[k] PROVE i = 1 /\ requests[k][i] \in Request
  <2>1. i \in 1..Len(requests[k])
    BY <1>2
  <2> QED BY <1>3, <1>4, <2>1
<1> QED BY <1>1, <1>2, <1>4, <1>5

\* What DoRealQuestConfig puts on the wire: nothing, or one request, of a registered key.
LEMMA SentOne ==
  ASSUME NEW k \in Keys, NEW modify_index, NEW saved, NEW s \in Sent(k, modify_index, saved)
  PROVE  \/ s = <<>>
         \/ /\ k \in registered
            /\ modify_index = NoIndex => s = <<[asked |-> NoIndex, reply |-> NoReply]>>
            /\ modify_index # NoIndex => s = <<[asked |-> saved, reply |-> NoReply]>>
BY DEF Sent

\* Such a sequence, place by place.
LEMMA SentFacts ==
  ASSUME NEW asked \in {NoIndex, 0} \cup Versions,
         NEW s \in {<<>>, <<[asked |-> asked, reply |-> NoReply]>>}
  PROVE  /\ s \in Seq(Request) /\ Len(s) \in {0, 1} /\ DOMAIN s = 1..Len(s)
         /\ Len(s) = 1 => s[1] = [asked |-> asked, reply |-> NoReply]
<1> DEFINE request == [asked |-> asked, reply |-> NoReply]
<1>1. request \in Request
  BY DEF Request, NoReply
<1> HIDE DEF request
<1>2. CASE s = <<>>
  BY <1>2, EmptySeq
<1>3. CASE s = <<request>>
  <2>1. <<request>> \in Seq(Request) /\ Len(<<request>>) = 1 /\ <<request>>[1] = request
    BY <1>1
  <2>2. DOMAIN s = 1..Len(s)
    BY <1>3, <2>1
  <2> QED BY <1>3, <2>1, <2>2 DEF request
<1> QED BY <1>2, <1>3 DEF request

\* The server changes a key: its index grows.
LEMMA ChangesIInv == ASSUME IInv, NEW k \in Keys, Changes(k) PROVE IInv'
<1> USE ConsulAssumption DEF ConsulAssumption
<1>1. /\ version' = [version EXCEPT ![k] = @ + 1] /\ version[k] < MaxVersion
      /\ quality' \in [Keys -> Qualities]
      /\ UNCHANGED <<registered, posted, requests, timer, due, modifyIndex, applied, refused,
                     lost, stopped>>
  BY DEF Changes, objects, IInv, TypeOK
<1>2. version' \in [Keys -> Versions] /\ \A j \in Keys : version[j] <= version'[j]
  BY <1>1 DEF IInv, TypeOK, Versions
<1>3. TypeOK'
  BY <1>1, <1>2 DEF IInv, TypeOK
<1>4. OneEach' /\ AsksForRegistered' /\ IndexIsOffered' /\ AsksWhatIsSaved'
  BY <1>1 DEF IInv, OneEach, AsksForRegistered, IndexIsOffered, Offered, AsksWhatIsSaved
<1>5. RepliesAreNewer'
  <2>1. \A j \in Keys : version[j] \in Int /\ version'[j] \in Int /\ modifyIndex[j] \in Int
    BY <1>2 DEF IInv, TypeOK, Versions
  <2>2. \A j \in Keys : \A i \in DOMAIN requests[j] : requests[j][i].reply.index \in Int
    BY RequestFacts DEF Request, Versions
  <2> QED BY <1>1, <1>2, <2>1, <2>2 DEF IInv, RepliesAreNewer
<1> QED BY <1>3, <1>4, <1>5 DEF IInv

\* A reply comes in; if it has content, that is of the server's present index.
LEMMA AnsweredIInv ==
  ASSUME IInv, NEW k \in Keys, NEW i \in DOMAIN requests[k],
         NEW reply \in {Error, Current(k)}, Answered(k, i, reply)
  PROVE  IInv'
<1> USE ConsulAssumption DEF ConsulAssumption
<1>1. /\ requests[k] \in Seq(Request) /\ Len(requests[k]) = 1 /\ DOMAIN requests[k] = {1}
      /\ i = 1 /\ requests[k][1] \in Request
  BY RequestFacts
<1>2. /\ requests' = [requests EXCEPT ![k][i].reply = reply]
      /\ UNCHANGED <<version, quality, registered, posted, timer, due, modifyIndex, applied,
                     refused, lost, stopped>>
  BY DEF Answered, server, objects
<1> DEFINE new == [requests[k][1] EXCEPT !.reply = reply]
<1>3. new \in Request /\ new.asked = requests[k][1].asked /\ new.reply = reply
  <2>1. reply \in [index : {0} \cup Versions, what : {"none", "error", "good", "refused", "garbage"}]
    <3>1. /\ version[k] \in Versions
          /\ quality[k] \in {"none", "error", "good", "refused", "garbage"}
      BY DEF IInv, TypeOK
    <3> QED BY <3>1 DEF Error, Current
  <2> QED BY <1>1, <2>1 DEF Request
<1> HIDE DEF new
<1>4. /\ requests'[k] \in Seq(Request) /\ Len(requests'[k]) = 1 /\ DOMAIN requests'[k] = {1}
      /\ requests'[k][1] = new
      /\ \A j \in Keys \ {k} : requests'[j] = requests[j]
      /\ requests' \in [Keys -> Seq(Request)]
  <2>1. requests'[k] = [requests[k] EXCEPT ![1] = new]
    BY <1>1, <1>2 DEF IInv, TypeOK, new
  <2>2. /\ [requests[k] EXCEPT ![1] = new] \in Seq(Request)
        /\ Len([requests[k] EXCEPT ![1] = new]) = 1
        /\ [requests[k] EXCEPT ![1] = new][1] = new
    BY <1>1, <1>3, ExceptSeq
  <2>3. \A j \in Keys \ {k} : requests'[j] = requests[j]
    BY <1>2 DEF IInv, TypeOK
  <2>4. requests' = [requests EXCEPT ![k] = requests'[k]]
    BY <1>2 DEF IInv, TypeOK
  <2>5. requests'[k] \in Seq(Request) /\ Len(requests'[k]) = 1 /\ requests'[k][1] = new
    BY <2>1, <2>2
  <2>6. DOMAIN requests'[k] = {1}
    BY <2>5
  <2>7. requests' \in [Keys -> Seq(Request)]
    BY <2>4, <2>5 DEF IInv, TypeOK
  <2> QED BY <2>3, <2>5, <2>6, <2>7
<1>5. TypeOK'
  BY <1>2, <1>4 DEF IInv, TypeOK
<1>6. OneEach' /\ AsksForRegistered'
  <2>1. \A j \in Keys : Len(requests'[j]) = Len(requests[j])
    BY <1>1, <1>4
  <2> QED BY <1>2, <2>1 DEF IInv, OneEach, AsksForRegistered
<1>7. IndexIsOffered' /\ AsksWhatIsSaved'
  <2>1. reply.what \in {"none", "error"} \cup Qualities
    <3>1. quality[k] \in Qualities
      BY DEF IInv, TypeOK
    <3> QED BY <3>1 DEF Error, Current
  <2>2. IndexIsOffered'
    BY <1>2 DEF IInv, IndexIsOffered, Offered
  <2>3. AsksWhatIsSaved'
    BY <1>1, <1>2, <1>3, <1>4, <2>1 DEF IInv, AsksWhatIsSaved
  <2> QED BY <2>2, <2>3
<1>8. RepliesAreNewer'
  <2>1. reply.what \in {"good", "refused", "garbage"} => reply.index = version[k]
    BY DEF Error, Current
  <2>2. modifyIndex[k] <= version[k] /\ version[k] <= version[k] /\ version[k] # 0
    BY DEF IInv, RepliesAreNewer, TypeOK, Versions
  <2> QED BY <1>2, <1>3, <1>4, <2>1, <2>2 DEF IInv, RepliesAreNewer
<1> QED BY <1>5, <1>6, <1>7, <1>8 DEF IInv

-----------------------------------------------------------------------------
\* Init's handler asks for every key registered so far, which has no chain yet.
LEMMA GetAllIInv == ASSUME IInv, GetKeyValueJson_All PROVE IInv'
<1> USE ConsulAssumption DEF ConsulAssumption
<1>1. /\ posted = "yes" /\ posted' = "run"
      /\ UNCHANGED <<version, quality, registered, timer, due, modifyIndex, applied, refused,
                     stopped>>
  BY DEF GetKeyValueJson_All, server, objects
<1>2. PICK sent \in [registered -> UNION {Sent(k, NoIndex, modifyIndex[k]) : k \in registered}] :
        /\ requests' = [k \in Keys |-> IF k \in registered THEN requests[k] \o sent[k]
                                       ELSE requests[k]]
        /\ lost' = lost \cup {k \in registered : sent[k] = <<>>}
  BY DEF GetKeyValueJson_All
<1>3. registered \subseteq Keys
  BY DEF IInv, TypeOK
<1>4. /\ timer = NULL /\ \A j \in DOMAIN due : FALSE
      /\ \A k \in Keys : Len(requests[k]) = 0 /\ requests[k] = <<>>
  BY <1>1, RequestFacts DEF IInv, AsksForRegistered
<1>5. \A k \in registered :
        /\ sent[k] \in Seq(Request) /\ Len(sent[k]) \in {0, 1} /\ DOMAIN sent[k] = 1..Len(sent[k])
        /\ Len(sent[k]) = 1 => sent[k][1] = [asked |-> NoIndex, reply |-> NoReply]
  <2> SUFFICES ASSUME NEW k \in registered
               PROVE  /\ sent[k] \in Seq(Request) /\ Len(sent[k]) \in {0, 1}
                      /\ DOMAIN sent[k] = 1..Len(sent[k])
                      /\ Len(sent[k]) = 1 => sent[k][1] = [asked |-> NoIndex, reply |-> NoReply]
    OBVIOUS
  <2>1. PICK j \in registered : sent[k] \in Sent(j, NoIndex, modifyIndex[j])
    BY <1>2
  <2>2. sent[k] \in {<<>>, <<[asked |-> NoIndex, reply |-> NoReply]>>}
    BY <1>3, <2>1, SentOne
  <2> QED BY <2>2, SentFacts
<1>6. \A k \in Keys : /\ k \in registered => requests'[k] = sent[k]
                      /\ k \notin registered => requests'[k] = <<>>
  <2>1. \A k \in registered : <<>> \o sent[k] = sent[k]
    BY <1>5, ConcatEmptySeq
  <2> QED BY <1>2, <1>4, <2>1
<1>7. \A k \in Keys :
        /\ requests'[k] \in Seq(Request) /\ Len(requests'[k]) \in {0, 1}
        /\ DOMAIN requests'[k] = 1..Len(requests'[k])
        /\ Len(requests'[k]) = 1 => /\ k \in registered
                                    /\ requests'[k][1] = [asked |-> NoIndex, reply |-> NoReply]
  <2> SUFFICES ASSUME NEW k \in Keys
               PROVE  /\ requests'[k] \in Seq(Request) /\ Len(requests'[k]) \in {0, 1}
                      /\ DOMAIN requests'[k] = 1..Len(requests'[k])
                      /\ Len(requests'[k]) = 1 =>
                           /\ k \in registered
                           /\ requests'[k][1] = [asked |-> NoIndex, reply |-> NoReply]
    OBVIOUS
  <2>1. CASE k \in registered
    BY <1>5, <1>6, <2>1
  <2>2. CASE k \notin registered
    <3>1. <<>> \in Seq(Request) /\ Len(<<>>) = 0
      BY EmptySeq
    <3>2. requests'[k] \in Seq(Request) /\ Len(requests'[k]) = 0
      BY <1>6, <2>2, <3>1
    <3>3. DOMAIN requests'[k] = 1..Len(requests'[k])
      BY <3>2, LenProperties
    <3> QED BY <3>2, <3>3
  <2> QED BY <2>1, <2>2
<1>8. TypeOK'
  <2>1. requests' \in [Keys -> Seq(Request)]
    BY <1>2, <1>7
  <2> QED BY <1>1, <1>2, <2>1 DEF IInv, TypeOK
<1>9. OneEach'
  <2>1. \A k \in Keys : Len(requests'[k]) <= 1
    <3>1. \A n \in {0, 1} : n <= 1
      OBVIOUS
    <3> QED BY <1>7, <3>1
  <2>2. timer' \notin Keys /\ \A j \in DOMAIN due' : FALSE
    BY <1>1, <1>4
  <2> QED BY <2>1, <2>2 DEF OneEach
<1>10. AsksForRegistered'
  BY <1>1, <1>4, <1>7 DEF AsksForRegistered, IInv
<1>11. \A k \in Keys : \A i \in DOMAIN requests'[k] :
         requests'[k][i] = [asked |-> NoIndex, reply |-> NoReply]
  <2> SUFFICES ASSUME NEW k \in Keys, NEW i \in DOMAIN requests'[k]
               PROVE  requests'[k][i] = [asked |-> NoIndex, reply |-> NoReply]
    OBVIOUS
  <2>1. i = 1 /\ Len(requests'[k]) = 1
    BY <1>7
  <2> QED BY <1>7, <2>1
<1>12. IndexIsOffered' /\ AsksWhatIsSaved'
  BY <1>1, <1>11 DEF IInv, IndexIsOffered, Offered, AsksWhatIsSaved, NoReply
<1>13. RepliesAreNewer'
  BY <1>1, <1>11 DEF IInv, RepliesAreNewer, NoReply
<1> QED BY <1>8, <1>9, <1>10, <1>12, <1>13 DEF IInv

\* A request that is handled is the only one of its key, and nothing is left without it.
LEMMA HandledFacts ==
  ASSUME IInv, NEW k \in Keys, NEW i \in DOMAIN requests[k]
  PROVE  /\ i = 1 /\ Len(requests[k]) = 1 /\ requests[k][i] \in Request
         /\ RemoveAt(requests[k], i) = <<>>
         /\ timer # k /\ \A j \in DOMAIN due : due[j] # k
         /\ k \in registered /\ posted = "run"
<1>1. /\ requests[k] \in Seq(Request) /\ Len(requests[k]) = 1 /\ i = 1
      /\ requests[k][i] \in Request
  BY RequestFacts
<1>2. RemoveAt(requests[k], i) = <<>>
  <2>1. SubSeq(requests[k], 1, 0) = <<>> /\ SubSeq(requests[k], 2, 1) = <<>>
    BY SubSeqEmpty
  <2>2. <<>> \o <<>> = <<>>
    BY EmptySeq, ConcatEmptySeq
  <2> QED BY <1>1, <2>1, <2>2 DEF RemoveAt
<1>3. timer # k /\ \A j \in DOMAIN due : due[j] # k
  BY <1>1 DEF IInv, OneEach
<1>4. k \in registered /\ posted = "run"
  BY <1>1 DEF IInv, AsksForRegistered
<1> QED BY <1>1, <1>2, <1>3, <1>4

\* A failed request becomes the retry that the timer holds.
LEMMA FailureIInv ==
  ASSUME IInv, NEW k \in Keys, NEW i \in DOMAIN requests[k], Handled(k, i),
         requests' = [requests EXCEPT ![k] = RemoveAt(@, i)], err_callback(k)
  PROVE  IInv'
<1> USE ConsulAssumption DEF ConsulAssumption
<1>1. /\ requests' = [requests EXCEPT ![k] = <<>>]
      /\ timer' = k /\ lost' = lost \cup ({timer} \ {NULL})
      /\ UNCHANGED <<version, quality, registered, posted, due, modifyIndex, applied, refused,
                     stopped>>
  BY HandledFacts DEF Handled, err_callback, DelayExecut, server, objects
<1>2. /\ requests'[k] = <<>> /\ \A j \in Keys \ {k} : requests'[j] = requests[j]
      /\ requests' \in [Keys -> Seq(Request)]
  BY <1>1, EmptySeq DEF IInv, TypeOK
<1>3. Len(requests'[k]) = 0 /\ DOMAIN requests'[k] = {}
  BY <1>2
<1>4. timer # k /\ (\A j \in DOMAIN due : due[j] # k) /\ k \in registered /\ posted = "run"
  BY HandledFacts
<1>5. TypeOK'
  <2>1. lost' \subseteq registered
    BY <1>1 DEF IInv, TypeOK, AsksForRegistered
  <2> QED BY <1>1, <1>2, <2>1 DEF IInv, TypeOK
<1>6. OneEach'
  BY <1>1, <1>2, <1>3, <1>4 DEF IInv, OneEach
<1>7. AsksForRegistered'
  BY <1>1, <1>2, <1>3, <1>4 DEF IInv, AsksForRegistered
<1>8. IndexIsOffered' /\ AsksWhatIsSaved'
  BY <1>1, <1>2, <1>3 DEF IInv, IndexIsOffered, Offered, AsksWhatIsSaved
<1>9. RepliesAreNewer'
  BY <1>1, <1>2, <1>3 DEF IInv, RepliesAreNewer
<1> QED BY <1>5, <1>6, <1>7, <1>8, <1>9 DEF IInv

\* A reply whose version was taken, refused or had before is followed by a query with its
\* index, which is saved by then.
LEMMA RewatchIInv ==
  ASSUME IInv, NEW k \in Keys, NEW i \in DOMAIN requests[k], Handled(k, i),
         NEW index \in {0} \cup Versions, NEW a \in {0} \cup Versions,
         NEW r \in {0} \cup Versions,
         Rewatch(k, i, index),
         modifyIndex' = [modifyIndex EXCEPT ![k] = index],
         applied' = [applied EXCEPT ![k] = a], refused' = [refused EXCEPT ![k] = r],
         index = IF r = 0 THEN a ELSE r, r # 0 => "refused" \in Qualities,
         a <= index, index <= version[k],
         UNCHANGED <<timer, due>>
  PROVE  IInv'
<1> USE ConsulAssumption DEF ConsulAssumption
<1>0. modifyIndex'[k] = index /\ index # NoIndex
  <2>1. NoIndex \notin {0} \cup Versions
    BY DEF NoIndex, Versions
  <2> QED BY <2>1 DEF IInv, TypeOK
<1>1. PICK s \in Sent(k, index, index) :
        /\ requests' = [requests EXCEPT ![k] = RemoveAt(@, i) \o s]
        /\ lost' = IF s = <<>> THEN lost \cup {k} ELSE lost
  BY <1>0 DEF Rewatch
<1>2. /\ s \in Seq(Request) /\ Len(s) \in {0, 1} /\ DOMAIN s = 1..Len(s)
      /\ Len(s) = 1 => s[1] = [asked |-> index, reply |-> NoReply]
  <2>1. s \in {<<>>, <<[asked |-> index, reply |-> NoReply]>>}
    BY <1>0, SentOne
  <2> QED BY <2>1, SentFacts
<1>3. UNCHANGED <<version, quality, registered, posted, timer, due, stopped>>
  BY DEF Handled, server
<1>4. requests'[k] = s /\ \A j \in Keys \ {k} : requests'[j] = requests[j]
  <2>1. RemoveAt(requests[k], i) \o s = s
    BY <1>2, HandledFacts, ConcatEmptySeq
  <2> QED BY <1>1, <2>1 DEF IInv, TypeOK
<1>5. timer # k /\ (\A j \in DOMAIN due : due[j] # k) /\ k \in registered /\ posted = "run"
  BY HandledFacts
<1>6. /\ modifyIndex'[k] = index /\ applied'[k] = a /\ refused'[k] = r
      /\ \A j \in Keys \ {k} : /\ modifyIndex'[j] = modifyIndex[j] /\ applied'[j] = applied[j]
                               /\ refused'[j] = refused[j]
  BY DEF IInv, TypeOK
<1>7. TypeOK'
  <2>1. requests' \in [Keys -> Seq(Request)]
    BY <1>1, <1>2, <1>4 DEF IInv, TypeOK
  <2>2. lost' \subseteq registered
    BY <1>1, <1>5 DEF IInv, TypeOK
  <2>3. /\ modifyIndex' \in [Keys -> {0} \cup Versions]
        /\ applied' \in [Keys -> {0} \cup Versions] /\ refused' \in [Keys -> {0} \cup Versions]
    BY DEF IInv, TypeOK
  <2> QED BY <1>3, <2>1, <2>2, <2>3 DEF IInv, TypeOK
<1>8. OneEach'
  BY <1>2, <1>3, <1>4, <1>5 DEF IInv, OneEach
<1>9. AsksForRegistered'
  BY <1>2, <1>3, <1>4, <1>5 DEF IInv, AsksForRegistered
<1>10. \A j \in DOMAIN s : s[j] = [asked |-> index, reply |-> NoReply]
  <2>1. \A j \in DOMAIN s : j = 1 /\ Len(s) = 1
    BY <1>2
  <2> QED BY <1>2, <2>1
<1>11. IndexIsOffered' /\ AsksWhatIsSaved'
  <2>1. IndexIsOffered'
    BY <1>6 DEF IInv, IndexIsOffered, Offered
  <2>2. AsksWhatIsSaved'
    BY <1>4, <1>6, <1>10 DEF IInv, AsksWhatIsSaved, NoReply
  <2> QED BY <2>1, <2>2
<1>12. RepliesAreNewer'
  BY <1>3, <1>4, <1>6, <1>10 DEF IInv, RepliesAreNewer, NoReply
<1> QED BY <1>7, <1>8, <1>9, <1>11, <1>12 DEF IInv

LEMMA OnResponseIInv == ASSUME IInv, NEW k \in Keys, OnResponse(k) PROVE IInv'
<1>1. PICK i \in DOMAIN requests[k] :
        OnError(k, i) \/ OnUnchanged(k, i) \/ OnGarbage(k, i) \/ OnChanged(k, i)
  BY DEF OnResponse
<1>2. /\ requests[k][i] \in Request
      /\ modifyIndex[k] \in {0} \cup Versions /\ applied[k] \in {0} \cup Versions
      /\ refused[k] \in {0} \cup Versions /\ modifyIndex[k] = Offered(k)
      /\ refused[k] # 0 => "refused" \in Qualities
      /\ applied[k] <= modifyIndex[k] /\ modifyIndex[k] <= version[k]
  BY HandledFacts DEF IInv, TypeOK, IndexIsOffered, RepliesAreNewer
<1>3. CASE OnError(k, i)
  BY <1>3, FailureIInv DEF OnError
<1>4. CASE OnGarbage(k, i)
  BY <1>4, FailureIInv DEF OnGarbage
<1>5. CASE OnUnchanged(k, i)
  <2>1. /\ Handled(k, i) /\ Rewatch(k, i, modifyIndex[k])
        /\ UNCHANGED <<timer, due, modifyIndex, applied, refused>>
    BY <1>5 DEF OnUnchanged, objects
  <2>2. /\ modifyIndex' = [modifyIndex EXCEPT ![k] = modifyIndex[k]]
        /\ applied' = [applied EXCEPT ![k] = applied[k]]
        /\ refused' = [refused EXCEPT ![k] = refused[k]]
    BY <2>1 DEF IInv, TypeOK
  <2>3. modifyIndex[k] = IF refused[k] = 0 THEN applied[k] ELSE refused[k]
    BY <1>2 DEF Offered
  <2> QED BY <1>2, <2>1, <2>2, <2>3, RewatchIInv
<1>6. CASE OnChanged(k, i)
  <2> DEFINE reply == requests[k][i].reply
             a == IF reply.what = "good" THEN reply.index ELSE applied[k]
             r == IF reply.what = "good" THEN 0 ELSE reply.index
  <2>1. /\ Handled(k, i) /\ Rewatch(k, i, reply.index) /\ UNCHANGED <<timer, due>>
        /\ modifyIndex' = [modifyIndex EXCEPT ![k] = reply.index]
        /\ applied' = [applied EXCEPT ![k] = a] /\ refused' = [refused EXCEPT ![k] = r]
        /\ reply.what \in {"good", "refused"}
    BY <1>6 DEF OnChanged, Parsed, IInv, TypeOK
  <2>2. reply.index \in {0} \cup Versions
    BY <1>2 DEF Request
  <2>3. modifyIndex[k] <= reply.index /\ reply.index <= version[k]
    BY <2>1 DEF IInv, RepliesAreNewer
  <2>4. a \in {0} \cup Versions /\ a <= reply.index
    <3>1. reply.index \in Int /\ modifyIndex[k] \in Int /\ applied[k] \in Int
      BY <1>2, <2>2, ConsulAssumption DEF Versions, ConsulAssumption
    <3> QED BY <1>2, <2>2, <2>3, <3>1
  <2>5. /\ r \in {0} \cup Versions /\ r # 0 => "refused" \in Qualities
        /\ reply.index = IF r = 0 THEN a ELSE r
    <3>1. reply.what \in {"none", "error"} \cup Qualities
      BY DEF IInv, AsksWhatIsSaved
    <3>2. reply.index # 0
      BY <2>1 DEF IInv, RepliesAreNewer
    <3> QED BY <2>1, <2>2, <3>1, <3>2
  <2> HIDE DEF a, r, reply
  <2> QED BY <2>1, <2>2, <2>3, <2>4, <2>5, RewatchIInv
<1> QED BY <1>1, <1>3, <1>4, <1>5, <1>6

\* The wait ends: what the timer held is queued.
LEMMA TimerIInv == ASSUME IInv, TimerExpires PROVE IInv'
<1> USE ConsulAssumption DEF ConsulAssumption
<1>1. /\ timer # NULL /\ timer' = NULL /\ due' = Append(due, timer)
      /\ UNCHANGED <<version, quality, registered, posted, requests, modifyIndex, applied,
                     refused, lost, stopped>>
  BY DEF TimerExpires, server, objects
<1>2. timer \in Keys /\ due \in Seq(Keys) /\ DOMAIN due = 1..Len(due) /\ Len(due) \in Nat
  BY <1>1 DEF IInv, TypeOK
<1>3. /\ due' \in Seq(Keys) /\ DOMAIN due' = 1..(Len(due) + 1)
      /\ \A j \in 1..Len(due) : due'[j] = due[j]
      /\ due'[Len(due) + 1] = timer
  BY <1>1, <1>2, AppendProperties
<1>4. \A j \in DOMAIN due' : \/ j \in DOMAIN due /\ due'[j] = due[j] /\ due[j] # timer
                             \/ j = Len(due) + 1 /\ due'[j] = timer
  BY <1>2, <1>3 DEF IInv, OneEach
<1>5. TypeOK'
  BY <1>1, <1>3 DEF IInv, TypeOK
<1>6. OneEach'
  <2>1. \A i, j \in DOMAIN due' : due'[i] = due'[j] => i = j
    BY <1>4 DEF IInv, OneEach
  <2>2. \A k \in Keys : timer = k => Len(requests[k]) = 0
    BY DEF IInv, OneEach
  <2>3. \A k \in Keys : timer' # k
    BY <1>1
  <2> QED BY <1>1, <1>4, <2>1, <2>2, <2>3 DEF IInv, OneEach
<1>7. AsksForRegistered'
  BY <1>1, <1>4 DEF IInv, AsksForRegistered
<1>8. IndexIsOffered' /\ AsksWhatIsSaved' /\ RepliesAreNewer'
  BY <1>1 DEF IInv, IndexIsOffered, Offered, AsksWhatIsSaved, RepliesAreNewer
<1> QED BY <1>5, <1>6, <1>7, <1>8 DEF IInv

\* The queued handler asks for its key with a plain query.
LEMMA RetryIInv == ASSUME IInv, Retry PROVE IInv'
<1> USE ConsulAssumption DEF ConsulAssumption
<1> DEFINE k == Head(due)
<1>1. /\ due # <<>> /\ due' = Tail(due)
      /\ UNCHANGED <<version, quality, registered, posted, timer, modifyIndex, applied, refused,
                     stopped>>
  BY DEF Retry, server, objects
<1>2. PICK s \in Sent(k, NoIndex, modifyIndex[k]) :
        /\ requests' = [requests EXCEPT ![k] = @ \o s]
        /\ lost' = IF s = <<>> THEN lost \cup {k} ELSE lost
  BY DEF Retry
<1>3. /\ due \in Seq(Keys) /\ Len(due) \in Nat \ {0} /\ DOMAIN due = 1..Len(due)
      /\ k = due[1] /\ k \in Keys /\ 1 \in DOMAIN due
  BY <1>1 DEF IInv, TypeOK
<1>4. /\ due' \in Seq(Keys) /\ Len(due') = Len(due) - 1 /\ DOMAIN due' = 1..(Len(due) - 1)
      /\ \A j \in 1..(Len(due) - 1) : due'[j] = due[j + 1]
  BY <1>1, <1>3, HeadTailProperties, LenProperties
<1>5. \A j \in DOMAIN due' : j + 1 \in DOMAIN due /\ due'[j] = due[j + 1] /\ j \in Nat \ {0}
  BY <1>3, <1>4
<1> HIDE DEF k
<1>6. /\ s \in Seq(Request) /\ Len(s) \in {0, 1} /\ DOMAIN s = 1..Len(s)
      /\ Len(s) = 1 => s[1] = [asked |-> NoIndex, reply |-> NoReply]
  <2>1. s \in {<<>>, <<[asked |-> NoIndex, reply |-> NoReply]>>}
    BY <1>3, SentOne
  <2> QED BY <2>1, SentFacts
<1>7. Len(requests[k]) = 0 /\ timer # k /\ k \in registered /\ posted = "run"
  BY <1>3 DEF IInv, OneEach, AsksForRegistered
<1>8. requests'[k] = s /\ \A j \in Keys \ {k} : requests'[j] = requests[j]
  <2>1. requests[k] = <<>>
    BY <1>3, <1>7, RequestFacts
  <2>2. <<>> \o s = s
    BY <1>6, ConcatEmptySeq
  <2> QED BY <1>2, <1>3, <2>1, <2>2 DEF IInv, TypeOK
<1>9. \A j \in DOMAIN due' : due'[j] # k
  <2> SUFFICES ASSUME NEW j \in DOMAIN due' PROVE due[j + 1] # due[1]
    BY <1>3, <1>5
  <2> QED BY <1>3, <1>5 DEF IInv, OneEach
<1>10. TypeOK'
  <2>1. requests' \in [Keys -> Seq(Request)]
    BY <1>2, <1>3, <1>6, <1>8 DEF IInv, TypeOK
  <2>2. lost' \subseteq registered
    BY <1>2, <1>7 DEF IInv, TypeOK
  <2> QED BY <1>1, <1>4, <2>1, <2>2 DEF IInv, TypeOK
<1>11. OneEach'
  <2>1. ASSUME NEW j \in Keys
        PROVE  /\ Len(requests'[j]) <= 1 /\ (timer' = j => Len(requests'[j]) = 0)
               /\ \A d \in DOMAIN due' : due'[d] = j => Len(requests'[j]) = 0 /\ timer' # j
    <3>1. CASE j = k
      BY <1>1, <1>6, <1>7, <1>8, <1>9, <3>1
    <3>2. CASE j # k
      BY <1>1, <1>5, <1>8, <3>2 DEF IInv, OneEach
    <3> QED BY <3>1, <3>2
  <2>2. ASSUME NEW i \in DOMAIN due', NEW j \in DOMAIN due', due'[i] = due'[j] PROVE i = j
    <3>1. i + 1 = j + 1
      BY <1>5, <2>2 DEF IInv, OneEach
    <3> QED BY <1>5, <3>1
  <2> QED BY <2>1, <2>2 DEF OneEach
<1>12. AsksForRegistered'
  <2>1. \A j \in DOMAIN due' : due'[j] \in registered
    BY <1>5 DEF IInv, AsksForRegistered
  <2> QED BY <1>1, <1>7, <1>8, <2>1 DEF IInv, AsksForRegistered
<1>13. \A j \in DOMAIN s : s[j] = [asked |-> NoIndex, reply |-> NoReply]
  <2>1. \A j \in DOMAIN s : j = 1 /\ Len(s) = 1
    BY <1>6
  <2> QED BY <1>6, <2>1
<1>14. IndexIsOffered' /\ AsksWhatIsSaved'
  BY <1>1, <1>8, <1>13 DEF IInv, IndexIsOffered, Offered, AsksWhatIsSaved, NoReply
<1>15. RepliesAreNewer'
  BY <1>1, <1>8, <1>13 DEF IInv, RepliesAreNewer, NoReply
<1> QED BY <1>10, <1>11, <1>12, <1>14, <1>15 DEF IInv

-----------------------------------------------------------------------------
LEMMA NextIInv == IInv /\ [Next]_vars => IInv'
<1> SUFFICES ASSUME IInv, [Next]_vars PROVE IInv'
  OBVIOUS
<1>1. ASSUME NEW k \in Keys, Changes(k) PROVE IInv'
  BY <1>1, ChangesIInv
<1>2. ASSUME NEW k \in Keys, Answers(k) \/ AnswersUnchanged(k) \/ Fails(k) PROVE IInv'
  BY <1>2, AnsweredIInv DEF Answers, AnswersUnchanged, Fails
<1>3. CASE Init \/ Stop \/ \E k \in Keys : RegistKeyValue(k)
  <2>1. /\ UNCHANGED <<version, quality, requests, timer, due, modifyIndex, applied, refused,
                       lost>>
        /\ registered \subseteq registered' /\ registered' \subseteq Keys
        /\ posted' \in {"no", "yes", "run"} /\ stopped' \in BOOLEAN
        /\ posted = "run" => posted' = "run"
    BY <1>3 DEF Init, Stop, RegistKeyValue, server, objects, IInv, TypeOK
  <2>2. TypeOK'
    BY <2>1 DEF IInv, TypeOK
  <2>3. OneEach' /\ AsksForRegistered' /\ IndexIsOffered' /\ AsksWhatIsSaved' /\ RepliesAreNewer'
    BY <2>1 DEF IInv, OneEach, AsksForRegistered, IndexIsOffered, Offered, AsksWhatIsSaved,
                RepliesAreNewer
  <2> QED BY <2>2, <2>3 DEF IInv
<1>4. CASE GetKeyValueJson_All
  BY <1>4, GetAllIInv
<1>5. CASE TimerExpires
  BY <1>5, TimerIInv
<1>6. CASE Retry
  BY <1>6, RetryIInv
<1>7. ASSUME NEW k \in Keys, OnResponse(k) PROVE IInv'
  BY <1>7, OnResponseIInv
<1>8. CASE UNCHANGED vars
  BY <1>8 DEF vars, IInv, TypeOK, OneEach, AsksForRegistered, IndexIsOffered, Offered,
              AsksWhatIsSaved, RepliesAreNewer
<1> QED BY <1>1, <1>2, <1>3, <1>4, <1>5, <1>6, <1>7, <1>8 DEF Next, Network, Program, IoThread

\* The inductive invariant holds in every state.
THEOREM Invariant == Spec => []IInv
<1>1. Begin => IInv
  BY BeginIInv
<1>2. IInv /\ [Next]_vars => IInv'
  BY NextIInv
<1> QED BY <1>1, <1>2, PTL DEF Spec

\* ConsulClient.h:70-94: every variable keeps its kind, and only keys that were
\* registered are ever given up.
THEOREM TypeCorrect == Spec => []TypeOK
<1>1. IInv => TypeOK
  BY DEF IInv
<1> QED BY <1>1, Invariant, PTL

\* ConsulClient.cpp:184-258: no two of a key's requests and retries are ever under way.
THEOREM AlwaysOneChain == Spec => []OneChain
<1>1. IInv => OneChain
  <2> SUFFICES ASSUME IInv, NEW k \in Keys, NEW x \in Chains(k), NEW y \in Chains(k)
               PROVE  x = y
    BY DEF OneChain
  <2>1. \A z \in Chains(k) :
          \/ z = <<"request", 1>> /\ Len(requests[k]) = 1
          \/ z = <<"timer", 0>> /\ timer = k
          \/ \E j \in DOMAIN due : z = <<"due", j>> /\ due[j] = k
    BY RequestFacts DEF Chains
  <2> QED BY <2>1 DEF IInv, OneEach
<1> QED BY <1>1, Invariant, PTL

\* ConsulClient.cpp:181-182, 240-245: a blocking query sleeps on the version that its object
\* holds or, if it has refused one since, on that one.
THEOREM AlwaysWatchesWhatItHas == Spec => []WatchesWhatItHas
<1>1. IInv => WatchesWhatItHas
  BY DEF IInv, IndexIsOffered, Offered, AsksWhatIsSaved, WatchesWhatItHas
<1> QED BY <1>1, Invariant, PTL

\* ConsulClient.cpp:242: "the content is parsed, on to the next watch".  That is so when
\* no content is ever refused without a throw: then the object holds what is waited on.
THEOREM WatchesWhatItHolds ==
  ASSUME "refused" \notin Qualities
  PROVE  Spec => [](\A k \in Keys : \A i \in DOMAIN requests[k] :
                      requests[k][i].asked # NoIndex => requests[k][i].asked = applied[k])
<1>1. IInv => \A k \in Keys : \A i \in DOMAIN requests[k] :
                requests[k][i].asked # NoIndex => requests[k][i].asked = applied[k]
  BY DEF IInv, IndexIsOffered, Offered, AsksWhatIsSaved
<1> QED BY <1>1, Invariant, PTL

\* ConsulClient.cpp:238-244: an object is never given an older version than it holds.
THEOREM ObjectsNeverGoBack == Spec => NeverGoesBack
<1>1. IInv /\ [Next]_vars => [\A k \in Keys : applied'[k] >= applied[k]]_vars
  <2> SUFFICES ASSUME IInv, Next, NEW k \in Keys PROVE applied'[k] >= applied[k]
    OBVIOUS
  <2>1. \A j \in Keys : applied[j] \in Int
    BY ConsulAssumption DEF IInv, TypeOK, Versions, ConsulAssumption
  <2>2. CASE UNCHANGED applied
    BY <2>1, <2>2
  <2>3. CASE \E j \in Keys : \E i \in DOMAIN requests[j] : OnChanged(j, i)
    <3>1. PICK j \in Keys : \E i \in DOMAIN requests[j] : OnChanged(j, i)
      BY <2>3
    <3> PICK i \in DOMAIN requests[j] : OnChanged(j, i)
      BY <3>1
    <3> DEFINE reply == requests[j][i].reply
    <3>2. /\ applied' = [applied EXCEPT ![j] = reply.index] \/ UNCHANGED applied
          /\ reply.what \in {"good", "refused"}
      BY DEF OnChanged, Parsed
    <3>3. applied[j] <= modifyIndex[j] /\ modifyIndex[j] <= reply.index
      BY <3>2 DEF IInv, RepliesAreNewer
    <3>4. modifyIndex[j] \in Int /\ reply.index \in Int
      <4>1. requests[j][i] \in Request
        BY RequestFacts
      <4> QED BY <4>1, ConsulAssumption DEF IInv, TypeOK, Request, Versions, ConsulAssumption
    <3> HIDE DEF reply
    <3>5. applied[j] <= reply.index
      BY <2>1, <3>3, <3>4
    <3>6. CASE UNCHANGED applied
      BY <2>1, <3>6
    <3>7. CASE applied' = [applied EXCEPT ![j] = reply.index]
      BY <2>1, <3>4, <3>5, <3>7 DEF IInv, TypeOK
    <3> QED BY <3>2, <3>6, <3>7
  <2> QED BY <2>2, <2>3 DEF Next, Network, Program, IoThread, Changes, Answers, AnswersUnchanged,
             Fails, Answered, Init, Stop, RegistKeyValue, GetKeyValueJson_All, TimerExpires, Retry,
             OnResponse, OnError, OnUnchanged, OnGarbage, err_callback, objects
<1> QED BY <1>1, Invariant, PTL DEF Spec, NeverGoesBack
================================================================================
