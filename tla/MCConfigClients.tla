--------------------------- MODULE MCConfigClients ---------------------------
(***************************************************************************)
(* One program that reads its configuration from Consul or one that reads  *)
(* it from Apollo: the two clients share nothing, so each is checked on    *)
(* its own.                                                                *)
(***************************************************************************)
EXTENDS ConsulClient, ApolloState

VARIABLE client

Apollo == INSTANCE ApolloConfigClient

apolloVars == <<release, kind, namespaces, phase, m_totalConfigs, watch, asked, changed,
                failed, m_notificationId, fetches, loaded, missed>>

\* The client that does not run starts in one state only.
BothInit == /\ Begin /\ Apollo!Init
            /\ \/ client = "consul" /\ kind = [n \in Namespaces |-> "good"]
               \/ client = "apollo" /\ quality = [k \in Keys |-> "good"]

BothNext == /\ \/ client = "consul" /\ Next /\ UNCHANGED apolloVars
               \/ client = "apollo" /\ Apollo!Next /\ UNCHANGED vars
            /\ UNCHANGED client

\* No action that fairness speaks of is enabled in the client that does not run.
BothSpec == /\ BothInit /\ [][BothNext]_<<client, vars, apolloVars>>
            /\ Fairness /\ Apollo!Fairness

\* ApolloConfigClient.cpp:127-149, 176-208: whatever a watch ends in, the next goes out,
\* unless it cannot be written as JSON.
KeepsWatching == Apollo!KeepsWatching

\* ApolloConfigClient.cpp:69-74: the waiting program goes on unless the watch is over or a
\* first load is lost.
WaitEnds == Apollo!WaitEnds
=============================================================================
