------------------------------ MODULE ApolloState ------------------------------
(***************************************************************************)
(* What an Apollo client is checked with, its state and what holds of every*)
(* state, in a module of their own for ApolloConfigClient and for the      *)
(* modules that compose it.                                                *)
(***************************************************************************)
EXTENDS Integers, FiniteSets, Sequences

CONSTANTS Namespaces,
          MaxRelease,       \* bound: a namespace is released so often
          Kinds             \* contents the server may hold: "good" and maybe "bad"

ASSUME ApolloAssumption == IsFiniteSet(Namespaces) /\ MaxRelease \in Nat \ {0}

VARIABLES release, kind,    \* the server: notification id and content of each namespace
          namespaces,       \* namespaces registered, of m_appIdAndCluster
          phase,            \* the program: "setup", "waiting" in the loop, "done"
          m_totalConfigs,
          watch,            \* "none", "posted", "asked", "answered", "timer" or "ended"
          asked,            \* the ids the watch request carries
          changed,          \* its answer: ids of the namespaces that moved on
          failed,           \* or an error
          m_notificationId,
          fetches,          \* GetOneConfig requests of each namespace, oldest first
          loaded,           \* id of what each ParseConfig took last, 0 for nothing
          missed            \* history: namespaces a load of which was lost or undone

-----------------------------------------------------------------------------
\* ApolloConfigClient.cpp:190-191: an id is saved before its content has come; once no
\* fetch is under way the content of that id or a later one is loaded, unless a fetch
\* was lost, refused or overtaken by another of the same namespace.
LoadedOrMissed ==
  \A n \in Namespaces :
    fetches[n] = <<>> /\ n \notin missed => loaded[n] >= m_notificationId[n]
=============================================================================
