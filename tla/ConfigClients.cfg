\* Consul: two keys share the timer and a reply may be overtaken by one more change.
\* Apollo: two namespaces, each released once more while its first load is under way.
SPECIFICATION BothSpec
CONSTANTS
  Keys = {k1, k2}
  NULL = NULL
  MaxVersion = 2
  Qualities = {"good", "refused", "garbage"}
  RequestMayThrow = TRUE
  MayStop = TRUE
  Namespaces = {n1, n2}
  MaxRelease = 2
  Kinds = {"good", "bad"}
INVARIANTS TypeOK OneChain WatchesWhatItHas LoadedOrMissed
PROPERTIES NeverGoesBack CatchesUp KeepsWatching WaitEnds
CHECK_DEADLOCK FALSE
