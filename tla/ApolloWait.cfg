\* Two namespaces, no request throws and every content is good: nothing excuses a
\* wait that ends early.
SPECIFICATION Spec
CONSTANTS
  Namespaces = {n1, n2}
  MaxRelease = 2
  Kinds = {"good"}
  RequestMayThrow = FALSE
INVARIANTS WaitLoadsAll
CHECK_DEADLOCK FALSE
