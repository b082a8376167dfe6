\* A move of an object whose key has an empty part.
SPECIFICATION Spec
CONSTANTS
  Clients = {c1}
  Keys = {k1, k2, k3}
  Plain = k1
  Doubled = k2
  Path <- SharedPath
  Contents = {v1}
  MaxCalls = 1
INVARIANTS DeletesItsSource
\* After the last call that the bound allows nothing happens any more.
CHECK_DEADLOCK FALSE
