\* A COPY that fails after its status was sent.
SPECIFICATION Spec
CONSTANTS
  Clients = {c1}
  Keys = {k1, k2}
  Plain = k1
  Doubled = k1
  Path <- OwnPath
  Contents = {v1}
  MaxCalls = 1
INVARIANTS DeleteOnlyCopied
\* After the last call that the bound allows nothing happens any more.
CHECK_DEADLOCK FALSE
