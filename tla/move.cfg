\* Two clients that move and copy three objects while others put objects.
SPECIFICATION Spec
CONSTANTS
  Clients = {c1, c2}
  Keys = {k1, k2, k3}
  Plain = k1
  Doubled = k1
  Path <- OwnPath
  Contents = {v1, v2}
  MaxCalls = 3
SYMMETRY Symmetry
INVARIANTS CopyStays SuccessMeansMoved
PROPERTIES DeleteLeavesCopy
\* After the last call that the bound allows nothing happens any more.
CHECK_DEADLOCK FALSE
