SPECIFICATION Spec
CONSTANTS
  Threads = {t1, t2}
  Pcaps = {p1, p2}
  Dumpers = {d1}
  Addrs = {a1, a2}
  NULL = NULL
  None = None
  Exclusive = FALSE
  IllegalArgs = FALSE
SYMMETRY Symmetry
INVARIANT NoLeak
CHECK_DEADLOCK FALSE
