SPECIFICATION Spec
CONSTANTS
  Threads = {t1, t2}
  Pcaps = {p1, p2}
  Dumpers = {d1}
  Addrs = {a1, a2, a3}
  NULL = NULL
  None = None
  Exclusive = TRUE
  IllegalArgs = TRUE
SYMMETRY Symmetry
INVARIANT TypeOK
INVARIANT CallsUseOwnStructure
INVARIANT AliasOnlyWhileClosing
PROPERTY FollowsLifecycle
CHECK_DEADLOCK FALSE
