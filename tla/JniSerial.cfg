SPECIFICATION Spec
CONSTANTS
  Threads = {t1, t2}
  MaxDepth = 2
  MaxCalls = 3
SYMMETRY Symmetry
INVARIANT ReferencesValid
INVARIANT IdsResolved
CHECK_DEADLOCK FALSE
