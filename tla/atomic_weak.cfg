SPECIFICATION BothSpec
CONSTANTS
  t1 = t1
  t2 = t2
  p1 = p1
  s = s
  w = w
  NULL = NULL
  Thread = {t1, t2}
  Slot = {1}
  Ptr = {p1}
  Cell = {s, w}
  Disposer <- MCDisposer
  DisposerOf <- MCDisposerOf
  Kind = "decrementRef"
  MaxRefs = 3
SYMMETRY Symmetric
INVARIANTS
  BothTypeOK
  BothCountsAreExact
  GuardedIsNotFreed
  OnlyWeakRecordsUndercut
CHECK_DEADLOCK FALSE
