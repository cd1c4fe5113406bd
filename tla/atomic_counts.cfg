SPECIFICATION Spec
CONSTANTS
  t1 = t1
  t2 = t2
  p1 = p1
  p2 = p2
  c1 = c1
  c2 = c2
  NULL = NULL
  Thread = {t1, t2}
  Slot = {1}
  Ptr = {p1, p2}
  Cell = {c1, c2}
  Disposer <- MCDisposer
  DisposerOf <- MCDisposerOf
  Kind = "decrementRef"
  MaxRefs = 4
SYMMETRY Symmetric
INVARIANTS
  TypeOK
  CountIsExact
  GuardedIsAlive
PROPERTIES
  ImplementsAtomicPointer
CHECK_DEADLOCK FALSE
