SPECIFICATION Spec
CONSTANTS
  t1 = t1
  t2 = t2
  e1 = e1
  e2 = e2
  p1 = p1
  p2 = p2
  c1 = c1
  NULL = NULL
  Thread = {t1, t2}
  Entry = {e1, e2}
  Ptr = {p1, p2}
  Cell = {c1}
  Readers = {t1, t2}
  Writers = {t1, t2}
  Disposer <- MCDisposer
  DisposerOf <- MCDisposerOf
  MaxHP = 1
  MaxRetired = 1
  ScanDelay = 1
SYMMETRY Symmetric
INVARIANTS
  TypeOK
  ExclusiveEntry
  GuardKeepsReference
CHECK_DEADLOCK FALSE
