SPECIFICATION DSpec
CONSTANTS
  t1 = t1
  t2 = t2
  e1 = e1
  e2 = e2
  p1 = p1
  p2 = p2
  c1 = c1
  NULL = NULL
  Thread = {t1, t2}
  Entry = {e1, e2}
  Ptr = {p1}
  Cell = {c1}
  Readers = {t1, t2}
  Writers = {t1, t2}
  Disposer <- MCDisposer
  DisposerOf <- MCDisposerOf
  MaxHP = 1
  MaxRetired = 2
  ScanDelay = 2
SYMMETRY Symmetric
INVARIANTS
  GuardKeepsReference
  ScanSparesAtMostOnePerSlot
PROPERTIES
  ImplementsReclaimer
CHECK_DEADLOCK FALSE
