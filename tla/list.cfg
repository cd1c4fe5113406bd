SPECIFICATION FairSpec
CONSTANTS
  t1 = t1
  t2 = t2
  t3 = t3
  e1 = e1
  e2 = e2
  e3 = e3
  NULL = NULL
  Thread = {t1, t2, t3}
  Entry = {e1, e2, e3}
INVARIANTS
  TypeOK
  ExclusiveEntry
  LossesAreBounded
PROPERTIES
  ImplementsRegistry
  LinksAreStable
  AcquireReturns
CHECK_DEADLOCK FALSE
