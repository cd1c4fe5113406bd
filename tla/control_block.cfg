SPECIFICATION Spec
CONSTANTS
  t1 = t1
  t2 = t2
  b1 = b1
  b2 = b2
  b3 = b3
  NULL = NULL
  Thread = {t1, t2}
  Block = {b1, b2, b3}
  MaxHandles = 2
SYMMETRY Symmetric
INVARIANTS
  TypeOK
  HandlesKeep
  QueuedOnce
  NothingLeaks
  CountersAreExact
PROPERTIES
  FreedAfterDestroyed
CHECK_DEADLOCK FALSE
