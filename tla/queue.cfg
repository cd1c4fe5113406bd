SPECIFICATION FairSpec
CONSTANTS
  t1 = t1
  t2 = t2
  n1 = n1
  n2 = n2
  n3 = n3
  n4 = n4
  v1 = v1
  v2 = v2
  NULL = NULL
  None = None
  Thread = {t1, t2}
  Node = {n1, n2, n3, n4}
  Value = {v1, v2}
INVARIANTS
  TailIsNearTheEnd
PROPERTIES
  ImplementsQueue
  LockFree
