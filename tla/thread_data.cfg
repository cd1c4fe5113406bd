SPECIFICATION Spec
CONSTANTS
  MaxHP = 2
  MaxRetired = 3
  ScanDelay = 2
  Ptr <- MCPtr
INVARIANTS
  TypeOK
  FreeListIsExact
  RecordsAreKept
  KeepsWhatIsDue
CHECK_DEADLOCK FALSE
