CONSTANTS
  Geometries <- SmallGeometries
  RetryCnt = 2
  NULL = NULL
INIT Init
NEXT Next
\* _test_pooling returns: the final states have no successor.
CHECK_DEADLOCK FALSE
INVARIANTS
  TypeOK
  RetryLeavesLmemAsFound
PROPERTIES
  LmemFreedLifo
