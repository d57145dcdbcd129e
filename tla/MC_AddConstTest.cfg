CONSTANTS
  Calls = 2
  Passes = 2
  NULL = NULL
INIT Init
NEXT Next
\* main returns after the two calls: the final state has no successor.
CHECK_DEADLOCK FALSE
INVARIANTS
  TypeOK
  ReleasedBetweenCalls
PROPERTIES
  LmemFreedLifo
