CONSTANTS
  NRange <- McNRange
  CRange <- McCRange
  HRange <- McHRange
  WRange <- McWRange
  RetryTestCount = 2
  MinExecTests = 20
  LmemSize = 256
  NpuNum = 8
  EuNum = 16
INIT Init
NEXT Next
\* random_test returns: the final states have no successor.
CHECK_DEADLOCK FALSE
INVARIANTS
  StopsAtFirstError
