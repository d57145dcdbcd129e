CONSTANTS
  BatchRange <- McBatchRange
  HeightRange <- McHeightRange
  WidthRange <- McWidthRange
  DepthRange <- McDepthRange
  KernelHRange <- McKernelHRange
  KernelWRange <- McKernelWRange
  StrideHRange <- McStrideHRange
  StrideWRange <- McStrideWRange
  RetryTestCount = 2
  MinExecTests = 20
  LmemSize = 32768
  NpuNum = 8
  EuNum = 16
INIT Init
NEXT Next
\* random_test returns: the final states have no successor.
CHECK_DEADLOCK FALSE
INVARIANTS
  TypeOK
  StopsAtFirstError
