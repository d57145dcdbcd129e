CONSTANTS
  Batches = 1
  InputDepth = 1
  InputHeight = 1
  InputWidth = 2
  OutputDepth = 1
  OutputHeight = 1
  OutputWidth = 2
  FilterHeight = 1
  FilterWidth = 1
  StrideH = 1
  StrideW = 1
  PadTop = 0
  PadLeft = 0
  Inputs <- DrvInputs
  Filters <- DrvFilters
  HasBiasChoices = {TRUE, FALSE}
  Biases <- DrvBiases
  Multipliers <- DrvMultipliers
  Shifts <- DrvShifts
  RetryCnt = 3
  NULL = NULL
INIT DriverInit
NEXT DriverNext
\* run_compare_dw_conv returns: the final states have no successor.
CHECK_DEADLOCK FALSE
INVARIANTS
  AttemptsWithinBudget
  DriverTypeOK
  LmemReleasedOnReturn
PROPERTIES
  LmemFreedLifo
