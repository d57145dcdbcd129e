CONSTANTS
  Batches = 1
  InputDepth = 1
  InputHeight = 1
  InputWidth = 3
  OutputDepth = 1
  OutputHeight = 1
  OutputWidth = 3
  FilterHeight = 1
  FilterWidth = 2
  StrideH = 1
  StrideW = 1
  PadTop = 0
  PadLeft = 1
  Inputs <- SmallInputs
  Filters <- SmallFilters
  HasBiasChoices = {TRUE, FALSE}
  Biases <- SmallBiases
  Multipliers <- SmallMultipliers
  Shifts <- SmallShifts
INIT Init
NEXT Next
CHECK_DEADLOCK FALSE
INVARIANTS
  TypeOK
  AccIsWindowSum
  OutputMatchesConvolution
