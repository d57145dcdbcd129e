CONSTANTS
  NULL = NULL
  InputN = 1
  InputC = 1
  InputH = 1
  InputW = 2
  Inputs <- SmallInputs
  Multipliers <- SmallMultipliers
  Shifts <- SmallShifts
  RetryCnt = 2
INIT Init
NEXT Next
\* run_compare_elt_mul returns: the final states have no successor.
CHECK_DEADLOCK FALSE
INVARIANTS
  TypeOK
  QuantizedOnlyWithValidMultiplier
PROPERTIES
  LmemFreedLifo
