CONSTANTS
  Calls = 2
  Passes = 2
  Chip = "CModelCmdbuf183x"
  NULL = NULL
SPECIFICATION Spec
\* main returns: the state at "exit" has no successor.
CHECK_DEADLOCK FALSE
INVARIANTS
  TypeOK
  HostReleasedBetweenCalls
PROPERTIES
  LmemFreedLifo
  MainTerminates
