SPECIFICATION Spec
CONSTANTS
  MaxLen = 2
  MaxAmount = 4
INVARIANT FeeRefusedOnlyIfShort
\* A behaviour is one computation and stops after it.
CHECK_DEADLOCK FALSE
