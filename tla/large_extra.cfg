SPECIFICATION Spec
CONSTANTS
  MaxLen = 1
  MaxAmount = 2
INVARIANT LargeExtraRefused
\* A behaviour is one computation and stops after it.
CHECK_DEADLOCK FALSE
