SPECIFICATION Spec
CONSTANTS
  MaxLen = 3
  MaxAmount = 5
INVARIANTS
  SelectionIsLeast SplitKeepsChange AddressReadsBack InvoiceReadsBack
  EverySessionReads KernelAmountsAddUp
\* A behaviour is one computation and stops after it.
CHECK_DEADLOCK FALSE
