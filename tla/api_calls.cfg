SPECIFICATION FairSpec
CONSTANTS
  t1 = t1
  t2 = t2
  Threads = {t1, t2}
  Performs <- EveryCall
  MaxSession = 2
  MaxWraps = 1
INVARIANTS TypeOK NeverUnsigned RefusedOnlyIfResigned NilMeansExecuted PaymentErrorsTold
PROPERTY EveryCallReturns
