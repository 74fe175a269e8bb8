SPECIFICATION FairSpec
CONSTANTS
  t1 = t1
  t2 = t2
  Threads = {t1, t2}
  Performs <- PayAndRead
  MaxSession = 2
  MaxWraps = 1
INVARIANT SessionKeyAuthenticates
