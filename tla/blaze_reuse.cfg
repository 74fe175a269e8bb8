SPECIFICATION Spec
CONSTANTS
  MaxLoop = 3
  FreshClient = FALSE
  x1 = x1
  m1 = m1
  m2 = m2
  m3 = m3
  Senders = {}
  Messages = {m1, m2}
  Kind <- WithOther
  SyncAck = TRUE
  ReadCap = 1
  WriteCap = 1
  Refusable = {}
  Failing = {}
  MaxErrors = 0
  TimeoutHosts = {"configured"}
INVARIANT HookHasCaller
PROPERTY ImplementsFeed
\* A pump left by the first Loop may stay blocked on writeDone for ever.
CHECK_DEADLOCK FALSE
