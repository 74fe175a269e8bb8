SPECIFICATION BacklogSpec
CONSTANTS
  MaxLoop = 1
  FreshClient = TRUE
  x1 = x1
  m1 = m1
  m2 = m2
  m3 = m3
  Senders = {x1}
  Messages = {m1, m2, m3}
  Kind <- WithReceipt
  SyncAck = TRUE
  ReadCap = 1
  WriteCap = 1
  Refusable = {"CREATE_MESSAGE"}
  Failing = {"ACKNOWLEDGE_MESSAGE_RECEIPT"}
  MaxErrors = 1
  TimeoutHosts = {}
ACTION_CONSTRAINT PushedInOrder
INVARIANTS TypeOK FeedIsPrefix HookNeverBlocks AnswersStayOut NilMeansAnswered
PROPERTIES CallsReturn DeadConnectionEndsAll
