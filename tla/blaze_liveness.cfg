SPECIFICATION FairSpec
CONSTANTS
  MaxLoop = 2
  FreshClient = TRUE
  x1 = x1
  m1 = m1
  m2 = m2
  m3 = m3
  Senders = {}
  Messages = {m1}
  Kind <- AllMessages
  SyncAck = TRUE
  ReadCap = 1
  WriteCap = 1
  Refusable = {}
  Failing = {"LIST_PENDING_MESSAGES", "ACKNOWLEDGE_MESSAGE_RECEIPT"}
  MaxErrors = 1
  TimeoutHosts = {}
PROPERTY MessageHandled
