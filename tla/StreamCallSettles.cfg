SPECIFICATION FairSpec
CONSTANTS
  c1 = c1
  c2 = c2
  n1 = n1
  id1 = id1
  s1 = s1
  s2 = s2
  Subs = {s1}
  NoSub = NoSub
  NoId = NoId
  NoMsg = NoMsg
  Async = {c1}
  Sync = {c2}
  Notifies = {}
  Msgs = {c1, c2}
  MsgIds = {}
  QosOf <- CoreQos
  MsgIdOf <- NoMsgIds
  AnswerOf <- OddAnswers
  Unencodable = {}
  Lossy = TRUE
  MaxTimeouts = 1
  MaxAge = 1
  Duplicates = 1
  AckWait = 1
  MaxMsgs = 2
  MaxDeliver = 1
  MaxAckPending = 2
PROPERTIES
  CallSettles
CHECK_DEADLOCK FALSE
