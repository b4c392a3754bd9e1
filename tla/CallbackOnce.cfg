SPECIFICATION Spec
CONSTANTS
  c1 = c1
  c2 = c2
  n1 = n1
  id1 = id1
  s1 = s1
  s2 = s2
  Subs = {s1}
  NoSub = NoSub
  NoId = NoId
  NoMsg = NoMsg
  Async = {c1}
  Sync = {}
  Notifies = {}
  Msgs = {c1}
  MsgIds = {}
  QosOf <- Qos1
  MsgIdOf <- PlainMsgId
  AnswerOf <- PlainAnswers
  Unencodable = {}
  Lossy = FALSE
  MaxTimeouts = 2
  MaxAge <- DefaultMaxAge
  Duplicates <- DefaultDuplicates
  AckWait <- DefaultAckWait
  MaxMsgs = 2
  MaxDeliver = 2
  MaxAckPending = 2
INVARIANTS
  CallbackOnce
CHECK_DEADLOCK FALSE
