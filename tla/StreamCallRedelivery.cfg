SPECIFICATION Spec
CONSTANTS
  c1 = c1
  c2 = c2
  n1 = n1
  id1 = id1
  s1 = s1
  s2 = s2
  Subs = {s1, s2}
  NoSub = NoSub
  NoId = NoId
  NoMsg = NoMsg
  Async = {c1}
  Sync = {}
  Notifies = {n1}
  Msgs = {c1, n1}
  MsgIds = {}
  QosOf <- Qos1
  MsgIdOf <- PlainMsgId
  AnswerOf <- PlainAnswers
  Unencodable = {}
  Lossy = TRUE
  MaxTimeouts = 1
  MaxAge = 3
  Duplicates = 2
  AckWait = 1
  MaxMsgs = 1
  MaxDeliver = 2
  MaxAckPending = 1
SYMMETRY SubSymmetry
INVARIANTS
  ExecutionsBounded
  AnswerIsLast
PROPERTIES
  HandledBeforeGone
  ImplementsRpc
CHECK_DEADLOCK FALSE
