SPECIFICATION Spec
CONSTANTS
  c1 = c1
  c2 = c2
  n1 = n1
  id1 = id1
  s1 = s1
  s2 = s2
  Subs = {s1, s2}
  NoSub = NoSub
  NoId = NoId
  NoMsg = NoMsg
  Async = {c1}
  Sync = {c2}
  Notifies = {}
  Msgs = {c1, c2}
  MsgIds = {id1}
  QosOf <- RetryQos
  MsgIdOf <- RetryMsgId
  AnswerOf <- PlainAnswers
  Unencodable = {}
  Lossy = TRUE
  MaxTimeouts = 1
  MaxAge <- DefaultMaxAge
  Duplicates <- DefaultDuplicates
  AckWait <- DefaultAckWait
  MaxMsgs = 2
  MaxDeliver = 2
  MaxAckPending = 2
SYMMETRY SubSymmetry
INVARIANTS
  TypeOK
  AnswerFollowsHandler
  AnswerNeedsLookup
  AtMostOnce
  UniqueInStream
CHECK_DEADLOCK FALSE
