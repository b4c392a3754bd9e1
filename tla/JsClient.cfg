SPECIFICATION FairSpec
CONSTANTS
  a1 = a1
  b1 = b1
  n1 = n1
  o1 = o1
  Async = {a1}
  Sync = {b1}
  Notifies = {n1}
  Opts = {o1}
  OptsOf <- SharedOpts
  QosOf <- Qualities
  WithMsgId = {o1}
  Encodings <- SameAndMixed
  ResultsOf <- Returns
  MaxServed = 1
INVARIANTS
  TypeOK
  ResponseIsLast
  AnswerIsHandlers
  DowngradeByLookup
PROPERTIES
  CallSettles
  SubscriptionEnds
CHECK_DEADLOCK FALSE
