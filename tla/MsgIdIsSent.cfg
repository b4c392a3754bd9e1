SPECIFICATION Spec
CONSTANTS
  a1 = a1
  b1 = b1
  n1 = n1
  o1 = o1
  Async = {a1}
  Sync = {b1}
  Notifies = {n1}
  Opts = {o1}
  OptsOf <- SharedOpts
  QosOf <- Qualities
  WithMsgId = {o1}
  Encodings <- SameAndMixed
  ResultsOf <- Returns
  MaxServed = 1
INVARIANT MsgIdIsSent
CHECK_DEADLOCK FALSE
