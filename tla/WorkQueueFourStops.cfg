SPECIFICATION FairSpec
CONSTANTS
  sayHello = sayHello
  sayBye = sayBye
  a1 = a1
  a2 = a2
  b1 = b1
  b2 = b2
  n1 = n1
  stop1 = stop1
  stop2 = stop2
  stop3 = stop3
  stop4 = stop4
  NoMsg = NoMsg
  Services = {sayHello, sayBye}
  Incoming <- TwoServices
  Nested = {n1}
  CallerOf <- Callers
  CalledOf <- Called
  Capacity = 1
  Stoppers = {stop1, stop2, stop3, stop4}
  OptionOf <- FourStops
  Second = 10
  Half = 922
  Lifetime = 100
INVARIANTS
  TypeOK
  Fifo
  ServiceOrder
  InProcess
  NestedCallNeedsStop
  PanicOnSecondClose
PROPERTIES
  AddMsgReturns
  MessagesProcessed
CHECK_DEADLOCK FALSE
