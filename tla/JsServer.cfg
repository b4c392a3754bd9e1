SPECIFICATION FairSpec
CONSTANTS
  sayHello = sayHello
  ping = ping
  h1 = h1
  h2 = h2
  p1 = p1
  p2 = p2
  WorkMsgs = {h1, p1, p2}
  Faulty = {p2}
  MaxTimers = 2
  MaxStops = 1
  Services = {sayHello, ping}
  KindOf <- Kinds
  Worked = {sayHello, ping}
  ServiceOf <- Owners
  MaxRegisters <- Registers
INVARIANTS
  TypeOK
  ProcessedInOrder
  RepeatedByStopOnly
  CoreServesOnce
  SetUpIsReceiving
PROPERTIES
  QueuedIsProcessed
CHECK_DEADLOCK FALSE
