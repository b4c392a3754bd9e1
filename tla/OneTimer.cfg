SPECIFICATION Spec
CONSTANTS
  sayHello = sayHello
  ping = ping
  h1 = h1
  h2 = h2
  p1 = p1
  p2 = p2
  WorkMsgs = {h1, h2, p1, p2}
  Faulty = {h2, p2}
  MaxTimers = 2
  MaxStops = 1
  Services = {sayHello, ping}
  KindOf <- StreamKinds
  Worked = {sayHello}
  ServiceOf <- Owners
  MaxRegisters <- Registers
INVARIANT OneTimer
CHECK_DEADLOCK FALSE
