SPECIFICATION Spec
CONSTANTS
  p1 = p1
  p2 = p2
  sayHello = sayHello
  group = group
  bound = bound
  core = core
  small = small
  large = large
  Procs = {p1, p2}
  Services = {sayHello, group, bound, core}
  Streamed = {sayHello, group, bound}
  Grouped = {group}
  Bound = {bound}
  Configs = {small, large}
  ConfigOf <- TwoConfigs
  Compatible <- Growing
  NoConfig = NoConfig
  MaxStarts <- Starts
  MaxServices = 2
  MaxRegisters <- Registers
INVARIANTS
  TypeOK
  DeafByAnother
  CreatorIsAlone
  PanicNeedsConflict
  UnRegisterSilences
CHECK_DEADLOCK FALSE
