SPECIFICATION FairSpec
CONSTANTS
  c1 = c1
  c2 = c2
  Clients = {c1, c2}
  Named = {c1}
  MaxConn = 5
  MaxMonitors = 2
  MaxEvents = 3
INVARIANTS
  TypeOK
  AnnouncedInOrder
  AnnouncedPerMonitor
PROPERTIES
  EventReaches
CHECK_DEADLOCK FALSE
