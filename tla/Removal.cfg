SPECIFICATION Spec
CONSTANTS
  c1 = c1
  c2 = c2
  Client = {c1, c2}
  Proc = {p1}
  Obj = {o1, o2}
  Heartbeat = heartbeat
  Pinger = pinger
  CoDeath = coDeath
  None = None
  Calls <- RemovalCalls
  Events = {"removeAll", "heartbeat"}
  MaxVersion = 1
  AutoExit = TRUE
  Debug = FALSE
  AutoExitTimeLimit = 1
  MaxClock = 2
CHECK_DEADLOCK FALSE
INVARIANTS
  ConnectionsExact
PROPERTIES
  LockDiscipline
