SPECIFICATION Spec
CONSTANTS
  c1 = c1
  c2 = c2
  Client = {c1, c2}
  Proc = {p1}
  Obj = {o1}
  Heartbeat = heartbeat
  Pinger = pinger
  CoDeath = coDeath
  None = None
  Calls <- InstallCalls
  Events = {}
  MaxVersion = 2
  AutoExit = FALSE
  Debug = FALSE
  AutoExitTimeLimit = 1
  MaxClock = 1
SYMMETRY ProcSymmetry
CHECK_DEADLOCK FALSE
PROPERTIES
  InstallStopsFirst
