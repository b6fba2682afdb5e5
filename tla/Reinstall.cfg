SPECIFICATION Spec
CONSTANTS
  c1 = c1
  c2 = c2
  Client = {c1}
  Proc = {p1}
  Obj = {o1}
  Heartbeat = heartbeat
  Pinger = pinger
  CoDeath = coDeath
  None = None
  Calls <- ReinstallCalls
  Events = {"download"}
  MaxVersion = 1
  AutoExit = FALSE
  Debug = FALSE
  AutoExitTimeLimit = 1
  MaxClock = 1
CHECK_DEADLOCK FALSE
PROPERTIES
  ReinstallPossible
