SPECIFICATION FairSpec
CONSTANTS
  u1 = u1
  u2 = u2
  User = {u1, u2}
  Loop = loop
  Ping = ping
  Chan = {k1}
  None = None
  Calls <- RequestCalls
  Events = {"break", "bye", "tick", "message"}
  Shard <- ByParity
  ChanCap = 1
  AcceptCap = 1
  MaxId = 2
  MaxPeerId = 0
  MaxData = 0
  MaxFlight = 1
CHECK_DEADLOCK FALSE
INVARIANTS
  AnswersRouted
PROPERTIES
  EndNoticed
