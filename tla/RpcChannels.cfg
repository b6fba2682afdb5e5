SPECIFICATION Spec
CONSTANTS
  u1 = u1
  u2 = u2
  User = {u1, u2}
  Loop = loop
  Ping = ping
  Chan = {k1}
  None = None
  Calls <- ChannelCalls
  Events = {"bye", "open", "close", "garbage"}
  Shard <- ByParity
  ChanCap = 1
  AcceptCap = 1
  MaxId = 1
  MaxPeerId = 0
  MaxData = 3
  MaxFlight = 1
CHECK_DEADLOCK FALSE
INVARIANTS
  TypeOK
  PanicNeedsCloser
PROPERTIES
  ChannelsAreFifo
