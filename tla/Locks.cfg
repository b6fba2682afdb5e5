SPECIFICATION Spec
CONSTANTS
  p1 = p1
  p2 = p2
  s1 = s1
  s2 = s2
  Plugin = {p1, p2}
  Shard = {s1}
  ShardOf <- OneShard
  Worker = {w1, w2}
  Heartbeat = heartbeat
  None = None
  Gone = Gone
  MaxRecord = 3
SYMMETRY WorkerSymmetry
CHECK_DEADLOCK FALSE
INVARIANTS
  OrderKept
  StuckOnlyInExit
