SPECIFICATION Spec
CONSTANTS
  d1 = d1
  d2 = d2
  r1 = r1
  r2 = r2
  r3 = r3
  Devices = {d1}
  Requests = {r1, r2}
  Shards = {s1}
  ShardOf <- OneShard
  OpsOf <- Reregister
  NoPlugin = NoPlugin
  Workers = 2
  BusCapacity = 1
  MaxInstances = 3
  MaxRequests = 3
INVARIANTS
  NoOrphan
CHECK_DEADLOCK FALSE
