SPECIFICATION FairSpec
CONSTANTS
  d1 = d1
  d2 = d2
  r1 = r1
  r2 = r2
  r3 = r3
  Devices = {d1}
  Requests = {r1, r2, r3}
  Shards = {s1}
  ShardOf <- OneShard
  OpsOf <- OneRegistrar
  NoPlugin = NoPlugin
  Workers = 2
  BusCapacity = 1
  MaxInstances = 2
  MaxRequests = 3
INVARIANTS
  GuardPinsEntry
  RegisteredIsSupervised
  OrphansWereReplaced
PROPERTIES
  RequestsEnd
  KeepsPolling
CHECK_DEADLOCK FALSE
