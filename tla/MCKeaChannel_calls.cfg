SPECIFICATION FairSpec
CONSTANTS
  Listeners = {l}
  Rpcs = {r}
  Sync = sync
  Macs = {a, z}
  BadMacs = {z}
  OperatorMacs = {z}
  Conns = {1, 2}
  NoConn = 0
  NoCommand = NoCommand
  Nobody = Nobody
  a = a
  z = z
  MaxAbandoned = 1
  MaxKea = 1
  MaxRouter = 1
INVARIANTS
  AbandonedCallsLag
  AnswersInForce
PROPERTIES
  ChannelHeals
  StoredAreReserved
