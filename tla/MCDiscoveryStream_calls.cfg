SPECIFICATION DiscoveryFairSpec
CONSTANTS
  Tuyas = {d, e}
  Managed = {m}
  Loops = {l}
  Ear = l
  HeardBy <- HeardByEar
  None = None
  Firmwares = {"3.3"}
  Capacity = 1
  MaxMoves = 1
  MaxUnresolved = 0
  MaxFaults = 1
  MaxSilent = 1
INVARIANTS
  NothingMissed
PROPERTIES
  CoreLearns
