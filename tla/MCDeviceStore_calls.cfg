SPECIFICATION FairSpec
CONSTANTS
  Handlers = {h1, h2}
  Tuyas = {t}
  Bonds = {b}
  Mysas = {m}
  Groups = {g}
  Syncs = {s1}
  Loop = loop
  Profiles = {p, q}
  NoCaps = noCaps
  Ips = {i, j}
  None = none
  NoJob = noJob
  MaxChanges = 1
  MaxRequests = 2
  MaxCrashes = 1
INVARIANTS TypeOK LiveIsStored 
PROPERTY HubHeals
CHECK_DEADLOCK FALSE
