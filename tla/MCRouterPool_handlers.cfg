SPECIFICATION FairSpec
CONSTANTS
  Listeners = {l1, l2}
  Callers = {l2}
  Natives = {n1}
  OldDbs <- OldDbsOther
  MacsOf <- MacsOfResolved
  RegMacs = {m2}
  Pins = {1}
  NoMac = NoMac
  NoNative = NoNative
  NoRecord = NoRecord
  n1 = n1
  m1 = m1
  m2 = m2
  FirstHost = 1
  LastHost = 2
  MaxRecords = 3
  MaxFaults = 1
  MaxRestarts = 1
INVARIANTS
  ManagedIsOwn
  OneRecordPerNative
  NoLeak
PROPERTIES
  ManagedIsStable
  AllocatorSpec
  EventuallyReserved
CHECK_DEADLOCK FALSE
