SPECIFICATION FairSpec
CONSTANTS
  Supervisor = s
  Requests = {r}
  None = None
  DeviceVersions = {"3.3", "3.4"}
  StoredFor <- StaleOrNone
  Offline = Offline
  MaxRequests = 1
  MaxChanges = 1
  MaxFaults = 1
  MaxSeq = 9
INVARIANTS
  TypeOK
  SeqFresh
  FailedIsUntouched
PROPERTIES
  ReplyIsOfThisCall
  Heals
