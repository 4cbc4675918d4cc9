SPECIFICATION FairSpec
CONSTANTS
  Devices = {d}
  Worker = w
  Callers = {a}
  None = None
  QueueCapacity = 1
  MaxInbox = 2
  MaxChanges = 1
  MaxFaults = 1
  MaxExpiries = 1
  MaxLogouts = 1
INVARIANTS
  NothingUnsubscribed
PROPERTIES
  CredentialsFresh
  SetpointHeals
