SPECIFICATION FlowFairSpec
CONSTANTS
  Fields = {"mode", "switch1"}
  Pollers = {sup, get}
  Commanders = {c1}
  Unknown = Unknown
  Absent = Absent
  BusCapacity = 2
  MaxChanges = 1
  MaxFaults = 1
  MaxRestarts = 1
PROPERTIES
  EchoKeepsKnown
  EventuallyFresh
