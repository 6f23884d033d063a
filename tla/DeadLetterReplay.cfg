SPECIFICATION BusSpec
CONSTANTS
  Worker = {1}
  Group = {"g1"}
  GroupOf <- OneGroup
  Malformed = {}
  MaxRetries = 1
  MaxLog = 3
  MaxEvents = 3
  MaxFaults = 0
  MaxSends = 1
  BatchSize = 2
INVARIANT SkippedWasHandled
CHECK_DEADLOCK FALSE
