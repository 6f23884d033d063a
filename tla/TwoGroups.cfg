SPECIFICATION Spec
CONSTANTS
  Worker = {1, 2}
  Group = {"g1", "g2"}
  GroupOf <- OwnGroup
  Malformed = {}
  MaxRetries = 1
  MaxLog = 2
  MaxEvents = 2
  MaxFaults = 0
INVARIANT SkipsAreOwnDuplicates
CHECK_DEADLOCK FALSE
