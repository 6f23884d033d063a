SPECIFICATION FairSpec
CONSTANTS
  Worker = {1}
  Group = {"g1"}
  GroupOf <- OneGroup
  Malformed <- Undecodables
  MaxRetries = 1
  MaxLog = 2
  MaxEvents = 2
  MaxFaults = 0
PROPERTY UnparseableDeadLettered
CHECK_DEADLOCK FALSE
