SPECIFICATION BusSpec
CONSTANTS
  Worker = {1}
  Group = {"g1"}
  GroupOf <- OneGroup
  Malformed <- SomeMalformed
  MaxRetries = 1
  MaxLog = 3
  MaxEvents = 3
  MaxFaults = 1
  MaxSends = 2
  BatchSize = 2
INVARIANTS
  BusTypeOK
  ReplayLosesNothing
PROPERTY
  ImplementsConsumer
CHECK_DEADLOCK FALSE
