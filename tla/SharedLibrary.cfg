SPECIFICATION SharedSpec
CONSTANTS
  Worker = {1, 2}
  Group = {"g1"}
  GroupOf <- OneGroup
  Malformed <- AnyMalformed
  MaxRetries = 2
  MaxLog = 2
  MaxEvents = 6
  MaxFaults = 2
  Client = {c1, c2}
  Token = {t1, t2, t3}
  None = None
  RetryCount = 2
  Ttl = 2
  MaxNetwork = 2
INVARIANTS
  TypeOK
  LossInv
  NoSilentLoss
  SkipsAreDuplicates
  DuplicatesNeedFaults
  LockTypeOK
  LeaseExclusion
PROPERTIES
  ImplementsDelivery
  EveryRecordDelivered
  OrphanFreed
CHECK_DEADLOCK FALSE
