SPECIFICATION OrchSpec
CONSTANTS
  Replica = {1, 2}
  Kind = {"tx", "empty", "bad", "odd"}
  Reply <- Replies
  MaxTx = 2
  MaxFaults = 2
INVARIANTS
  OrchTypeOK
  MetricsConsistent
  RepeatsNeedFaults
  LossBounded
CHECK_DEADLOCK FALSE
