SPECIFICATION OrchFairSpec
CONSTANTS
  Replica = {1}
  Kind = {"tx"}
  Reply = {0, 100}
  MaxTx = 2
  MaxFaults = 1
PROPERTY FetchedIsEvaluated
CHECK_DEADLOCK FALSE
