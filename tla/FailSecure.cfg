SPECIFICATION OrchSpec
CONSTANTS
  Replica = {1}
  Kind = {"tx"}
  Reply <- Replies
  MaxTx = 1
  MaxFaults = 0
INVARIANT DegradedBlocks
CHECK_DEADLOCK FALSE
