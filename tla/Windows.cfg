SPECIFICATION WindowsSpec
CONSTANTS
  Calls = {c1, c2, c3}
  Origins <- SomeOrigins
  Limit = 1
  Second = 2
  Window = 4
  KeySlack = 1
  MaxClock = 5
  Callers = {a, b}
  Windows = {1, 3}
  Margin = 1
  MaxDelay = 1
  MaxTime = 4
  MaxRecorded = 2
  Users = {u, v}
  Spans = {1, 2}
  Allowed = 1
  MaxSecond = 4
  MaxIncr = 3
  Workers = {w1, w2}
  Amounts = {2}
  Countries = {k}
  WindowLen = 2
  KeyTail = 1
  Lag = 1
  MaxCount = 1
  MaxSum = 3
  RapidFire = 1
  MaxTxns = 2
  MaxHandovers = 2
  Horizon = 3
  Replicas = {r1, r2}
  Alerts = {p, q}
  Severities = {"HIGH", "LOW"}
  MaxRequests = 2
  MaxMishaps = 1
SYMMETRY Alike
INVARIANTS
  WindowsTypeOK
  LimitNeedsDelay
  ExceededExplained
  SnapshotExplained
  DeliveriesExplained
  NotifiedOrBroken
PROPERTIES
  CountsExplained
CHECK_DEADLOCK FALSE
