SPECIFICATION GatewaySpec
CONSTANTS
  Requests = {p, q}
  Txns = {t, u}
  PoolLimit = 1
  MaxFaults = 2
  Sockets = {s1, s2, s3}
  MaxFeed = 2
  Clients = {c1, c2}
  MaxEvents = 3
  QueueSize = 1
  Replicas = {r1, r2}
  Amounts = {1, 2}
  MaxCounted = 1
  HttpRequests = {x, y}
  Given = {g}
  MaxLines = 1
INVARIANTS
  GatewayTypeOK
  DivergenceNeedsCause
  ConnectionsReturned
  BroadcastReaches
  EachRecordInOnePlace
  TornReadBounded
  FailuresTraceable
PROPERTIES
  EveryRequestEnds
CHECK_DEADLOCK FALSE
