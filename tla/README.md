# Verification of the real-time fraud detection services

TLA+ models of the parts of this repository whose correctness depends on the
order in which processes, messages and failures meet, the TLC configurations
that check them on small instances, and TLAPS proofs of the properties that
matter most. Paths are relative to the root of the repository (`src/`).

## 1. The system

    gateway --HTTP--> transaction-service --"transactions"--> fraud-orchestrator
        ^                                                       |  |  |
        |                                              gRPC: rule, ml, graph
        +--websocket-- "fraud.evaluated.transactions" <---------+
                                                                +--> Redis metrics:*

    alert.created --> alert-service --> case.opened --> case-management
    notification.requested --> notification-service
    transaction.created --> stream-processor, customer-profile --> Redis, SSE

Nothing in the repository publishes `alert.created`, `notification.requested`
or the topic `transaction.created`: those consumers are fed from outside.

| Component | State it keeps | Operations | What makes it hard | What makes it correct |
|---|---|---|---|---|
| `shared/fraud_common/kafka_utils.py`, consumer | offset, dedup keys in Redis, DLQ topic, `_running` | `start`, `stop`, `consume`, `_process_message`, `_handle_with_retry`, `_is_duplicate`, `_mark_processed` | crashes, rebalances, errors and signals at each await; several groups | no event is lost silently; duplicates cost faults; a skip is justified |
| the same, producer and DLQ | topic, DLQ topic, replayer's offset | `publish`, `publish_with_retry`, `send_to_dlq`, `replay` | a send that fails although it was stored; a replay that dies half way | no dead letter is forgotten; replays do not disturb the consumers |
| `redis_utils.py`, `DistributedLock` | one key with a TTL, `_lock_token` | `acquire`, `release`, `extend`, two Lua scripts | delayed, lost and late commands; expiry inside the critical section | leases are exclusive; an abandoned key frees itself |
| `redis_utils.py`, `RedisClient.incr`, `VelocityCounter` | counters, one sorted set per entity | `incr`, `increment`, `get_count`, `check_threshold` | INCR/EXPIRE not atomic; windows that share a key | a count is the number of events in the window |
| fraud-orchestrator | offset, four Redis counters | `start`, `stop`, `consume`, engine calls, `aggregate`, `make_decision` | auto-commit while processing; a loop that dies in a healthy process | few transactions lost or repeated; counters that agree; decisions that mean something |
| transaction-service, `DatabaseManager` | `transactions` table, connection pool | POST, `get_session`, `health_check`, `close` | dual write to PostgreSQL and Kafka around a 202; a pool with a limit | a store lacks a transaction only for a reason; connections come back |
| stream-processor | windows in Redis | `process_transaction`, `ThresholdEvaluator.evaluate` | sums that do not slide; loop death; two holders of a partition | aggregates describe the window |
| rule-engine | rule cache, velocity counters | `EvaluateRules`, reload, `check_velocity` | reload across an await; order of rules, short circuit | a decision uses one version of the rules |
| graph-analysis | cards, devices, addresses in Neo4j | `AnalyzeGraph`, four queries | MERGEs of threads that do not see each other | findings come from transactions; nothing is counted twice |
| alert-service, case-management | `alerts`, `cases`, `case_notes` | consumers, REST updates | redelivery without dedup; commit before publish; PATCH without a version | one case for an escalated alert; patches compose |
| notification-service | dedup key, notifications, attempts | `dispatch` | check-then-set; mark before send | an alert is sent once, over every channel |
| api-gateway | websocket list, rate limit windows | `broadcast`, `check_rate_limit`, `get_metrics`, proxies | list changes under iteration; torn reads; clocks of several tasks | every connected client gets every event; a limit limits |
| customer-profile | two queues of 100 | `notify_*`, SSE, `get_velocity` | shared queue, drops | each message is shown once or accounted for |
| `middleware.py`, `exceptions.py`, `logging.py`, the gateway's `correlation.py` | context variables, request state | three middlewares, exception handlers | interleaved requests; exceptions that pass layers by | a failure can be found in the log by its id |
| the `main.py` of the services | open resources, the consume task | startup, shutdown | work that goes on while resources close | closed resources are met while stopping only |
| ml-scoring, config, models, dashboard, infrastructure | none across calls | - | pure I/O, data or generated | - |

`PROJECT.json` lists the components with their status and the hazards line by
line. The shared consumer, producer and lock are a library: no service of this
commit uses them yet (each opens its own aiokafka consumer), which is one more
reason to check them before one does.

## 2. Plan

Done, in this order, the most important behaviour first:

1. `LogDelivery`, `FraudConsumer`, then `FraudConsumerProofs`;
2. `FraudBus`, which composes the consumer with the producer and the replay,
   then `FraudBusProofs`;
3. `DistributedLock`, `DistributedLockProofs`; `MCShared` runs the lock beside the
   consumer;
4. `ScoreAggregator`, `Orchestrator`, `OrchestratorProofs`;
5. what a browser meets: `Ingestion`, `LiveFeed`, `Dashboard`, `Metrics`,
   `HttpStack`, composed by `MCGateway`, then `GatewayProofs`;
6. what lives in Redis for a while: `RateLimiter`, `VelocityCounter`,
   `ExpiringCounter`, `StreamProcessor`, `Notifications`, composed by `MCWindows`,
   then `WindowsProofs`;
7. the services behind a decision: `RuleEngine`, `GraphAnalysis`, `AlertCases`,
   `ServiceLifecycle`, composed by `MCServices`, then `ServicesProofs`.

All of it is written. What a proof could still add is liveness, once the provers
handle ENABLED (section 6).

## 3. Modules

### LogDelivery: the promise of a consumer group

Each record of a partition is *settled* (handled, skipped, dead-lettered or
knowingly dropped) before the committed offset (`frontier`) passes it, and the
committed offset never moves back.

### FraudConsumer: `FraudKafkaConsumer`

A coroutine is interrupted only where it awaits, so the code between two awaits
is one action and `pc[w]` names the await worker `w` is suspended at.

| Variable | Code |
|---|---|
| `log`, `dlq`, `committed` | the partition, `<topic>.dlq`, the group offset in Kafka |
| `marked` | keys `fraud:dedup:<event id>` in Redis |
| `pc`, `cur`, `attempt` | the suspended `_process_message`/`_handle_with_retry` and their locals |
| `assigned`, `position` | aiokafka's assignment and fetch position |
| `stopping` | `not _running` |
| `settled`, `handled` | history variables, for the properties only |

| Action | Code |
|---|---|
| `Start`, `Leave` (part of several actions) | `start` 531, `stop` 568 and `__aexit__` 583 |
| `RequestShutdown`, `FetchStopping` | `_request_shutdown` 627; `_running` is tested at 619, when a record arrives |
| `Fetch`, `FetchUndecodable`, `RejectGarbage` | `from_json` and the except clause, 640-663 |
| `CheckDuplicate`, `CheckNew`, `CheckFails` | `_is_duplicate` 736 (fails open) |
| `HandleSucceeds`, `HandleRaises`, `HandlerExhausted` | `_handle_with_retry` 687 |
| `MarkProcessed`, `Commit`, `CommitRevoked`, `CommitRaises` | 681-685, `_mark_processed` 756 |
| `Assign`, `Crash`, `Expire` | Kafka's coordinator, the operating system, Redis's TTL |

Malformed records come in two kinds. `Garbage` makes `from_json` raise what the
code catches. `Undecodable` makes it raise `UnicodeDecodeError`, which the code
does not catch (a record without a value ends the same way: the except clause
itself raises on `message.value.decode`).

### FraudBus: producer, consumers and replay on one topic

Extends `FraudConsumer` and replaces its free environment by
`publish_with_retry` (`Publish`, `SendAcked`, `SendRaises`, `ProducerCrash`),
foreign producers and `DLQHandler.replay` (`ReplayFetch`, `ReplayRecord`,
`ReplayRaises`, `ReplayCommit`, `ReplayDies`). A send that raises may have been
stored. `ImplementsConsumer` says that all this is an environment
`FraudConsumer` already allows, so that what is shown there holds here.

### DistributedLock

A command leaves the client (`Acquire`, `Retry`, `Release`, `Extend`), reaches
Redis (`SetArrives`, `ReleaseArrives`, `ExtendArrives`, the bodies of `SET NX EX`
and the two scripts) and is answered (`Acquired`, `Refused`, `Released`,
`Extended`) in three steps. `Raise` ends a call by an error or a cancellation;
its command stays in the network, without anybody waiting for the answer. `Tick`
lets time pass for the TTL and for the clients.

`lease[c]` is how long client `c` may still rely on the lock if it counts its
TTL from the moment it *sent* the command that acquired or extended it. The code
does not compute it; a client that stays in its critical section beyond it is
not protected, and `is_locked` (613) stays True after the key has expired.

### ScoreAggregator and Orchestrator

`ScoreAggregator` has `aggregate()` and `make_decision()` as operators on
integers (hundredths), `Orchestrator` the consume loop of several replicas:
`FetchTx`, `FetchEmpty`, `FetchBad` (not JSON), `FetchOdd` (JSON, but no
object), `ScoreTx` (three answers, 0 from an engine that fails),
`ScoreRejected`, `Publish`, `PublishRaises`, and `Count`/`CountRaises` for the
four increments, one await each. The consumer has aiokafka's defaults:
`AutoCommit` may commit the position at any time, a shutdown commits it
(`Stop`), and a group without an offset starts at the end (`Assign`, `jumped`).
An exception leaves the loop dead in a process that is up (`pc[w] = "dead"`).

### Ingestion: a transaction comes in

`Forward`, `GatewayGivesUp` (gateway, `forward_transaction`), `Receive` to
`Respond` (`create_transaction`) and `Publish` (its background task). A request
is `idle`, `forwarded`, `handling`, in its `session`, about to `commit`, about to
`respond` or to `publish`. `inUse` counts the connections of
`DatabaseManager`'s pool; a session that finds none free raises when the pool's
timeout has passed. `ProbeConnects`/`ProbeEnds` are `health_check`, which takes a
connection of the same pool. `CreateEngine`, `StartProducer`, `Shutdown`, `Crash`
are the process. `causes` records why a write did not succeed. PostgreSQL is
represented by its unique key on `external_id` and by INSERTs that wait for one
another.

### LiveFeed, Dashboard, Metrics: what is shown

`LiveFeed` has the list `active_connections` and the index of the iterator of
`broadcast` (`cursor`): `Send` awaits one `send_text`, and between two of them
`Connect` and `ReceiveRaises` (the `disconnect` of another handler) change the
list. `Dashboard` has the two bounded queues of customer-profile and the SSE
generators (`Check`, `Take`, `Ping`, `Yield`); `Notify` is the test of `full()`
and the put, without an await in between. `Metrics` has the increments of each
orchestrator in their order and the GETs of `get_metrics` in theirs.

### HttpStack: middleware, exceptions, log lines

A request goes in through `Layers` and its answer, or an exception, comes out:
`Correlate`/`CorrelateOut`, `LogOut`, `ErrorsOut` are the parts of the three
middlewares before and after `call_next`, `RouteAnswers`, `RouteRaisesPlatform` and
`RouteRaises` what a route does. `bound[r]` is the correlation id of the task's
context, which a log line takes when it is written. `stack` chooses between
`setup_middleware` and the gateway's own middleware.

### RateLimiter, VelocityCounter, ExpiringCounter: counting

`RateLimiter` has one sorted set per client id: `Dispatch` reads the clock,
`CheckRateLimit` is the pipeline when Redis executes it, `Pass` lets time pass and
keys expire. The set has timestamps, as `zadd(key, {str(now): now})` does: requests
of one tick are one member, while the history `admitted` keeps the requests.
`VelocityCounter` is the same idea with several windows on one key (`Call`,
`Increment`, `GetCount`; `ThresholdMet` is `check_threshold`). `ExpiringCounter` is
INCR followed by EXPIRE, used by `check_velocity` of the rule engine and by
`RedisClient.incr` (`use`). Pipelines execute as one step (MULTI/EXEC); the time
between reading the clock and executing is explored.

### StreamProcessor

Replicas read one partition (`Poll`), add a transaction to the customer's keys
(`Add`), read them (`Read`) and publish (`Publish`), one await each. `live` are
the deliveries since the keys exist (what the sum and the sketches cover),
`sliding` those still in the sorted set. `Velocity` is what `get_velocity` of
customer-profile answers from the same keys. Distinct countries are counted
exactly, where a HyperLogLog estimates.

### Notifications

Replicas `Take` requests and dispatch them: `SkipDuplicate`/`GetNothing`, `SetKey`,
then per channel `InsertRow`, `Send` and `Record`. `AssignTo` moves the partition
while its old owner is still at work; `EndLoop` is a crash, a shutdown or an error
that ends the loop. Slack and webhooks may fail although the message arrived;
e-mail and SMS log a line, send nothing and report success (`Remote`).

### RuleEngine and GraphAnalysis: two engines

`RuleEngine` keeps the active rules of every commit in `table`; reloads
(`BeginReload`, `EndReload`) and evaluations (`EvaluateRule` once per rule) are
tasks. `Says` is what a rule answers in its turn: a condition anything, a velocity
rule whether the counter of its entity's value, which it has just incremented
(`hits`), is above its limit. All velocity rules of one entity and all evaluations
share that counter, so the order of the rows and a critical match, which skips the
rest, change what later turns see. `Forget` lets Redis drop a counter at any
moment; when it really does is `ExpiringCounter`. `GraphAnalysis` runs the addition
(`BeginAdd`, `CommitAdd`) and the three queries of `AnalyzeGraph` in threads. The
queries return a row per relationship, which names a card or device. The ids of
Neo4j's nodes are not constrained (no such statement in the repository), so
overlapping MERGEs may create a node twice, and a card linked to two nodes of its
device gives two rows.

### AlertCases: alerts become cases

`PublishAlert`, then the consumer of the alert service (`Read`, `InsertAlert`,
`Escalate`, `PublishCase`) and that of case management (`InsertCase`); both commit by
timer (`AutoCommit`) and end for good on an error (`EndReader`). `StoreUnacked` is an
attempt of the producer that the broker stored and did not acknowledge: the producer
is not idempotent and sends the event again. Analysts call
`CreateAlert`, `CreateCase`, `AddNote`, and PATCH a case in two steps
(`BeginPatch`, `CommitPatch`): SQLAlchemy writes the columns that differ from what
it has read.

### ServiceLifecycle

One process of one of eight services: the `start` and `stop` lists name what its
`main.py` opens and closes, in order. `Lazy` and `Open` are resources that are
opened by the first use or by the work itself; `Use` meets open or closed ones.

## 4. Runs

| Run | Instance | Question |
|---|---|---|
| `SharedLibrary` | 2 workers, 1 group, 2 records of any kind, 2 attempts, 2 faults, fair; the lock: 2 clients, 3 tokens, 2 attempts, TTL 2, 2 commands in flight, fair | `TypeOK`, `LossInv`, `NoSilentLoss`, `SkipsAreDuplicates`, `DuplicatesNeedFaults`, `ImplementsDelivery`, `EveryRecordDelivered`; `LockTypeOK`, `LeaseExclusion`, `OrphanFreed` |
| `UndecodableRecord` | 1 worker, fair, no faults | violated: `UnparseableDeadLettered` |
| `TwoGroups` | 2 workers, 2 groups, no faults | violated: `SkipsAreOwnDuplicates` |
| `BusSafety` | 1 worker, 3 records of any kind, 2 sends, batches of 2, 1 fault | `BusTypeOK`, `ReplayLosesNothing`, `ImplementsConsumer` |
| `DeadLetterReplay` | 1 worker, no faults | violated: `SkippedWasHandled` |
| `OrchestratorSafety` | 2 replicas, 2 records of any kind, scores 0, 100 and -10, 2 faults | `OrchTypeOK`, `MetricsConsistent`, `RepeatsNeedFaults`, `LossBounded` |
| `FailSecure` | 1 replica, 1 transaction, any engine may fail | violated: `DegradedBlocks` |
| `LostTransaction` | 1 replica, 2 transactions, 1 fault, fair | violated: `FetchedIsEvaluated` |
| `Gateway` | 2 requests of 2 transactions, a pool of 1, 2 faults, fair; 3 sockets, 2 events; 2 SSE clients, queues of 1, 3 records; 2 replicas; 2 HTTP requests | `GatewayTypeOK`, `DivergenceNeedsCause`, `ConnectionsReturned`, `EveryRequestEnds`; `BroadcastReaches`; `EachRecordInOnePlace`; `TornReadBounded`; `FailuresTraceable` |
| `Windows` | 3 calls, limit 1, window 4 of 2 ticks a second; 2 callers, windows 1 and 3; 2 users, spans 1 and 2, 3 increments; 2 workers, 2 transactions, window 2; 2 replicas, 2 requests, 1 mishap | `WindowsTypeOK`, `LimitNeedsDelay`, `CountsExplained`, `ExceededExplained`, `SnapshotExplained`, `DeliveriesExplained`, `NotifiedOrBroken` |
| `RetryAfter` | 3 calls, limit 1, window 4 of 2 ticks a second | violated: `RetryAfterIsEnough` |
| `Services` | 2 evaluations, 1 reload, 1 edit of 2 rules, one of them a velocity rule; 3 analyses of 2 cards, 2 devices, 1 address; 2 alerts, 2 faults (ends of a loop, lost acknowledgements); 2 patches, 2 rows by hand; 8 services, 2 starts | `ServicesTypeOK`, `ResultExplained`, `StaleNeedsOverlap`, `FindingsExplained`, `OneCasePerAlert`, `PatchesCompose`, `ClosedOnlyWhileStopping` |

`SharedLibrary`, `Gateway`, `Windows` and `Services` explore components that share
no state. A variable `part`, fixed in the initial state, says which of them a
behaviour runs; the others stay as they were, so the run checks each on its own and
costs the sum, not the product, of their state spaces.

Why these bounds are enough to be worth checking:

- two workers of one group give every pair of owner and zombie (the worker that
  lost the partition and still processes its record), and a committed offset can
  be stale; a third record, around or next to a malformed one, is left to
  `BusSafety` and to the proofs, which have no bound;
- two faults allow a fault while another one is being recovered from; they
  bound crashes, signals, revocations, Redis and broker errors together;
- two attempts show the first, the repeated and the exhausted one;
- with two clients, three tokens and two commands in flight a late `SET` or
  release of one client meets a fresh acquire of the other. `Fresh` is why a
  third token is needed: uuid4 never repeats one that is in use;
- the scores 0 and 100 reach all four decisions (weighted sums 0, 20, ... 100);
  two replicas and two faults let both of them be between increments at once;
- two requests may carry one transaction or two, and with a pool of one the
  second waits, is refused, or meets the health check;
- three sockets: one leaves under the iterator, one is skipped for it, one is
  not; a second event meets what the first left behind;
- a limit of one and three calls give one that is let through, one that is refused
  and one that comes when the window has moved on, each executing in any order
  (`MaxClock` is one window and one tick), and two of them may read one tick; two
  windows on one key prune what the other counts;
- two transactions of a customer and two handovers of the partition add one of
  them twice, with either worker's clock ahead;
- two requests of a notification are one alert twice, or two; a mishap is a
  rebalance with the old owner still at work, an expiry or a crash;
- amounts of 1 and 2 tell the volume from the count of transactions;
- one edit and three tasks that may reload let an old answer overtake a new one;
  a velocity rule of limit 1 matches in the second evaluation only, and only if the
  critical rule has not ended one of the two before its turn;
  three analyses are what a ring over two devices, and then a look at it, needs;
- two alerts, and two faults, are a record handed out again, or an event stored
  twice, while the other consumer is one record behind; two patches overlap or
  follow each other.

Two reductions apply to `Services`: analyses are numbered in the order in which
they come, and the first is about fixed values (any renaming of cards and
devices gives the same behaviours); the consumers of `AlertCases` and its API,
which touch different rows, are explored apart, except for alerts that are
posted while the consumers run. Interchangeable replicas, alerts and evaluations
are declared symmetric in `Windows` and `Services`, which check no liveness.

The bounds `MaxLog`, `MaxEvents`, `MaxFaults`, `MaxNetwork`, `MaxTx`, `MaxFeed`,
`MaxRecords` and the like are guards on what comes from outside, `MaxClock`,
`MaxTime`, `MaxSecond` and `Horizon` on time. Deadlock is not checked: with its
bounds reached, each system may stop.

### What the violated runs show

- **UndecodableRecord**: `except (json.JSONDecodeError, TypeError, KeyError)`
  (kafka_utils.py 642) does not cover `UnicodeDecodeError`. The record ends the
  loop, is not committed, and is met again after every restart: all later
  records of the partition wait behind it.
- **TwoGroups**: the dedup key has no group in it (745), while
  `docs/architecture/data-flow.md` 731 describes one per group and topic.
- **DeadLetterReplay**: `_mark_processed` runs after the dead letter queue too
  (681), so a replayed event is skipped by its own mark for 24 hours.
- **LostTransaction**: the orchestrator commits by timer (main.py 27-32), while
  data-flow.md 710 and 85 say that a failure leaves the offset uncommitted.
- **RetryAfter**: rate_limiter.py 88 computes `window - (now - window_start)`, which
  is 0 as `window_start` is `now - window`; the header then says one second,
  whatever the docstring at 61 promises.
- **FailSecure**: an engine whose call fails counts as 0.0 (clients.py 59, 70, 86)
  and the transaction is approved on what is left, all three included, while
  security-architecture.md 40 says that degraded modes block rather than allow and
  high-level-architecture.md 543 blocks above $10K with the rule engine down (for ML
  scoring its line 542 falls back to the rules, whose weight stays 40 of 100). With
  the weights in use no transaction at all can be blocked while an engine is down.

Other differences met on the way, without a run:

- data-flow.md 701 says that all event processing is idempotent, for rebalances,
  producer retries and replays, but neither consumer of `AlertCases` deduplicates and
  the producer between them is not idempotent (consumer.py 40, producer.py 11): a
  record handed out again is a second alert, and an event stored twice a second case,
  as `OneCasePerAlert` allows.
- The docstring of `check_rate_limit` (53) calls `limit` the maximum of requests in
  the window, but the member of the sorted set is `str(now)` (77), so requests that
  read the same time count once and all pass: rare with a float clock, but
  `LimitNeedsDelay` has to allow it.
- The channels for e-mail and SMS send nothing and report success (email.py 21-32,
  sms.py 13-18), where the README of the repository (line 36) says that alerts go out
  over them.
- Velocity rules of one entity share a counter, so with two of them every transaction
  counts twice (redis_client.py 27).
- The orchestrator starts at the end of the topic, where data-flow.md 90 says
  earliest, and its producer is not idempotent, where data-flow.md 72 says it is.
- `ErrorResponse` of a `PlatformException` carries a correlation id of its own, not
  the request's, and `RequestLoggingMiddleware` writes no completed line for a request
  that ended with an exception.
- A stored status that a PATCH repeats is not written, so it may be another one when
  the PATCH has answered success.

### What the passing runs show

The properties named `...Explained` and `...Need...` are two-sided: they say what
can go wrong, by listing every cause, and that nothing else can.

- **Ingestion**: after a 202 a transaction may be in one store only, but never
  without a refused or failed insert, an exhausted pool, a broker error or a
  crash; no error path keeps a connection, and no request waits forever.
- **LiveFeed**: a connection that stays may miss a message, one per connection
  that leaves during the broadcast. **Dashboard**: several clients of a stream
  divide its messages. **Metrics**: a torn answer may show more fraud than
  transactions, but no count beyond the total at its end, and no volume beyond the
  amounts of the transactions in that total.
- **HttpStack**: ids never mix, and every failure of the platform's stack leaves
  an error line with its id, but for those of the probes' routes.
- **Windows**: a limit is exceeded only by requests whose pipelines executed out of
  order or too late, or that have a timestamp in common; counts are exact for one
  window and in order; a counter without an expiry, or one that says "exceeded" too
  early, has a failed EXPIRE or a longer window behind it; a sum may reach back as
  far as the customer's last pause; an alert is sent, or logged, twice over a
  channel only after two lookups before either mark, or an expiry, and is dropped
  only if a loop ended on it.
- **Services**: an evaluation keeps the rules it began with and asks each of them
  once, or up to a critical match; a velocity rule matches only after more turns of
  any rule on the same counter than its limit; the cache goes back to older rules
  only if reloads overlapped; a graph analysis has two rows for one card only after
  overlapping additions; an alert lacks its case only if a loop ended on its record,
  and has two only if its record was handed out again or its event stored twice;
  concurrent patches lose at most what changed between their read and their write;
  alert, case, rule and graph services meet resources they have closed, and only
  while they stop.

## 5. Fairness

Safety properties need none. `FraudConsumer` and `Orchestrator` assume weak
fairness of

- the loop of each worker (an event loop runs what is ready; the broker, Redis
  and the handler answer or fail);
- `Start`: Kubernetes restarts a process that ended
  (`infrastructure/kubernetes/base/services`), which is not the case for a dead
  loop behind a `/health` that answers;
- `Unowned /\ Assign`: the coordinator assigns a partition nobody owns; it is
  not obliged to take one away from a live owner;
- `AutoCommit` (orchestrator only): a timer of the client.

`Ingestion` assumes that the handler of a request is run, and that one that
finds no server is refused; it does not assume that a health check ends or that
the gateway gives up on a server that is working. Producers, faults, signals,
and the expiry of keys are never obliged to happen. In `EveryRecordDelivered` the
handler is free to raise forever; it is the bound on its attempts and the dead
letter queue that bring the record to an end. The property excepts records that
are `Undecodable`, and those behind one: see `UndecodableRecord`.
`DistributedLock` assumes only that time passes.

## 6. Proofs

All theorems are for any number of workers, groups, clients, replicas, requests
or sockets and any bounds. They rest on the named assumptions on the constants,
which TLC evaluates in the runs of the modules that declare them: bounds are
naturals, limits, windows and pools are positive, "nobody" is not a name in use,
and the few below.

| Assumption | Why the code justifies it |
|---|---|
| `FeedAssumption`: finitely many sockets | a process has finitely many connections |
| `RuleAssumption`: finitely many rules with integer points; evaluations are not reloads | a table has finitely many rows; they are different gRPC calls |
| `RateAssumption`: some client exists | otherwise nothing is counted |
| `StreamAssumption`: `Lag` is below the window and the tail of the keys | a pipeline that takes 10 s longer than its clock is outside the model |
| `VelocityAssumption`: `MaxDelay <= Margin` | the same, for the 60 s of redis_utils.py 368 |

The provers do no induction over data. **CountingLemmas** gets it from the
library's well-founded order on finite sets instead: a set of naturals has a least
element (`LeastElement`), so a set with 0 and every successor is `Nat`
(`SetInduction`), and any number of steps of a function can be taken
(`StepsExist`). That is enough for the recursive functions of the models, which
are walks of that kind: sums over offsets and over seconds, and the list that
`list.remove` leaves. It also has how a cardinality changes at one element, and the
sums of the community modules' folds over sets and sequences: the same order gives
induction over the subsets of a finite set (`SubsetInduction`); a fold of a finite
set exists (`FoldExists`), and does not depend on the element it takes first
(`FoldValue`); a part of a sum of naturals is at most the whole (`SumsOrder`), and a
sum over the places of a list without repetition is the one over its elements
(`SumsRename`).

**FraudConsumerProofs.** `TypeCorrect`: `TypeOK` is not inductive, as a record in
hand might not exist; `TypeInv` adds `RecordInv`. `NoLoss`: that a committed offset
covers settled records only says nothing of the offsets about to be committed.
`LossInv` adds that an owner has settled everything up to its position except the
record in hand (`OwnerInv`), that a worker past the handler has settled its record
(`SettledInv`) and that owners are unique in their group. The proof has one lemma
per group of actions and conjunct. `DeliveryRefinement`: every step is an append, a
settlement, an advance or a stutter of `LogDelivery`. `SkipsCorrect` needs that
every mark has a record that was worked on (`SkipInv`). `DuplicatesCorrect` is an
account: what a group has handled of an event, plus the workers that lost the
partition with it in hand, plus what the owner will still do, is paid for by one and
the faults so far (`DuplicateInv`); `OneOwner` of `LossInv` keeps two owners from
paying with the same coin.

**FraudBusProofs.** `BusInvariant` adds to `TypeInv` that every id in the log, in
the dead letter topic and in the producer's hand was issued before (`IssuedInv`)
and that a replay has dealt with all records before its next one (`ReplayInv`).
From it follow `ReplayCorrect` and `BusRefinement`; `BusNoLoss`, `BusSkips` and
`BusDuplicates` are what the consumer's theorems say through that refinement.
`BusTypeCorrect` adds the attempts of the producer (`SendsInv`) and that a replay
names dead letters that exist.

**DistributedLockProofs.** `LockExclusion` needs to know where tokens may be:
each belongs to one client (`TokenInv`), a release on its way is not for the
token its client relies on or is about to get (`NetworkInv`), and Redis holds
the token of a client that relies on the lock, or whose positive answer is on its
way, for at least as long (`LeaseInv`, `AnswerInv`).

**OrchestratorProofs.** `DecisionMonotone` is about the two pure functions, for
all weights and ordered thresholds.

`RepeatsCorrect` and `LossCorrect` are accounts like `DuplicateInv`: a decision that
was published, is in a replica's hands, or is still to be fetched by the one owner
is covered by one and the faults (`RepeatInv`); a transaction behind every owner
that nobody has evaluated or holds cost a fault (`GoneInv`). `MetricsCorrect`
relates the counters through the replicas between two increments: fraud stays
behind the total by those past the total, the total behind what was published by
those before it (`MetricsInv`).

**GatewayProofs.** `GatewaySpec` runs one part at a time, so an invariant of each
part, of its own next-state relation, is one of the composition; this also holds for
`WindowsProofs` and `ServicesProofs`. The invariants:

- `PoolInv`: the connections in use are those of the sessions, one each, and of a
  health check; `DivergenceInv`: what a request's place in the handler says of its
  row, its event and its causes;
- `FeedInv`: the list has every connection once, and those that stay, were not
  reached and stand before the cursor number no more than the removals. A removal
  moves the list by one place, so `WithoutKeeps` describes exactly what
  `list.remove` leaves;
- `PlaceInv`: the five places of a record are pairwise apart, no queue has a number
  twice, and no two clients hold one;
- `TornInv`: the total is ahead of every other counter by the increments to come
  (`AheadInv`), and the amounts it covers ahead of the volume by those still due
  (`OwedInv`); so they cover every value that was read earlier (`ReadInv`);
- `StackInv`: what the layers a request has passed have bound, written and put into
  the answer, for both stacks.

**WindowsProofs.**

- `RateInv`: a timestamp that was let through is still in the set, or was pruned by
  one a window later, or its key could expire (`Remembered`). A request with a new
  timestamp that exceeds the limit must have missed one of them, which makes it late;
  requests that share none are as many as their timestamps;
- `VelocityInv`: an event is in the sorted set unless the shortest window so far cut
  it off; with sums over bags of seconds this gives `CountsCorrect`, an action
  property, about the pipeline that answers;
- `CounterInv`: while every EXPIRE was in time, the value counts what fell since the
  key was created, and its expiry is no further away than the longest span;
- `StreamInv`, `StreamTimes`, `StreamSolo`: a delivery that is gone from Redis is as
  old as its keys live, those that are there are linked by others less than that
  apart, and no clock is further behind than `Lag`. While the partition changed hands
  at most once, only its holder has anything in hand, its transactions come in order,
  and the sorted set is the window of the latest one, after every expiry too, which
  is where `Lag <= KeyTail` is needed;
- `WorkInv`, `KeysInv`, `OnceInv`: a notification's rows agree with what its dispatch
  has done; a key in Redis is being dispatched, was tried on all channels, or broke;
  and where nothing was raced or expired one dispatch has a key, and the rows of the
  key are those it made.

**ServicesProofs.**

- `RuleInv`: what is cached, fetched or evaluated are the rules of one commit, in
  some order, and what matched is what the rules answered in their turns so far.
  `ResultCorrect` is that at the end of the list, or at the one critical rule; the
  score, a fold over the matches in their order, is the sum over the set of them.
  `CountInv`: a counter is at most the turns that incremented it;
- `GraphInv`: edges come from additions that were committed, and without overlapping
  additions no two nodes are alike, those being merged included, so that a row is
  told by the card or device it names; a MERGE that finds its node adds none;
- `CaseInv`: a record that was not stored has no row unless it is handed out again;
  the alert in the reader's hands is the latest, and has no event yet but those
  stored without an acknowledgement; what was
  passed without a loop ending was followed up. `PatchesCorrect` is an action
  property of the two steps of a PATCH;
- `LifeInv`: what the steps of a start so far opened is open; checked for the eight
  scripts.

**Model-checked only**: liveness (`EveryRecordDelivered`, `OrphanFreed`,
`EveryRequestEnds`), which is outside the provers' reach, as it needs ENABLED, and
the properties that are violated.

## 7. Abstractions, and what is not modelled

- One partition per topic: partitions are independent, except for the dedup
  keys, which the records of one partition already share.
- `auto_commit=True` and a consumer without Redis are not modelled: the first is
  not the default, the second drops the dedup steps.
- An envelope is its event id. Backoff sleeps are part of the next attempt: the
  only thing that can interrupt them is modelled at the attempt.
- One replayer runs at a time; `getmany` may return any part of a batch.
- `extend()` is called with its default argument.
- The amount of a transaction is 1 in the volume counter of `Orchestrator`, whose
  properties are not about the volume; `Metrics` adds the amounts.
- Weighted sums are exact, where the code adds floats: at a threshold the code
  may decide differently, and nothing is claimed about that.
- An engine call returns or fails: the calls have no deadline, and one that
  never returns is a replica that takes no step.
- The EXPIRE of a new counter takes effect with its INCR in `RuleEngine`, whose
  counters may disappear at any time; `ExpiringCounter` has the two apart.
- MERGE of a relationship locks its ends, so two nodes have one of a kind at most.
- Retries of the producer in `AlertCases` share a bound with the ends of a loop.
- One customer and one of the four windows in `StreamProcessor`, one entity in
  `VelocityCounter` and `ExpiringCounter`: keys do not interact.
- Clocks are one clock per system, in whole seconds, or in ticks of the clock
  (`Second` of them) in `RateLimiter`; what differs between tasks is
  when a pipeline executes after reading it.
- `RateLimiter` has a Redis client, though nothing in this commit gives it one, and
  `HttpStack` the middleware that no service sets up: both are libraries here.
- The columns of a row are those a property tells apart; the contents of
  messages, templates, rules and graphs' merchants are left out.
- One replica each of the alert and case consumers, and one gateway process for
  the live feed: each has one partition or one list of its own.
- Not modelled: the proxies of the gateway for alerts and cases (`Ingestion` has
  the one for transactions), its token checks, ml-scoring (an engine that
  answers or fails in `Orchestrator`), settings and data classes, and what only
  reads: they keep no state across calls. The dashboard application, the
  deployment files, the data generators and generated code are not part of the
  running system's logic.
