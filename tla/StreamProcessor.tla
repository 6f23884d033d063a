--------------------------- MODULE StreamProcessor --------------------------
(***************************************************************************)
(* The stream processor: for every transaction of a customer it adds to    *)
(* the customer's velocity keys with one Redis pipeline, reads them with a *)
(* second one, and publishes what the thresholds make of them.  The four   *)
(* windows are four copies of the same keys: one is modelled.  The sorted  *)
(* set of a window slides; its sum and its two sketches of distinct values *)
(* only expire together with it, when the customer pauses.                 *)
(***************************************************************************)
EXTENDS Integers, Sequences, FiniteSets, FiniteSetsExt, SequencesExt

CONSTANTS Workers,      \* replicas of the service, one consumer group
          Amounts,      \* amounts of the transactions
          Countries,    \* and the countries of their devices
          WindowLen,    \* the window, in seconds
          KeyTail,      \* the keys outlive it by 10 s
          Lag,          \* a pipeline executes within that time of its clock
          MaxCount,     \* thresholds: transactions in the window,
          MaxSum,       \* their sum,
          RapidFire,    \* and the count of the RAPID_FIRE pattern
          MaxTxns,      \* bound: records of the topic
          MaxHandovers, \* bound: times the partition is assigned
          Horizon       \* bound: seconds explored

Nobody == "nobody"
NoTxn == 0

ASSUME StreamAssumption ==
  /\ Nobody \notin Workers /\ Amounts \subseteq Nat /\ WindowLen \in Nat \ {0}
  /\ KeyTail \in Nat /\ Lag \in Nat /\ Lag <= KeyTail /\ Lag < WindowLen
  /\ MaxTxns \in Nat /\ MaxHandovers \in Nat /\ Horizon \in Nat

VARIABLES
  ticks,     \* time.time(), in seconds
  topic,     \* the partition: transactions, records without ids, and "bad" ones
  offset,    \* committed by the group; earliest, so 1, if it never was
  holder,    \* the worker that has the partition
  worker,    \* per worker: where it is, its position, its record and clock, what it has to publish
  live,      \* deliveries added since the customer's keys exist
  sliding,   \* those of them still in the sorted set
  dueAt,     \* when the keys expire
  delivered, \* history: all deliveries [txn, stamp, at]
  handovers  \* history: assignments of the partition so far

redis == <<live, sliding, dueAt, delivered>>
streamVars == <<ticks, topic, offset, holder, worker, redis, handovers>>

Txns == [kind : {"tx"}, amount : Amounts, country : Countries]
Odd == [kind : {"skip", "bad"}, amount : {0}, country : {"none"}]
Down == [at |-> "off", next |-> 1, txn |-> NoTxn, stamp |-> 0, todo |-> <<>>]

StreamTypeOK ==
  /\ ticks \in 0..Horizon
  /\ \A n \in DOMAIN topic : topic[n] \in Txns \cup Odd
  /\ offset \in 1..Len(topic) + 1
  /\ holder \in Workers \cup {Nobody}
  /\ \A w \in Workers :
       /\ worker[w].at \in {"off", "poll", "add", "read", "publish", "ended"}
       /\ worker[w].todo \in Seq({"breach", "pattern", "update"})
       /\ worker[w].next \in 1..Len(topic) + 1 /\ worker[w].txn \in 0..Len(topic)
  /\ sliding \subseteq live /\ live \subseteq delivered
  /\ \A d \in delivered : d.txn \in DOMAIN topic /\ topic[d.txn] \in Txns
  /\ handovers \in 0..MaxHandovers

StreamInit ==
  /\ ticks = 0 /\ topic = <<>> /\ offset = 1 /\ holder = Nobody
  /\ worker = [w \in Workers |-> Down]
  /\ live = {} /\ sliding = {} /\ dueAt = 0
  /\ delivered = {} /\ handovers = 0
-----------------------------------------------------------------------------
SumOf(D) == MapThenSumSet(LAMBDA d : topic[d.txn].amount, D)
CountriesOf(D) == Cardinality({topic[d.txn].country : d \in D})

\* The transaction service publishes; a record without customer or transaction
\* id is skipped, and one whose payload is not what it should be raises.
Transact ==
  /\ Len(topic) < MaxTxns
  /\ \E r \in Txns : topic' = Append(topic, r)
  /\ UNCHANGED <<ticks, offset, holder, worker, redis, handovers>>
TransactOddly ==
  /\ Len(topic) < MaxTxns
  /\ \E r \in Odd : topic' = Append(topic, r)
  /\ UNCHANGED <<ticks, offset, holder, worker, redis, handovers>>

AdvanceTime ==
  /\ ticks < Horizon
  /\ \A w \in Workers : worker[w].at = "add" => ticks < worker[w].stamp + Lag
  /\ ticks' = ticks + 1
  /\ IF dueAt <= ticks' THEN live' = {} /\ sliding' = {} ELSE UNCHANGED <<live, sliding>>
  /\ UNCHANGED <<topic, offset, holder, worker, dueAt, delivered, handovers>>
-----------------------------------------------------------------------------
StartWorker(w) ==
  /\ worker[w].at = "off"
  /\ worker' = [worker EXCEPT ![w] = [Down EXCEPT !.at = "poll"]]
  /\ UNCHANGED <<ticks, topic, offset, holder, redis, handovers>>

\* The coordinator assigns the partition; the new holder reads from the
\* committed offset while the old one finishes its record.
AssignStream(w) ==
  /\ worker[w].at # "off" /\ holder # w /\ handovers < MaxHandovers
  /\ holder' = w /\ handovers' = handovers + 1
  /\ worker' = [worker EXCEPT ![w].next = offset]
  /\ UNCHANGED <<ticks, topic, offset, redis>>

\* The timer commits what consume has already been given.
CommitStream(w) ==
  /\ holder = w /\ worker[w].at # "off"
  /\ offset' = worker[w].next
  /\ UNCHANGED <<ticks, topic, holder, worker, redis, handovers>>

\* Mutant: leaving commits one record too many.
StopWorkerAhead(w) ==
  /\ worker[w].at # "off"
  /\ offset' = IF holder = w THEN worker[w].next + 1 ELSE offset
  /\ holder' = IF holder = w THEN Nobody ELSE holder
  /\ worker' = [worker EXCEPT ![w] = Down]
  /\ UNCHANGED <<ticks, topic, redis, handovers>>

\* stop cancels the task wherever it is, and leaves the group, which commits.
StopWorker(w) ==
  /\ worker[w].at # "off"
  /\ offset' = IF holder = w THEN worker[w].next ELSE offset
  /\ holder' = IF holder = w THEN Nobody ELSE holder
  /\ worker' = [worker EXCEPT ![w] = Down]
  /\ UNCHANGED <<ticks, topic, redis, handovers>>

CrashWorker(w) ==
  /\ worker[w].at # "off"
  /\ holder' = IF holder = w THEN Nobody ELSE holder
  /\ worker' = [worker EXCEPT ![w] = Down]
  /\ UNCHANGED <<ticks, topic, offset, redis, handovers>>

\* consume takes a record: skipped, or process_transaction reads the clock and
\* makes a new uuid.
Poll(w) ==
  /\ holder = w /\ worker[w].at = "poll" /\ worker[w].next <= Len(topic)
  /\ LET n == worker[w].next
         took == [worker[w] EXCEPT !.next = n + 1] IN
       worker' = [worker EXCEPT ![w] =
                    CASE topic[n].kind = "skip" -> took
                      [] topic[n].kind = "bad" -> [took EXCEPT !.at = "ended"]
                      [] OTHER -> [took EXCEPT !.at = "add", !.txn = n, !.stamp = ticks]]
  /\ UNCHANGED <<ticks, topic, offset, holder, redis, handovers>>

\* Redis raises, and consume logs it and ends.
RedisRaises(w) ==
  /\ worker[w].at \in {"add", "read"}
  /\ worker' = [worker EXCEPT ![w] = [Down EXCEPT !.at = "ended", !.next = worker[w].next]]
  /\ UNCHANGED <<ticks, topic, offset, holder, redis, handovers>>

Step(w, where) == worker' = [worker EXCEPT ![w].at = where]

\* Mutant: the keys of the sum and the sketches are given no expiry of their own.
AddUnexpiring(w) ==
  LET d == [txn |-> worker[w].txn, stamp |-> worker[w].stamp, at |-> ticks,
            id |-> Cardinality(delivered)] IN
  /\ worker[w].at = "add"
  /\ sliding' = {e \in sliding : e.stamp > d.stamp - WindowLen} \cup {d}
  /\ live' = live \cup {d} /\ delivered' = delivered \cup {d}
  /\ dueAt' = Horizon + 1
  /\ Step(w, "read")
  /\ UNCHANGED <<ticks, topic, offset, holder, handovers>>

\* The first pipeline: prune and add, INCRBYFLOAT, PFADD, and renew every key.
Add(w) ==
  LET d == [txn |-> worker[w].txn, stamp |-> worker[w].stamp, at |-> ticks,
            id |-> Cardinality(delivered)] IN
  /\ worker[w].at = "add"
  /\ sliding' = {e \in sliding : e.stamp > d.stamp - WindowLen} \cup {d}
  /\ live' = live \cup {d} /\ delivered' = delivered \cup {d}
  /\ dueAt' = ticks + WindowLen + KeyTail
  /\ Step(w, "read")
  /\ UNCHANGED <<ticks, topic, offset, holder, handovers>>
-----------------------------------------------------------------------------
\* evaluate: what the thresholds and patterns of a window publish.
Breached(snap) == snap.count > MaxCount \/ snap.sum > MaxSum \/ snap.countries > 1
Patterned(snap) == snap.countries > 1 \/ snap.count > RapidFire
Evaluate(snap) ==
  (IF Breached(snap) THEN <<"breach">> ELSE <<>>)
  \o (IF Patterned(snap) THEN <<"pattern">> ELSE <<>>) \o <<"update">>

\* The second pipeline: ZCARD without pruning, GET, PFCOUNT.
Read(w) ==
  /\ worker[w].at = "read"
  /\ worker' = [worker EXCEPT ![w].at = "publish", ![w].txn = NoTxn, ![w].stamp = 0,
                 ![w].todo = Evaluate([count |-> Cardinality(sliding), sum |-> SumOf(live),
                                       countries |-> CountriesOf(live)])]
  /\ UNCHANGED <<ticks, topic, offset, holder, redis, handovers>>

\* publish swallows its errors, so all that shows in the state of the service is
\* between which events a crash or a cancellation finds it.
Publish(w) ==
  /\ worker[w].at = "publish"
  /\ worker' = [worker EXCEPT ![w].todo = Tail(@),
                              ![w].at = IF Len(worker[w].todo) = 1 THEN "poll" ELSE @]
  /\ UNCHANGED <<ticks, topic, offset, holder, redis, handovers>>

\* What get_velocity of the customer profile answers: it prunes nothing.
Velocity == [count |-> Cardinality(sliding), sum |-> SumOf(live)]

StreamNext ==
  \/ Transact \/ TransactOddly \/ AdvanceTime
  \/ \E w \in Workers :
       \/ StartWorker(w) \/ AssignStream(w) \/ CommitStream(w) \/ StopWorker(w)
       \/ CrashWorker(w) \/ Poll(w) \/ RedisRaises(w) \/ Add(w) \/ Read(w)
       \/ Publish(w)

StreamSpec == StreamInit /\ [][StreamNext]_streamVars
-----------------------------------------------------------------------------
Stamps == {d.stamp : d \in delivered}
Since(stamp) == {d \in delivered : d.stamp > stamp - WindowLen}
Fresh(w) == Since(worker[w].stamp)

\* What Redis answers to the second pipeline of a transaction.  The count never
\* exceeds the deliveries of the window, misses one only if another holder of
\* the partition pruned by a later clock, and counts no transaction twice before
\* the partition changes hands.  The sum is at least that of the count's own
\* transactions, and reaches back no further than the last pause of the customer
\* that was as long as the keys live.  At any other time, what a profile shows
\* are the transactions of the window that ended with the last one of them.
SnapshotExplained ==
  /\ handovers <= 1 /\ sliding # {} =>
       LET window == Since(Max(Stamps)) IN
       Velocity.count = Cardinality(window) /\ Velocity.sum >= SumOf(window)
  /\ \A w \in Workers : worker[w].at = "read" /\ sliding # {} =>
      /\ sliding \subseteq Fresh(w) /\ sliding \subseteq live
      /\ handovers <= 1 =>
           /\ sliding = Fresh(w)
           /\ Cardinality({d.txn : d \in sliding}) = Cardinality(sliding)
      /\ \A d \in live : \A t \in d.at..ticks :
           \E e \in delivered : t \in e.at..e.at + WindowLen + KeyTail - 1
=============================================================================
