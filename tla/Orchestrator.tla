---------------------------- MODULE Orchestrator ----------------------------
(***************************************************************************)
(* OrchestratorApp of the fraud orchestrator: replicas of one consumer     *)
(* group read the transactions topic (one partition), score each           *)
(* transaction with three engines, publish the decision and then update    *)
(* four counters in Redis, one await after the other.                      *)
(*                                                                         *)
(* The consumer is created with aiokafka's defaults: offsets are committed *)
(* by a timer, up to the record last handed to the loop, and a group       *)
(* without a committed offset starts at the end of the partition.          *)
(*                                                                         *)
(* pc[w] is the await the loop of replica w is suspended at: idle, score,  *)
(* publish, total, volume, blocked, fraud; "dead" when an exception ended  *)
(* the loop while the process stays up (and /health says ok), "down" when  *)
(* the process is not running.                                             *)
(***************************************************************************)
EXTENDS ScoreAggregator, FiniteSets, Sequences

CONSTANTS Replica,    \* orchestrator processes
          Kind,       \* kinds of records producers write
          Reply,      \* scores the engines return
          MaxTx,      \* bound on the records in the partition
          MaxFaults   \* bound on crashes, stops, rebalances and errors

\* A record is a transaction, an empty message, which the loop skips, one that
\* is not JSON, which makes the deserializer raise, or one that is JSON but no
\* object, which makes the loop raise.  An engine may answer a score that
\* aggregate() rejects: the rule engine does not bound its sum from below.
ASSUME OrchestratorAssumption ==
  /\ Kind \subseteq {"tx", "empty", "bad", "odd"}
  /\ Reply \subseteq Int
  /\ MaxTx \in Nat
  /\ MaxFaults \in Nat

VARIABLES
  log,        \* the transactions topic
  committed,  \* committed offset of the group, -1 if none
  pc,         \* where each replica's loop is suspended
  owner,      \* owner[w]: w has the partition assigned
  position,   \* position[w]: offset of the last record handed to the loop
  cur,        \* cur[w]: offset of the record being processed, 0 if none
  decision,   \* decision[w]: the decision on that record
  degraded,   \* degraded[w]: an engine call failed for that record
  metrics,    \* the Redis counters
  faults,     \* faults so far
  evaluated,  \* history: evaluated[o]: decisions published about offset o
  jumped      \* history: offsets skipped by starting at the end

kafka == <<log, committed>>
loop == <<pc, owner, position, cur, decision, degraded>>
orchVars == <<kafka, loop, metrics, faults, evaluated, jumped>>

Offset == 1..MaxTx
Counter == {"total", "volume", "blocked", "fraud"}
Called == {"rule", "ml", "graph"}

OrchTypeOK ==
  /\ log \in Seq(Kind)
  /\ Len(log) <= MaxTx
  /\ committed \in -1..Len(log)
  /\ pc \in [Replica -> {"idle", "score", "publish", "dead", "down"} \cup Counter]
  /\ owner \in [Replica -> BOOLEAN]
  /\ position \in [Replica -> 0..Len(log)]
  /\ cur \in [Replica -> 0..Len(log)]
  /\ decision \in [Replica -> Decision]
  /\ degraded \in [Replica -> BOOLEAN]
  /\ metrics \in [Counter -> Nat]
  /\ faults \in 0..MaxFaults
  /\ evaluated \in [Offset -> Nat]
  /\ jumped \in SUBSET Offset

OrchInit ==
  /\ log = <<>>
  /\ committed = -1
  /\ pc = [w \in Replica |-> "down"]
  /\ owner = [w \in Replica |-> FALSE]
  /\ position = [w \in Replica |-> 0]
  /\ cur = [w \in Replica |-> 0]
  /\ decision = [w \in Replica |-> "approve"]
  /\ degraded = [w \in Replica |-> FALSE]
  /\ metrics = [m \in Counter |-> 0]
  /\ faults = 0
  /\ evaluated = [o \in Offset |-> 0]
  /\ jumped = {}
-----------------------------------------------------------------------------
Goto(w, label) == pc' = [pc EXCEPT ![w] = label]
Fault == faults < MaxFaults /\ faults' = faults + 1
Up(w) == pc[w] # "down"

\* The loop is done with the record, and goes on or ends.
Leave(w, label) ==
  /\ Goto(w, label)
  /\ cur' = [cur EXCEPT ![w] = 0]
  /\ decision' = [decision EXCEPT ![w] = "approve"]
  /\ degraded' = [degraded EXCEPT ![w] = FALSE]

\* transaction-service, or any other producer, appends a record.
Ingest(k) ==
  /\ Len(log) < MaxTx
  /\ log' = Append(log, k)
  /\ UNCHANGED <<committed, loop, metrics, faults, evaluated, jumped>>

Start(w) ==
  /\ pc[w] = "down"
  /\ Goto(w, "idle")
  /\ UNCHANGED <<kafka, owner, position, cur, decision, degraded, metrics,
                 faults, evaluated, jumped>>

Unowned == \A v \in Replica : ~owner[v]

\* The coordinator gives w the partition: at the committed offset, or at the
\* end of the partition if there is none.  A live owner it is taken from may
\* commit its position one last time, and still finishes its record.
Assign(w) ==
  /\ Up(w)
  /\ ~owner[w]
  /\ IF Unowned THEN UNCHANGED <<faults, committed>>
     ELSE Fault /\ committed' \in {committed} \cup
                     {position[v] : v \in {v \in Replica : owner[v]}}
  /\ owner' = [v \in Replica |-> v = w]
  /\ position' = [v \in Replica |->
       IF v # w THEN 0
       ELSE IF committed' = -1 THEN Len(log) ELSE committed']
  /\ jumped' = IF committed' = -1
               THEN jumped \cup (1..Len(log)) ELSE jumped
  /\ UNCHANGED <<log, pc, cur, decision, degraded, metrics, evaluated>>

\* Mutant: the offset of the next record is committed.
AutoCommitNext(w) ==
  /\ owner[w]
  /\ committed # position[w] + 1
  /\ committed' = position[w] + 1
  /\ UNCHANGED <<log, loop, metrics, faults, evaluated, jumped>>

\* Auto-commit, every few seconds, whatever the loop is doing.
AutoCommit(w) ==
  /\ owner[w]
  /\ committed # position[w]
  /\ committed' = position[w]
  /\ UNCHANGED <<log, loop, metrics, faults, evaluated, jumped>>

Exit(w) ==
  /\ Up(w)
  /\ Fault
  /\ Leave(w, "down")
  /\ owner' = [owner EXCEPT ![w] = FALSE]
  /\ position' = [position EXCEPT ![w] = 0]
  /\ UNCHANGED <<log, metrics, evaluated, jumped>>

Crash(w) == Exit(w) /\ UNCHANGED committed

\* stop(): the task is cancelled and consumer.stop() commits the position.
Stop(w) ==
  /\ Exit(w)
  /\ committed' = IF owner[w] THEN position[w] ELSE committed
-----------------------------------------------------------------------------
\* consume()

CanFetch(w) ==
  /\ pc[w] = "idle"
  /\ owner[w]
  /\ position[w] < Len(log)

Upcoming(w) == log[position[w] + 1]

\* Mutant: the loop polls from the committed offset.
FetchCommitted(w) ==
  /\ CanFetch(w)
  /\ committed \in 0..(Len(log) - 1)
  /\ log[committed + 1] = "tx"
  /\ position' = [position EXCEPT ![w] = committed + 1]
  /\ cur' = [cur EXCEPT ![w] = committed + 1]
  /\ Goto(w, "score")
  /\ UNCHANGED <<kafka, owner, decision, degraded, metrics, faults, evaluated,
                 jumped>>

FetchTx(w) ==
  /\ CanFetch(w)
  /\ Upcoming(w) = "tx"
  /\ position' = [position EXCEPT ![w] = @ + 1]
  /\ cur' = [cur EXCEPT ![w] = position[w] + 1]
  /\ Goto(w, "score")
  /\ UNCHANGED <<kafka, owner, decision, degraded, metrics, faults, evaluated,
                 jumped>>

FetchEmpty(w) ==
  /\ CanFetch(w)
  /\ Upcoming(w) = "empty"
  /\ position' = [position EXCEPT ![w] = @ + 1]
  /\ UNCHANGED <<kafka, pc, owner, cur, decision, degraded, metrics, faults,
                 evaluated, jumped>>

\* The deserializer raises before the record is handed over: the loop ends.
FetchBad(w) ==
  /\ CanFetch(w)
  /\ Upcoming(w) = "bad"
  /\ Leave(w, "dead")
  /\ UNCHANGED <<kafka, owner, position, metrics, faults, evaluated, jumped>>

\* value.get or payload.get raises after the record was handed over.
FetchOdd(w) ==
  /\ CanFetch(w)
  /\ Upcoming(w) = "odd"
  /\ Goto(w, "dead")
  /\ position' = [position EXCEPT ![w] = @ + 1]
  /\ UNCHANGED <<kafka, owner, cur, decision, degraded, metrics, faults,
                 evaluated, jumped>>

\* What the client returns for engine e when the calls to the engines in down
\* fail and s[e] is the score e would send.
Answer(down, s, e) == IF e \in down THEN 0 ELSE s[e]

\* gather() returns the three answers and a decision is made from them.
ScoreTx(w) ==
  /\ pc[w] = "score"
  /\ \E down \in SUBSET Called : \E s \in [Called -> Reply] :
       LET rule == Answer(down, s, "rule")
           ml == Answer(down, s, "ml")
           graph == Answer(down, s, "graph")
       IN  /\ Accepted(Scores(rule, ml, graph), Weights)
           /\ decision' = [decision EXCEPT ![w] = Decide(rule, ml, graph)]
           /\ degraded' = [degraded EXCEPT ![w] = down # {}]
  /\ Goto(w, "publish")
  /\ UNCHANGED <<kafka, owner, position, cur, metrics, faults, evaluated, jumped>>

\* An engine answers out of range: aggregate() raises ValueError and the loop
\* ends.
ScoreRejected(w) ==
  /\ pc[w] = "score"
  /\ Fault
  /\ \E down \in SUBSET Called : \E s \in [Called -> Reply] :
       ~Accepted(Scores(Answer(down, s, "rule"), Answer(down, s, "ml"),
                        Answer(down, s, "graph")), Weights)
  /\ Leave(w, "dead")
  /\ UNCHANGED <<kafka, owner, position, metrics, evaluated, jumped>>

Evaluate(w) == evaluated' = [evaluated EXCEPT ![cur[w]] = @ + 1]

Publish(w) ==
  /\ pc[w] = "publish"
  /\ Evaluate(w)
  /\ Goto(w, "total")
  /\ UNCHANGED <<kafka, owner, position, cur, decision, degraded, metrics,
                 faults, jumped>>

\* send_and_wait raises, and the broker may have stored the event: the loop
\* ends.
PublishRaises(w) ==
  /\ pc[w] = "publish"
  /\ Fault
  /\ Evaluate(w) \/ UNCHANGED evaluated
  /\ Leave(w, "dead")
  /\ UNCHANGED <<kafka, owner, position, metrics, jumped>>

\* The counter to update after m, for the decision on w's record.
Following(w, m) ==
  CASE m = "total" -> "volume"
    [] m = "volume" /\ decision[w] = "block" -> "blocked"
    [] m = "volume" /\ decision[w] = "review" -> "fraud"
    [] m = "blocked" -> "fraud"
    [] OTHER -> "idle"

\* The transaction's amount is taken to be 1.
Increment(w) == metrics' = [metrics EXCEPT ![pc[w]] = @ + 1]

Count(w) ==
  /\ pc[w] \in Counter
  /\ Increment(w)
  /\ IF Following(w, pc[w]) = "idle"
     THEN Leave(w, "idle")
     ELSE Goto(w, Following(w, pc[w])) /\ UNCHANGED <<cur, decision, degraded>>
  /\ UNCHANGED <<kafka, owner, position, faults, evaluated, jumped>>

\* Mutant: each command has its own try block.
CountRaisesOn(w) ==
  /\ pc[w] \in Counter
  /\ Fault
  /\ Increment(w) \/ UNCHANGED metrics
  /\ IF Following(w, pc[w]) = "idle"
     THEN Leave(w, "idle")
     ELSE Goto(w, Following(w, pc[w])) /\ UNCHANGED <<cur, decision, degraded>>
  /\ UNCHANGED <<kafka, owner, position, evaluated, jumped>>

\* Redis fails, whether or not it applied the command: the remaining counters
\* are left alone and the loop goes on.
CountRaises(w) ==
  /\ pc[w] \in Counter
  /\ Fault
  /\ Increment(w) \/ UNCHANGED metrics
  /\ Leave(w, "idle")
  /\ UNCHANGED <<kafka, owner, position, evaluated, jumped>>

Loop(w) ==
  \/ FetchTx(w) \/ FetchEmpty(w) \/ FetchBad(w) \/ FetchOdd(w)
  \/ ScoreTx(w) \/ ScoreRejected(w) \/ Publish(w) \/ PublishRaises(w)
  \/ Count(w) \/ CountRaises(w)

OrchNext ==
  \/ \E k \in Kind : Ingest(k)
  \/ \E w \in Replica : \/ Loop(w)
                        \/ Start(w) \/ Assign(w) \/ AutoCommit(w)
                        \/ Crash(w) \/ Stop(w)

OrchSpec == OrchInit /\ [][OrchNext]_orchVars

\* A loop that can run runs, Kubernetes restarts a process that is down (not
\* one whose loop is dead, as /health still answers), the coordinator assigns
\* a partition nobody owns, and the auto-commit timer fires.
OrchFairSpec ==
  /\ OrchSpec
  /\ \A w \in Replica : /\ WF_orchVars(Loop(w))
                        /\ WF_orchVars(Start(w))
                        /\ WF_orchVars(Unowned /\ Assign(w))
                        /\ WF_orchVars(AutoCommit(w))
-----------------------------------------------------------------------------
\* The dashboard never counts more fraud than transactions, nor more
\* transactions than decisions that were published, and a blocked transaction
\* that is not counted as fraud is being counted or costs a fault: replicas
\* crash and Redis fails between the four increments (main.py 107-119).
InFlight == {w \in Replica : pc[w] = "fraud" /\ decision[w] = "block"}

Published[n \in 0..MaxTx] ==
  IF n = 0 THEN 0 ELSE evaluated[n] + Published[n - 1]

MetricsConsistent ==
  /\ metrics["fraud"] <= metrics["total"]
  /\ metrics["total"] <= Published[MaxTx]
  /\ metrics["blocked"] <= metrics["fraud"] + Cardinality(InFlight) + faults

\* A transaction is published again only after a fault.
RepeatsNeedFaults == \A o \in Offset : evaluated[o] <= 1 + faults

\* Although offsets are committed while records are still being processed, a
\* fault costs at most one transaction, apart from those a group without a
\* committed offset jumped over.
Processing(o) == \E w \in Replica : cur[w] = o /\ pc[w] \in {"score", "publish"}
Lost == {o \in 1..Len(log) : /\ o <= committed
                             /\ log[o] = "tx"
                             /\ evaluated[o] = 0
                             /\ ~Processing(o)
                             /\ o \notin jumped}
LossBounded == Cardinality(Lost) <= faults

\* "degraded modes block rather than allow" (security-architecture.md 40): what
\* was scored while a call to an engine failed is not approved.
DegradedBlocks ==
  \A w \in Replica :
    pc[w] \in {"publish"} \cup Counter /\ degraded[w] => decision[w] # "approve"

\* "Failure -> Retry (offset NOT committed), Event redelivered"
\* (data-flow.md 710): what the loop took from the topic is evaluated.
FetchedIsEvaluated ==
  \A o \in Offset :
    (\E w \in Replica : cur[w] = o) ~> evaluated[o] > 0
=============================================================================
