----------------------------- MODULE FraudBus ------------------------------
(***************************************************************************)
(* The whole of shared/fraud_common/kafka_utils.py around one topic: a     *)
(* FraudKafkaProducer that retries (publish_with_retry), the consumers of  *)
(* FraudConsumer, and an operator who replays the dead letter topic into   *)
(* the original one (DLQHandler.replay).  The producer and the replayer    *)
(* take the place of the environment of FraudConsumer.                     *)
(***************************************************************************)
EXTENDS FraudConsumer

CONSTANTS MaxSends,   \* max_retries of publish_with_retry
          BatchSize   \* batch_size of replay

ASSUME BusAssumption == MaxSends \in Nat \ {0} /\ BatchSize \in Nat \ {0}

VARIABLES
  sending,      \* event id being published, 0 if none
  sends,        \* attempt of publish_with_retry
  replayed,     \* offset of the dlq topic committed by the replayer's group
  batch,        \* the replay in progress: next and last offset, 0 and 0 if none
  republished,  \* history: dlq offsets sent back to the original topic
  abandoned     \* history: dlq offsets whose replay raised and was only logged

producer == <<sending, sends>>
replayer == <<replayed, batch, republished, abandoned>>
consumer == <<committed, marked, pc, assigned, position, cur, attempt,
              stopping, faults, history>>
busVars == <<vars, producer, replayer>>

NoBatch == [next |-> 0, last |-> 0]

BusTypeOK ==
  /\ TypeOK
  /\ sending \in 0..MaxEvents
  /\ sends \in 1..MaxSends
  /\ replayed \in 0..Len(dlq)
  /\ batch \in [next : 0..Len(dlq) + 1, last : 0..Len(dlq)]
  /\ batch.next <= batch.last + 1
  /\ republished \subseteq 1..Len(dlq)
  /\ abandoned \subseteq 1..Len(dlq)

BusInit ==
  /\ Init
  /\ sending = 0
  /\ sends = 1
  /\ replayed = 0
  /\ batch = NoBatch
  /\ republished = {}
  /\ abandoned = {}
-----------------------------------------------------------------------------
\* What reaching the broker does to the partition.
Store(r) == Len(log) < MaxLog /\ log' = Append(log, r)

\* A service builds an envelope with a fresh event id and publishes it.
Publish ==
  /\ sending = 0
  /\ CreateEvent
  /\ sending' = nextId
  /\ UNCHANGED <<sends, replayer>>

SendAcked ==
  /\ sending # 0
  /\ Store(sending)
  /\ sending' = 0
  /\ sends' = 1
  /\ UNCHANGED <<nextId, dlq, consumer, replayer>>

\* Mutant: the attempts are not counted against max_retries.
SendRaisesUnbounded ==
  /\ sending # 0
  /\ Store(sending) \/ UNCHANGED log
  /\ sends' = sends + 1
  /\ UNCHANGED <<nextId, dlq, sending, consumer, replayer>>

\* send_and_wait raises.  The broker may have stored the record all the same
\* (the producer is not idempotent); the loop sends it again, and re-raises
\* after the last attempt.
SendRaises ==
  /\ sending # 0
  /\ Store(sending) \/ UNCHANGED log
  /\ IF sends < MaxSends
     THEN sends' = sends + 1 /\ UNCHANGED sending
     ELSE sends' = 1 /\ sending' = 0
  /\ UNCHANGED <<nextId, dlq, consumer, replayer>>

ProducerCrash ==
  /\ sending # 0
  /\ sending' = 0
  /\ sends' = 1
  /\ UNCHANGED <<vars, replayer>>

\* A producer that does not use EventEnvelope.
ForeignWrite ==
  /\ \E r \in Malformed : Store(r)
  /\ UNCHANGED <<nextId, dlq, consumer, producer, replayer>>
-----------------------------------------------------------------------------
\* DLQHandler.replay

\* getmany returns some of the records after the replayer's offset.
ReplayFetch ==
  /\ batch = NoBatch
  /\ \E last \in replayed + 1..Len(dlq) :
       /\ last <= replayed + BatchSize
       /\ batch' = [next |-> replayed + 1, last |-> last]
  /\ UNCHANGED <<vars, producer, replayed, republished, abandoned>>

Replaying == batch # NoBatch /\ batch.next <= batch.last

\* Mutant: the event goes back under a new id.
ReplayRecordFreshId ==
  /\ Replaying
  /\ Store(nextId)
  /\ republished' = republished \cup {batch.next}
  /\ batch' = [batch EXCEPT !.next = @ + 1]
  /\ UNCHANGED <<nextId, dlq, consumer, producer, replayed, abandoned>>

\* The original event is published again under its own event id.
ReplayRecord ==
  /\ Replaying
  /\ Store(dlq[batch.next])
  /\ republished' = republished \cup {batch.next}
  /\ batch' = [batch EXCEPT !.next = @ + 1]
  /\ UNCHANGED <<nextId, dlq, consumer, producer, replayed, abandoned>>

\* publish raises; the error is logged and the loop goes on.
ReplayRaises ==
  /\ Replaying
  /\ Store(dlq[batch.next]) \/ UNCHANGED log
  /\ abandoned' = abandoned \cup {batch.next}
  /\ batch' = [batch EXCEPT !.next = @ + 1]
  /\ UNCHANGED <<nextId, dlq, consumer, producer, replayed, republished>>

\* Mutant: the commit covers the whole topic instead of the batch.
ReplayCommitEnd ==
  /\ batch # NoBatch
  /\ ~Replaying
  /\ replayed' = Len(dlq)
  /\ batch' = NoBatch
  /\ UNCHANGED <<vars, producer, republished, abandoned>>

ReplayCommit ==
  /\ batch # NoBatch
  /\ ~Replaying
  /\ replayed' = batch.last
  /\ batch' = NoBatch
  /\ UNCHANGED <<vars, producer, republished, abandoned>>

\* The replay dies, or its commit raises: the batch will be read again.
ReplayDies ==
  /\ batch # NoBatch
  /\ batch' = NoBatch
  /\ UNCHANGED <<vars, producer, replayed, republished, abandoned>>

BusNext ==
  \/ Publish \/ SendAcked \/ SendRaises \/ ProducerCrash \/ ForeignWrite
  \/ ReplayFetch \/ ReplayRecord \/ ReplayRaises \/ ReplayCommit \/ ReplayDies
  \/ Consumers /\ UNCHANGED <<producer, replayer>>

BusSpec == BusInit /\ [][BusNext]_busVars
-----------------------------------------------------------------------------
\* The producer and the replayer are an environment FraudConsumer allows: a
\* replay or a retried send never invents an event id and never disturbs the
\* consumers, so every theorem about FraudConsumer holds of the whole bus.
ImplementsConsumer == Spec

\* The replayer never commits past a dead letter it neither republished nor
\* reported, even when it dies inside a batch and reads it again.
ReplayLosesNothing ==
  \A i \in 1..replayed : i \in republished \cup abandoned

\* What the dead letter queue is for (data-flow.md 680 and 706): an event the
\* consumers of a group skip as already processed was once handled by them.
SkippedWasHandled ==
  \A s \in settled :
    s.fate = "skipped" => handled[s.group][log[s.off]] > 0
=============================================================================
