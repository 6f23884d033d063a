-------------------------- MODULE FraudBusProofs ---------------------------
(***************************************************************************)
(* Proofs about FraudBus: the producer and the replayer behave as an       *)
(* environment of FraudConsumer, so no record is lost on the whole bus;    *)
(* and the replayer never commits past a dead letter it did not deal with. *)
(***************************************************************************)
EXTENDS FraudBus, FraudConsumerProofs

\* The event being sent and the dead letters carry ids that were generated.
IssuedInv ==
  /\ sending \in 0..MaxEvents /\ sending < nextId
  /\ batch \in [next : Nat, last : Nat]
  /\ batch.last <= Len(dlq)
  /\ batch # NoBatch => batch.next >= 1
  /\ \A i \in 1..Len(dlq) : dlq[i] < nextId
  /\ \A o \in 1..Len(log) : log[o] \in Event => log[o] < nextId

BusInv == TypeInv /\ IssuedInv

\* Nothing was issued when the bus starts.
LEMMA InitBusInv == BusInit => BusInv
BY InitTypeInv, ConsumerAssumption
   DEF BusInit, BusInv, IssuedInv, TypeInv, TypeOK, Init, NoBatch, Event

\* What reaches the broker is a record FraudConsumer's environment may append.
LEMMA StoreAppends ==
  ASSUME NEW r \in Event \cup Malformed, r \in Event => r < nextId, Store(r),
         UNCHANGED <<nextId, dlq, consumer>>
  PROVE  Environment
BY DEF Store, Environment, AppendRecord, consumer

\* A producer is an environment FraudConsumer allows.
LEMMA ProducerRefines ==
  ASSUME BusInv, Publish \/ SendAcked \/ SendRaises \/ ProducerCrash \/ ForeignWrite
  PROVE  [Environment]_vars
<1> USE DEF BusInv, IssuedInv
<1>1. CASE Publish
  BY <1>1 DEF Publish, Environment
<1>2. CASE SendAcked \/ SendRaises
  <2>1. sending \in Event /\ UNCHANGED <<nextId, dlq, consumer>>
    BY <1>2 DEF SendAcked, SendRaises, Event
  <2>2. Store(sending) \/ UNCHANGED log
    BY <1>2 DEF SendAcked, SendRaises
  <2>3. CASE Store(sending)
    BY <2>1, <2>3, StoreAppends
  <2>4. CASE UNCHANGED log
    BY <2>1, <2>4 DEF vars, brokerVars, consumer, history
  <2> QED BY <2>2, <2>3, <2>4
<1>3. CASE ProducerCrash
  BY <1>3 DEF ProducerCrash
<1>4. CASE ForeignWrite
  <2>1. PICK r \in Malformed : Store(r)
    BY <1>4 DEF ForeignWrite
  <2>2. r \notin Event
    BY ConsumerAssumption DEF Event, Garbage, Undecodable
  <2> QED BY <1>4, <2>1, <2>2, StoreAppends DEF ForeignWrite
<1> QED BY <1>1, <1>2, <1>3, <1>4

\* So is a replay: it appends what the dead letter topic holds.
LEMMA ReplayerRefines ==
  ASSUME BusInv, ReplayFetch \/ ReplayRecord \/ ReplayRaises \/ ReplayCommit \/ ReplayDies
  PROVE  [Environment]_vars
<1> USE DEF BusInv, IssuedInv
<1>1. CASE ReplayFetch \/ ReplayCommit \/ ReplayDies
  BY <1>1 DEF ReplayFetch, ReplayCommit, ReplayDies
<1>2. CASE ReplayRecord \/ ReplayRaises
  <2> DEFINE e == dlq[batch.next]
  <2>1. batch.next \in 1..Len(dlq)
    BY <1>2 DEF ReplayRecord, ReplayRaises, Replaying, TypeInv, TypeOK
  <2>2. e \in Event /\ e < nextId
    BY <2>1 DEF TypeInv, TypeOK
  <2>3. /\ UNCHANGED <<nextId, dlq, consumer>>
        /\ Store(e) \/ UNCHANGED log
    BY <1>2 DEF ReplayRecord, ReplayRaises
  <2> HIDE DEF e
  <2>4. CASE Store(e)
    BY <2>2, <2>3, <2>4, StoreAppends
  <2>5. CASE UNCHANGED log
    BY <2>3, <2>5 DEF vars, brokerVars, consumer, history
  <2> QED BY <2>3, <2>4, <2>5
<1> QED BY <1>1, <1>2

\* Every step of the bus is a step of FraudConsumer, or stutters.
LEMMA BusStepRefines == BusInv /\ [BusNext]_busVars => [Next]_vars
BY ProducerRefines, ReplayerRefines DEF BusNext, Next, busVars

-----------------------------------------------------------------------------
\* The ids in the dead letter topic are numbers, as is the next id.
LEMMA Ids == TypeInv => /\ Event \subseteq Nat
                        /\ nextId \in Nat
                        /\ \A i \in 1..Len(dlq) : dlq[i] \in Nat
<1>1. Event \subseteq Nat
  BY ConsumerAssumption DEF Event
<1>2. TypeInv => nextId \in Nat
  BY ConsumerAssumption DEF TypeInv, TypeOK
<1>3. TypeInv => \A i \in 1..Len(dlq) : dlq[i] \in Event
  BY DEF TypeInv, TypeOK
<1> QED BY <1>1, <1>2, <1>3

\* A worker's step generates ids in order and dead-letters issued ones.
LEMMA WorkerIssues ==
  ASSUME BusInv, NEW w \in Worker, Step(w)
  PROVE  /\ nextId' >= nextId
         /\ Len(dlq') >= Len(dlq)
         /\ \A i \in 1..Len(dlq') : dlq'[i] < nextId'
<1> USE DEF BusInv, IssuedInv, TypeInv, TypeOK
<1>1. CASE RejectGarbage(w)
  <2>1. dlq' = Append(dlq, nextId) \/ dlq' = dlq
    BY <1>1 DEF RejectGarbage, SendToDlq
  <2>2. nextId' = nextId + 1 /\ nextId \in Event /\ nextId \in Nat
    BY <1>1, Ids DEF RejectGarbage
  <2>3. \A i \in 1..Len(dlq) : dlq[i] < nextId'
    <3>1. \A i \in 1..Len(dlq) : dlq[i] \in Nat /\ dlq[i] < nextId
      BY Ids
    <3> QED BY <2>2, <3>1
  <2>4. CASE dlq' = dlq
    BY <2>2, <2>3, <2>4
  <2>5. CASE dlq' = Append(dlq, nextId)
    <3>1. /\ Len(dlq') = Len(dlq) + 1 /\ dlq'[Len(dlq) + 1] = nextId
          /\ \A i \in 1..Len(dlq) : dlq'[i] = dlq[i]
      BY <2>2, <2>5
    <3>2. ASSUME NEW i \in 1..Len(dlq') PROVE dlq'[i] < nextId'
      <4>1. CASE i = Len(dlq) + 1
        BY <2>2, <3>1, <4>1
      <4>2. CASE i \in 1..Len(dlq)
        BY <2>3, <3>1, <4>2
      <4> QED BY <3>1, <4>1, <4>2
    <3>3. nextId' >= nextId /\ Len(dlq') >= Len(dlq)
      BY <2>2, <3>1
    <3> QED BY <3>2, <3>3
  <2> QED BY <2>1, <2>4, <2>5
<1>2. CASE HandlerExhausted(w)
  <2>1. Record(w) \in Event /\ Record(w) < nextId
    BY <1>2, HeldRecord DEF HandlerExhausted, Busy, Parsed, RecordInv, Record
  <2>2. dlq' = Append(dlq, Record(w)) \/ dlq' = dlq
    BY <1>2 DEF HandlerExhausted, SendToDlq
  <2>3. nextId' = nextId
    BY <1>2 DEF HandlerExhausted
  <2>4. CASE dlq' = dlq
    BY <2>3, <2>4, ConsumerAssumption
  <2>5. CASE dlq' = Append(dlq, Record(w))
    <3>1. /\ Len(dlq') = Len(dlq) + 1 /\ dlq'[Len(dlq) + 1] = Record(w)
          /\ \A i \in 1..Len(dlq) : dlq'[i] = dlq[i]
      BY <2>1, <2>5
    <3>2. ASSUME NEW i \in 1..Len(dlq') PROVE dlq'[i] < nextId'
      <4>1. CASE i = Len(dlq) + 1
        BY <2>1, <2>3, <3>1, <4>1
      <4>2. CASE i \in 1..Len(dlq)
        BY <2>3, <3>1, <4>2
      <4> QED BY <3>1, <4>1, <4>2
    <3> QED BY <2>3, <3>1, <3>2, ConsumerAssumption
  <2> QED BY <2>2, <2>4, <2>5
<1>3. CASE ~(RejectGarbage(w) \/ HandlerExhausted(w))
  <2>1. UNCHANGED <<nextId, dlq>>
    BY <1>3 DEF Step, Loop, Start, Assign, Crash, RequestShutdown,
       FetchStopping, Fetch, FetchUndecodable, CheckDuplicate, CheckNew,
       CheckFails, HandleSucceeds, HandleRaises, MarkProcessed, Commit,
       CommitRevoked, CommitRaises, brokerVars
  <2> QED BY <2>1, ConsumerAssumption
<1> QED BY <1>1, <1>2, <1>3

\* The consumers dead-letter events that were issued before.
LEMMA ConsumersIssue ==
  ASSUME BusInv, Consumers, UNCHANGED <<producer, replayer>>
  PROVE  IssuedInv'
<1>1. /\ nextId' >= nextId
      /\ Len(dlq') >= Len(dlq)
      /\ \A i \in 1..Len(dlq') : dlq'[i] < nextId'
      /\ UNCHANGED log
  <2>1. ASSUME NEW w \in Worker, Step(w)
        PROVE  /\ nextId' >= nextId
               /\ Len(dlq') >= Len(dlq)
               /\ \A i \in 1..Len(dlq') : dlq'[i] < nextId'
               /\ UNCHANGED log
    BY <2>1, WorkerIssues, StepFrame DEF BusInv
  <2>2. ASSUME NEW e \in Event, Expire(e)
        PROVE  UNCHANGED <<nextId, dlq, log>>
    BY <2>2 DEF Expire, brokerVars
  <2> QED
    BY <2>1, <2>2, ConsumerAssumption
       DEF Consumers, Step, BusInv, IssuedInv, TypeInv, TypeOK
<1>2. /\ nextId \in Nat /\ nextId' \in Nat /\ Len(dlq) \in Nat /\ Len(dlq') \in Nat
  <2>1. TypeInv'
    BY TypeInvStep DEF BusInv, Next
  <2> QED BY <2>1, ConsumerAssumption DEF BusInv, TypeInv, TypeOK
<1> QED
  BY <1>1, <1>2, ConsumerAssumption
     DEF BusInv, IssuedInv, producer, replayer, NoBatch, Event

\* A stored record is the log with an issued id, or malformed bytes, appended.
LEMMA StoreIssued ==
  ASSUME BusInv, NEW r \in Event \cup Malformed, r \in Event => r < nextId,
         Store(r) \/ UNCHANGED log, UNCHANGED <<nextId, dlq>>
  PROVE  \A o \in 1..Len(log') : log'[o] \in Event => log'[o] < nextId'
<1>1. CASE UNCHANGED log
  BY <1>1 DEF BusInv, IssuedInv
<1>2. CASE Store(r)
  <2>1. /\ Len(log') = Len(log) + 1 /\ log'[Len(log) + 1] = r
        /\ \A o \in 1..Len(log) : log'[o] = log[o]
    BY <1>2 DEF Store, BusInv, TypeInv, TypeOK
  <2>2. ASSUME NEW o \in 1..Len(log'), log'[o] \in Event
        PROVE  log'[o] < nextId'
    <3>1. CASE o = Len(log) + 1
      BY <2>1, <2>2, <3>1
    <3>2. CASE o \in 1..Len(log)
      BY <2>1, <2>2, <3>2 DEF BusInv, IssuedInv
    <3> QED BY <2>1, <3>1, <3>2 DEF BusInv, TypeInv, TypeOK
  <2> QED BY <2>2
<1> QED BY <1>1, <1>2

\* A producer takes a fresh id, and keeps it through its retries.
LEMMA ProducerIssues ==
  ASSUME BusInv, Publish \/ SendAcked \/ SendRaises \/ ProducerCrash \/ ForeignWrite
  PROVE  IssuedInv'
<1> USE ConsumerAssumption DEF BusInv, IssuedInv, TypeInv, TypeOK, replayer
<1>1. CASE Publish
  BY <1>1 DEF Publish, CreateEvent, Event
<1>2. CASE SendAcked \/ SendRaises
  <2>1. sending \in Event /\ UNCHANGED <<nextId, dlq>> /\ sending' \in {0, sending}
    BY <1>2 DEF SendAcked, SendRaises, Event
  <2>2. \A o \in 1..Len(log') : log'[o] \in Event => log'[o] < nextId'
    BY <1>2, <2>1, StoreIssued DEF SendAcked, SendRaises
  <2> QED BY <1>2, <2>1, <2>2 DEF SendAcked, SendRaises, Event
<1>3. CASE ProducerCrash
  BY <1>3 DEF ProducerCrash, vars, brokerVars
<1>4. CASE ForeignWrite
  <2>1. PICK r \in Malformed : Store(r)
    BY <1>4 DEF ForeignWrite
  <2>2. r \notin Event
    BY DEF Event, Garbage, Undecodable
  <2>3. \A o \in 1..Len(log') : log'[o] \in Event => log'[o] < nextId'
    BY <1>4, <2>1, <2>2, StoreIssued DEF ForeignWrite
  <2> QED BY <1>4, <2>3 DEF ForeignWrite, producer
<1> QED BY <1>1, <1>2, <1>3, <1>4

\* A replay sends only ids the dead letter topic holds.
LEMMA ReplayerIssues ==
  ASSUME BusInv, ReplayFetch \/ ReplayRecord \/ ReplayRaises \/ ReplayCommit \/ ReplayDies,
         replayed \in Nat
  PROVE  IssuedInv'
<1> USE ConsumerAssumption DEF BusInv, IssuedInv, TypeInv, TypeOK, producer
<1>1. CASE ReplayFetch
  BY <1>1 DEF ReplayFetch, vars, brokerVars, NoBatch
<1>2. CASE ReplayRecord \/ ReplayRaises
  <2>1. batch.next \in 1..Len(dlq)
    BY <1>2 DEF ReplayRecord, ReplayRaises, Replaying
  <2>2. /\ UNCHANGED <<nextId, dlq, sending>>
        /\ Store(dlq[batch.next]) \/ UNCHANGED log
        /\ batch' = [batch EXCEPT !.next = @ + 1]
    BY <1>2 DEF ReplayRecord, ReplayRaises
  <2>3. \A o \in 1..Len(log') : log'[o] \in Event => log'[o] < nextId'
    <3>1. dlq[batch.next] \in Event /\ dlq[batch.next] < nextId
      BY <2>1
    <3> QED BY <2>2, <3>1, StoreIssued
  <2>4. /\ batch' \in [next : Nat, last : Nat]
        /\ batch'.last = batch.last /\ batch'.next >= 1
    <3>1. batch.next + 1 \in Nat /\ batch.next + 1 >= 1
      BY <2>1
    <3> QED BY <2>2, <3>1
  <2> QED BY <2>2, <2>3, <2>4
<1>3. CASE ReplayCommit \/ ReplayDies
  BY <1>3 DEF ReplayCommit, ReplayDies, vars, brokerVars, NoBatch
<1> QED BY <1>1, <1>2, <1>3
-----------------------------------------------------------------------------
\* What the replayer has committed is part of the dead letter topic, and a
\* batch starts right after it: everything between was dealt with already.
ReplayInv ==
  /\ replayed \in Nat
  /\ \A i \in 1..replayed : i \in republished \cup abandoned
  /\ batch # NoBatch =>
       /\ batch.next <= batch.last + 1
       /\ \A i \in 1..(batch.next - 1) : i \in republished \cup abandoned

BusInd == BusInv /\ ReplayInv

\* No replay is in progress when the bus starts.
LEMMA InitBusInd == BusInit => BusInd
BY InitBusInv DEF BusInd, ReplayInv, BusInit

\* A replay deals with each record before it goes to the next.
LEMMA ReplayInvStep == BusInd /\ [BusNext]_busVars => ReplayInv'
<1> SUFFICES ASSUME BusInd, [BusNext]_busVars PROVE ReplayInv'
  OBVIOUS
<1> USE DEF BusInd, ReplayInv
<1>1. CASE UNCHANGED replayer
  BY <1>1 DEF replayer
<1>2. CASE ReplayFetch
  BY <1>2 DEF ReplayFetch, NoBatch
<1>3. CASE ReplayRecord \/ ReplayRaises
  <2>1. /\ batch # NoBatch /\ batch.next <= batch.last
        /\ batch.next \in Nat /\ batch.last \in Nat
        /\ batch' = [batch EXCEPT !.next = @ + 1]
        /\ replayed' = replayed
    BY <1>3 DEF ReplayRecord, ReplayRaises, Replaying, BusInv, IssuedInv
  <2>2. batch'.next = batch.next + 1 /\ batch'.last = batch.last
    BY <2>1 DEF BusInv, IssuedInv
  <2>3. republished' \cup abandoned' = republished \cup abandoned \cup {batch.next}
    BY <1>3 DEF ReplayRecord, ReplayRaises
  <2>4. \A i \in 1..(batch'.next - 1) : i \in 1..(batch.next - 1) \/ i = batch.next
    BY <2>1, <2>2
  <2> QED BY <2>1, <2>2, <2>3, <2>4
<1>4. CASE ReplayCommit
  <2>1. batch.last < batch.next /\ batch.next \in Nat /\ batch.last \in Nat
    BY <1>4 DEF ReplayCommit, Replaying, BusInv, IssuedInv
  <2>2. 1..batch.last \subseteq 1..(batch.next - 1)
    BY <2>1
  <2> QED BY <1>4, <2>1, <2>2 DEF ReplayCommit
<1>5. CASE ReplayDies
  BY <1>5 DEF ReplayDies
<1> QED
  BY <1>1, <1>2, <1>3, <1>4, <1>5
     DEF BusNext, busVars, Publish, SendAcked, SendRaises, ProducerCrash,
         ForeignWrite

\* BusInd is inductive.
LEMMA BusIndStep == BusInd /\ [BusNext]_busVars => BusInd'
<1> SUFFICES ASSUME BusInd, [BusNext]_busVars PROVE BusInd'
  OBVIOUS
<1>1. TypeInv'
  <2>1. [Next]_vars
    BY BusStepRefines DEF BusInd
  <2> QED BY <2>1, TypeInvStep DEF BusInd, BusInv
<1>2. IssuedInv'
  <2>1. CASE UNCHANGED busVars
    BY <2>1 DEF BusInd, BusInv, IssuedInv, busVars, vars, brokerVars,
                producer, replayer, NoBatch, Event
  <2>2. CASE BusNext
    BY <2>2, ProducerIssues, ReplayerIssues, ConsumersIssue
       DEF BusNext, BusInd, ReplayInv
  <2> QED BY <2>1, <2>2
<1>3. ReplayInv'
  BY ReplayInvStep
<1> QED BY <1>1, <1>2, <1>3 DEF BusInd, BusInv

\* The invariant holds of the whole bus: in particular every id in the
\* partition and in the dead letter topic was generated by a producer or by
\* the consumer that wrapped malformed bytes.
THEOREM BusInvariant == BusSpec => []BusInd
BY InitBusInd, BusIndStep, PTL DEF BusSpec

\* The replayer never commits past a dead letter it did not deal with.
THEOREM ReplayCorrect == BusSpec => []ReplayLosesNothing
<1>1. BusInd => ReplayLosesNothing
  BY DEF BusInd, ReplayInv, ReplayLosesNothing
<1> QED BY <1>1, BusInvariant, PTL

\* The whole bus is a behaviour of FraudConsumer: retried sends and replays
\* are an environment it was proved against.
THEOREM BusRefinement == BusSpec => ImplementsConsumer
<1>1. BusInit => Init
  BY DEF BusInit
<1>2. BusInd /\ [BusNext]_busVars => [Next]_vars
  BY BusStepRefines DEF BusInd
<1> QED BY <1>1, <1>2, BusInvariant, PTL DEF BusSpec, ImplementsConsumer, Spec

\* No record is lost silently on the whole bus, whatever the producer resends
\* and the replayer feeds back.
THEOREM BusNoLoss == BusSpec => []NoSilentLoss
BY BusRefinement, NoLoss, PTL DEF ImplementsConsumer

\* However often the producer resends an event or the replayer feeds it back,
\* a group handles it once, plus at most once for every fault of a consumer.
THEOREM BusDuplicates == BusSpec => []DuplicatesNeedFaults
BY BusRefinement, DuplicatesCorrect, PTL DEF ImplementsConsumer

\* Whatever is resent and replayed, a record is skipped as a duplicate only if
\* its event was handled, dead-lettered or reported as dropped.
THEOREM BusSkips == BusSpec => []SkipsAreDuplicates
BY BusRefinement, SkipsCorrect, PTL DEF ImplementsConsumer
-----------------------------------------------------------------------------
\* The dead letter topic never shrinks.
LEMMA DlqGrows ==
  BusInv /\ [BusNext]_busVars =>
    Len(dlq) \in Nat /\ Len(dlq') \in Nat /\ Len(dlq) <= Len(dlq')
<1> SUFFICES ASSUME BusInv, [BusNext]_busVars
             PROVE  Len(dlq) \in Nat /\ Len(dlq') \in Nat /\ Len(dlq) <= Len(dlq')
  OBVIOUS
<1>1. TypeInv /\ TypeInv'
  BY BusStepRefines, TypeInvStep DEF BusInv
<1>2. Len(dlq) \in Nat /\ Len(dlq') \in Nat
  BY <1>1 DEF TypeInv, TypeOK
<1>3. CASE UNCHANGED dlq
  BY <1>2, <1>3
<1>4. CASE Consumers
  <2>1. ASSUME NEW w \in Worker, Step(w) PROVE Len(dlq') >= Len(dlq)
    BY <2>1, WorkerIssues
  <2>2. ASSUME NEW e \in Event, Expire(e) PROVE UNCHANGED dlq
    BY <2>2 DEF Expire, brokerVars
  <2> QED BY <1>2, <1>3, <1>4, <2>1, <2>2 DEF Consumers, Step
<1>5. CASE Publish \/ SendAcked \/ SendRaises \/ ProducerCrash \/ ForeignWrite
  BY <1>3, <1>5 DEF Publish, CreateEvent, SendAcked, SendRaises, ProducerCrash, ForeignWrite,
                    vars, brokerVars
<1>6. CASE ReplayFetch \/ ReplayRecord \/ ReplayRaises \/ ReplayCommit \/ ReplayDies
  BY <1>3, <1>6 DEF ReplayFetch, ReplayRecord, ReplayRaises, ReplayCommit, ReplayDies,
                    vars, brokerVars
<1>7. CASE UNCHANGED busVars
  BY <1>3, <1>7 DEF busVars, vars, brokerVars
<1> QED BY <1>4, <1>5, <1>6, <1>7 DEF BusNext

\* The attempts of the producer, and the dead letters the replayer dealt with.
SendsInv ==
  /\ sends \in 1..MaxSends
  /\ republished \subseteq 1..Len(dlq)
  /\ abandoned \subseteq 1..Len(dlq)

\* A send is attempted at most MaxSends times; a replay names dead letters that
\* exist.
LEMMA SendsInvStep == BusInd /\ SendsInv /\ [BusNext]_busVars => SendsInv'
<1> SUFFICES ASSUME BusInd, SendsInv, [BusNext]_busVars PROVE SendsInv'
  OBVIOUS
<1> USE BusAssumption DEF SendsInv
<1>0. 1..Len(dlq) \subseteq 1..Len(dlq')
  <2>1. Len(dlq) \in Nat /\ Len(dlq') \in Nat /\ Len(dlq) <= Len(dlq')
    BY DlqGrows DEF BusInd
  <2> QED BY <2>1
<1>1. CASE UNCHANGED <<sends, republished, abandoned>>
  BY <1>0, <1>1
<1>2. CASE SendAcked \/ SendRaises \/ ProducerCrash
  <2>1. \/ sends' = 1
        \/ sends < MaxSends /\ sends' = sends + 1
    BY <1>2 DEF SendAcked, SendRaises, ProducerCrash
  <2>2. UNCHANGED <<republished, abandoned>>
    BY <1>2 DEF SendAcked, SendRaises, ProducerCrash, replayer
  <2> QED BY <1>0, <2>1, <2>2
<1>3. CASE ReplayRecord \/ ReplayRaises
  <2>1. batch.next \in 1..Len(dlq)
    BY <1>3 DEF ReplayRecord, ReplayRaises, Replaying, BusInd, BusInv, IssuedInv, TypeInv, TypeOK
  <2> QED BY <1>0, <1>3, <2>1 DEF ReplayRecord, ReplayRaises, producer
<1>4. CASE Publish \/ ForeignWrite
  BY <1>1, <1>4 DEF Publish, ForeignWrite, producer, replayer
<1>5. CASE ReplayFetch \/ ReplayCommit \/ ReplayDies
  BY <1>1, <1>5 DEF ReplayFetch, ReplayCommit, ReplayDies, producer
<1>6. CASE UNCHANGED <<producer, replayer>>
  BY <1>1, <1>6 DEF producer, replayer
<1> QED
  BY <1>2, <1>3, <1>4, <1>5, <1>6 DEF BusNext, busVars

\* Every variable of the bus keeps its type: a producer makes at most MaxSends
\* attempts, and the replayer commits, reads, republishes and gives up only
\* dead letters that exist.
THEOREM BusTypeCorrect == BusSpec => []BusTypeOK
<1>1. BusInit => SendsInv
  BY BusAssumption DEF BusInit, SendsInv
<1>2. BusInd /\ SendsInv => BusTypeOK
  <2> SUFFICES ASSUME BusInd, SendsInv PROVE BusTypeOK
    OBVIOUS
  <2> USE DEF BusInd, BusInv, IssuedInv, ReplayInv, SendsInv
  <2>1. Len(dlq) \in Nat /\ replayed \in Nat
    BY DEF TypeInv, TypeOK
  <2>2. replayed \in 0..Len(dlq)
    <3>1. replayed > 0 => replayed \in 1..Len(dlq)
      BY <2>1
    <3> QED BY <2>1, <3>1
  <2>3. batch.next \in Nat /\ batch.last \in Nat /\ batch.next <= batch.last + 1
    BY DEF NoBatch
  <2>4. batch \in [next : 0..Len(dlq) + 1, last : 0..Len(dlq)]
    <3>1. batch.next \in 0..Len(dlq) + 1 /\ batch.last \in 0..Len(dlq)
      BY <2>1, <2>3
    <3> QED BY <3>1
  <2> QED BY <2>2, <2>3, <2>4 DEF TypeInv, BusTypeOK
<1> QED BY <1>1, <1>2, BusInvariant, SendsInvStep, PTL DEF BusSpec
=============================================================================
