------------------------ MODULE FraudConsumerProofs ------------------------
(***************************************************************************)
(* Proofs about FraudConsumer for any number of workers and groups, any    *)
(* partition and any bounds: type correctness, no silent loss, that the    *)
(* consumer implements LogDelivery, that a record is skipped only if its   *)
(* event was really processed, and that a group handles an event twice     *)
(* only after a fault.                                                     *)
(***************************************************************************)
EXTENDS FraudConsumer, CountingLemmas, TLAPS

TypeInv == TypeOK /\ RecordInv

\* The actions of worker w that move neither the log nor other workers.
Step(w) == Loop(w) \/ Start(w) \/ Assign(w) \/ Crash(w) \/ RequestShutdown(w)

\* The initial state is well-typed.
LEMMA InitTypeInv == Init => TypeInv
BY ConsumerAssumption DEF Init, TypeInv, TypeOK, RecordInv, Label, Busy, Parsed

\* Appending a record keeps every record already there.
LEMMA AppendKeeps ==
  ASSUME NEW S, NEW s \in Seq(S), NEW r \in S
  PROVE  /\ Append(s, r) \in Seq(S)
         /\ Len(Append(s, r)) = Len(s) + 1
         /\ \A o \in 1..Len(s) : Append(s, r)[o] = s[o]
OBVIOUS

\* Producers and foreign writers append well-formed records.
LEMMA EnvironmentTypeInv == TypeInv /\ Environment => TypeInv'
<1> SUFFICES ASSUME TypeInv, Environment PROVE TypeInv'
  OBVIOUS
<1> USE ConsumerAssumption
<1>1. CASE CreateEvent
  BY <1>1 DEF CreateEvent, TypeInv, TypeOK, RecordInv, Busy, Parsed, Record,
              Event, history
<1>2. ASSUME NEW r \in Event \cup Malformed, AppendRecord(r)
      PROVE  TypeInv'
  <2> USE <1>2 DEF AppendRecord, history
  <2>1. /\ log' \in Seq(Event \cup Malformed)
        /\ Len(log') = Len(log) + 1
        /\ \A o \in 1..Len(log) : log'[o] = log[o]
    BY AppendKeeps DEF TypeInv, TypeOK
  <2>2. TypeOK'
    BY <2>1 DEF TypeInv, TypeOK
  <2>3. RecordInv'
    BY <2>1 DEF TypeInv, TypeOK, RecordInv, Busy, Parsed, Record
  <2> QED BY <2>2, <2>3 DEF TypeInv
<1> QED BY <1>1, <1>2 DEF Environment

\* The record a worker holds has an offset, and an event id once it is parsed.
LEMMA HeldRecord ==
  ASSUME TypeInv, NEW w \in Worker, Busy(w)
  PROVE  /\ cur[w] \in Nat
         /\ Parsed(w) => Record(w) \in Event
BY DEF TypeInv, TypeOK, RecordInv

\* Settling adds a well-formed entry.
LEMMA SettleType ==
  ASSUME TypeInv, NEW w \in Worker, NEW fate \in Fate,
         Settle(w, cur[w], fate)
  PROVE  settled' \in SUBSET [group : Group, off : Nat, fate : Fate]
<1>1. [group |-> GroupOf[w], off |-> cur[w], fate |-> fate]
        \in [group : Group, off : Nat, fate : Fate]
  BY ConsumerAssumption DEF TypeInv, TypeOK
<1> QED BY <1>1 DEF Settle, TypeInv, TypeOK

\* A dead letter with an event id leaves the topic and the history typed.
LEMMA SendToDlqType ==
  ASSUME TypeInv, NEW w \in Worker, NEW e \in Event, SendToDlq(w, e)
  PROVE  /\ dlq' \in Seq(Event)
         /\ faults' \in 0..MaxFaults
         /\ settled' \in SUBSET [group : Group, off : Nat, fate : Fate]
<1>1. /\ dlq \in Seq(Event)
      /\ faults \in 0..MaxFaults
  BY DEF TypeInv, TypeOK
<1>2. dlq' \in Seq(Event)
  BY <1>1 DEF SendToDlq
<1>3. faults' \in 0..MaxFaults
  BY <1>1, ConsumerAssumption DEF SendToDlq, Fault
<1>4. \E fate \in Fate : Settle(w, cur[w], fate)
  BY DEF SendToDlq, Fate
<1> QED BY <1>2, <1>3, <1>4, SettleType

\* A step of a worker keeps the types.
LEMMA StepTypeOK ==
  ASSUME TypeInv, NEW w \in Worker, Step(w)
  PROVE  TypeOK'
<1> USE ConsumerAssumption DEF TypeInv, TypeOK, RecordInv, Label, brokerVars,
        history, Goto, Leave, Finish, Fault, CanFetch, Record, Busy, Parsed
<1>1. CASE Start(w) BY <1>1 DEF Start
<1>2. CASE Assign(w) BY <1>2, SMTT(30) DEF Assign
<1>3. CASE Crash(w) BY <1>3 DEF Crash
<1>4. CASE RequestShutdown(w) BY <1>4 DEF RequestShutdown
<1>5. CASE FetchStopping(w) BY <1>5 DEF FetchStopping
<1>6. CASE Fetch(w) BY <1>6 DEF Fetch
<1>7. CASE FetchUndecodable(w) BY <1>7 DEF FetchUndecodable
<1>8. CASE RejectGarbage(w)
  <2>1. nextId \in Event /\ SendToDlq(w, nextId)
    BY <1>8 DEF RejectGarbage
  <2>2. nextId' \in 1..(MaxEvents + 1)
    BY <1>8 DEF RejectGarbage, Event
  <2>3. /\ pc' \in [Worker -> Label]
        /\ cur' \in [Worker -> Nat]
    BY <1>8 DEF RejectGarbage
  <2>4. UNCHANGED <<log, committed, marked, assigned, position, attempt,
                    stopping, handled>>
    BY <1>8 DEF RejectGarbage
  <2> QED BY <2>1, <2>2, <2>3, <2>4, SendToDlqType
<1>9. CASE CheckDuplicate(w) BY <1>9 DEF CheckDuplicate, Settle, Fate
<1>10. CASE CheckNew(w) BY <1>10 DEF CheckNew
<1>11. CASE CheckFails(w) BY <1>11 DEF CheckFails
<1>12. CASE HandleSucceeds(w)
  <2>1. Record(w) \in Event
    BY <1>12, HeldRecord DEF HandleSucceeds
  <2>2. settled' \in SUBSET [group : Group, off : Nat, fate : Fate]
    BY <1>12, SettleType DEF HandleSucceeds, Fate
  <2>3. handled' \in [Group -> [Event -> Nat]]
    BY <1>12, <2>1 DEF HandleSucceeds
  <2> QED BY <1>12, <2>2, <2>3 DEF HandleSucceeds
<1>13. CASE HandleRaises(w)
  <2>1. attempt' \in [Worker -> 1..MaxRetries]
    <3>1. CASE attempt[w] < MaxRetries
      <4>1. attempt[w] + 1 \in 1..MaxRetries
        BY <3>1
      <4> QED BY <1>13, <3>1, <4>1 DEF HandleRaises
    <3>2. CASE ~(attempt[w] < MaxRetries)
      <4>1. 1 \in 1..MaxRetries
        OBVIOUS
      <4> QED BY <1>13, <3>2, <4>1 DEF HandleRaises
    <3> QED BY <3>1, <3>2
  <2>2. pc' \in [Worker -> Label]
    BY <1>13 DEF HandleRaises
  <2> QED BY <1>13, <2>1, <2>2 DEF HandleRaises
<1>14. CASE HandlerExhausted(w)
  <2>1. Record(w) \in Event /\ SendToDlq(w, Record(w))
    BY <1>14, HeldRecord DEF HandlerExhausted
  <2> HIDE DEF Record
  <2> QED BY <1>14, <2>1, SendToDlqType DEF HandlerExhausted
<1>15. CASE MarkProcessed(w)
  <2>1. Record(w) \in Event
    BY <1>15, HeldRecord DEF MarkProcessed
  <2> HIDE DEF Record
  <2> QED BY <1>15, <2>1 DEF MarkProcessed
<1>16. CASE Commit(w) BY <1>16 DEF Commit
<1>17. CASE CommitRevoked(w) BY <1>17 DEF CommitRevoked
<1>18. CASE CommitRaises(w) BY <1>18 DEF CommitRaises
<1> QED
  BY <1>1, <1>2, <1>3, <1>4, <1>5, <1>6, <1>7, <1>8, <1>9, <1>10, <1>11, <1>12,
     <1>13, <1>14, <1>15, <1>16, <1>17, <1>18 DEF Step, Loop

\* What a step of w leaves alone: the log, and the coroutine of every other
\* worker; what was settled stays settled.
LEMMA StepFrame ==
  ASSUME TypeInv, NEW w \in Worker, Step(w)
  PROVE  /\ UNCHANGED log
         /\ settled \subseteq settled'
         /\ \A v \in Worker \ {w} : pc'[v] = pc[v] /\ cur'[v] = cur[v]
<1> USE DEF TypeInv, TypeOK, brokerVars, history, Goto, Leave, Finish, Settle,
        SendToDlq
<1>1. CASE Start(w) BY <1>1 DEF Start
<1>2. CASE Assign(w) BY <1>2 DEF Assign
<1>3. CASE Crash(w) BY <1>3 DEF Crash
<1>4. CASE RequestShutdown(w) BY <1>4 DEF RequestShutdown
<1>5. CASE FetchStopping(w) BY <1>5 DEF FetchStopping
<1>6. CASE Fetch(w) BY <1>6 DEF Fetch
<1>7. CASE FetchUndecodable(w) BY <1>7 DEF FetchUndecodable
<1>8. CASE RejectGarbage(w) BY <1>8 DEF RejectGarbage
<1>9. CASE CheckDuplicate(w) BY <1>9 DEF CheckDuplicate
<1>10. CASE CheckNew(w) BY <1>10 DEF CheckNew
<1>11. CASE CheckFails(w) BY <1>11 DEF CheckFails
<1>12. CASE HandleSucceeds(w) BY <1>12 DEF HandleSucceeds
<1>13. CASE HandleRaises(w) BY <1>13 DEF HandleRaises
<1>14. CASE HandlerExhausted(w) BY <1>14 DEF HandlerExhausted
<1>15. CASE MarkProcessed(w) BY <1>15 DEF MarkProcessed
<1>16. CASE Commit(w) BY <1>16 DEF Commit
<1>17. CASE CommitRevoked(w) BY <1>17 DEF CommitRevoked
<1>18. CASE CommitRaises(w) BY <1>18 DEF CommitRaises
<1> QED
  BY <1>1, <1>2, <1>3, <1>4, <1>5, <1>6, <1>7, <1>8, <1>9, <1>10, <1>11, <1>12,
     <1>13, <1>14, <1>15, <1>16, <1>17, <1>18 DEF Step, Loop

\* A worker picks up a new record only by fetching it; otherwise it keeps the
\* one it holds or puts it down.
LEMMA StepHolds ==
  ASSUME TypeInv, NEW w \in Worker, Step(w), ~Fetch(w)
  PROVE  /\ Busy(w)' => Busy(w) /\ cur'[w] = cur[w]
         /\ Parsed(w)' => Parsed(w)
<1> USE DEF TypeInv, TypeOK, Goto, Leave, Finish, Busy, Parsed, CanFetch
<1>1. CASE Start(w) BY <1>1 DEF Start
<1>2. CASE Assign(w) BY <1>2 DEF Assign
<1>3. CASE Crash(w) BY <1>3 DEF Crash
<1>4. CASE RequestShutdown(w) BY <1>4 DEF RequestShutdown
<1>5. CASE FetchStopping(w) BY <1>5 DEF FetchStopping
<1>7. CASE FetchUndecodable(w) BY <1>7 DEF FetchUndecodable
<1>8. CASE RejectGarbage(w) BY <1>8 DEF RejectGarbage
<1>9. CASE CheckDuplicate(w) BY <1>9 DEF CheckDuplicate
<1>10. CASE CheckNew(w) BY <1>10 DEF CheckNew
<1>11. CASE CheckFails(w) BY <1>11 DEF CheckFails
<1>12. CASE HandleSucceeds(w) BY <1>12 DEF HandleSucceeds, brokerVars
<1>13. CASE HandleRaises(w) BY <1>13 DEF HandleRaises
<1>14. CASE HandlerExhausted(w) BY <1>14 DEF HandlerExhausted
<1>15. CASE MarkProcessed(w) BY <1>15 DEF MarkProcessed
<1>16. CASE Commit(w) BY <1>16 DEF Commit
<1>17. CASE CommitRevoked(w) BY <1>17 DEF CommitRevoked
<1>18. CASE CommitRaises(w) BY <1>18 DEF CommitRaises
<1> QED
  BY <1>1, <1>2, <1>3, <1>4, <1>5, <1>7, <1>8, <1>9, <1>10, <1>11, <1>12,
     <1>13, <1>14, <1>15, <1>16, <1>17, <1>18 DEF Step, Loop

\* A fetch takes the record behind the position, and it exists.
LEMMA FetchedRecord ==
  ASSUME TypeInv, NEW w \in Worker, Fetch(w)
  PROVE  /\ cur'[w] = position[w] + 1
         /\ position[w] + 1 \in 1..Len(log)
         /\ Parsed(w)' => log[position[w] + 1] \in Event
<1>1. /\ position[w] \in Nat
      /\ position[w] + 1 \in 1..Len(log)
      /\ cur'[w] = position[w] + 1
      /\ pc'[w] = IF log[position[w] + 1] = Garbage THEN "reject" ELSE "check"
  BY DEF Fetch, CanFetch, Goto, TypeInv, TypeOK
<1>2. log[position[w] + 1] \in Event \cup Malformed
  BY <1>1 DEF TypeInv, TypeOK
<1>3. log[position[w] + 1] # Undecodable
  BY DEF Fetch
<1> QED
  BY <1>1, <1>2, <1>3, ConsumerAssumption DEF Parsed

\* The record in hand exists, and was parsed where the code says so.
LEMMA StepRecordInv ==
  ASSUME TypeInv, NEW w \in Worker, Step(w)
  PROVE  RecordInv'
<1>1. UNCHANGED log
  BY StepFrame
<1>2. ASSUME NEW v \in Worker \ {w}
      PROVE  /\ Busy(v)' => cur'[v] \in 1..Len(log')
             /\ Parsed(v)' => Record(v)' \in Event
  BY <1>1, StepFrame DEF TypeInv, RecordInv, Busy, Parsed, Record
<1>3. /\ Busy(w)' => cur'[w] \in 1..Len(log')
      /\ Parsed(w)' => Record(w)' \in Event
  <2>1. CASE Fetch(w)
    BY <1>1, <2>1, FetchedRecord DEF Record
  <2>2. CASE ~Fetch(w)
    BY <1>1, <2>2, StepHolds DEF TypeInv, RecordInv, Record, Parsed
  <2> QED BY <2>1, <2>2
<1> QED
  BY <1>2, <1>3 DEF RecordInv

\* The end of a dedup key changes only the keys and the faults.
LEMMA ExpireTypeInv ==
  ASSUME TypeInv, NEW e \in Event, Expire(e)
  PROVE  TypeInv'
BY ConsumerAssumption DEF Expire, Fault, TypeInv, TypeOK, RecordInv, Busy,
   Parsed, Record, brokerVars, history

\* TypeInv is inductive.
LEMMA TypeInvStep == TypeInv /\ [Next]_vars => TypeInv'
<1> SUFFICES ASSUME TypeInv, [Next]_vars PROVE TypeInv'
  OBVIOUS
<1>1. CASE Environment
  BY <1>1, EnvironmentTypeInv
<1>2. ASSUME NEW w \in Worker, Step(w) PROVE TypeInv'
  BY <1>2, StepTypeOK, StepRecordInv DEF TypeInv
<1>3. ASSUME NEW e \in Event, Expire(e) PROVE TypeInv'
  BY <1>3, ExpireTypeInv
<1>4. CASE UNCHANGED vars
  BY <1>4 DEF vars, brokerVars, history, TypeInv, TypeOK, RecordInv, Busy,
              Parsed, Record
<1> QED BY <1>1, <1>2, <1>3, <1>4 DEF Next, Consumers, Step

\* Every variable keeps its type, and a worker in the middle of a record holds
\* a record of the partition.
THEOREM TypeCorrect == Spec => []TypeInv
<1>1. Init => TypeInv
  BY InitTypeInv
<1>2. TypeInv /\ [Next]_vars => TypeInv'
  BY TypeInvStep
<1> QED BY <1>1, <1>2, PTL DEF Spec

\* Every variable keeps its type.
THEOREM TypeOKCorrect == Spec => []TypeOK
<1>1. TypeInv => TypeOK
  BY DEF TypeInv
<1> QED BY <1>1, TypeCorrect, PTL
-----------------------------------------------------------------------------
\* No silent loss.

\* A settled record stays settled.
LEMMA SettledStays ==
  ASSUME settled \subseteq settled', NEW g, NEW o, Settled(g, o)
  PROVE  Settled(g, o)'
BY DEF Settled

\* After Settle the record in hand is settled for the group of the worker.
LEMMA SettleSettles ==
  ASSUME NEW w, NEW fate, Settle(w, cur[w], fate)
  PROVE  \A o : o = cur[w] => Settled(GroupOf[w], o)'
<1> SUFFICES ASSUME NEW o, o = cur[w] PROVE Settled(GroupOf[w], o)'
  OBVIOUS
<1> DEFINE s == [group |-> GroupOf[w], off |-> o, fate |-> fate]
<1>1. s \in settled' /\ s.group = GroupOf[w] /\ s.off = o
  BY DEF Settle
<1> QED BY <1>1 DEF Settled

\* The body of OwnerInv for one worker.
Owner(w) ==
  /\ pc[w] # "down"
  /\ \A v \in Peers(w) : ~assigned[v]
  /\ position[w] \in committed[GroupOf[w]]..Len(log)
  /\ \A o \in 1..position[w] :
       Settled(GroupOf[w], o) \/ (Busy(w) /\ o = cur[w])

\* OwnerInv, worker by worker.
LEMMA OwnerInvBody == OwnerInv <=> \A w \in Worker : assigned[w] => Owner(w)
BY DEF OwnerInv, Owner

\* A step of w that keeps ownership and offsets, and puts the record in hand
\* down only once it is settled, keeps every owner's books.
LEMMA OwnerLocal ==
  ASSUME TypeInv, LossInv, NEW w \in Worker, Step(w),
         UNCHANGED <<assigned, position, committed>>,
         assigned[w] => pc'[w] # "down",
         Busy(w) => (Busy(w)' /\ cur'[w] = cur[w])
                    \/ \A o \in Nat : o = cur[w] => Settled(GroupOf[w], o)'
  PROVE  OwnerInv' /\ NoSilentLoss'
<1>1. UNCHANGED log /\ settled \subseteq settled'
  BY StepFrame
<1>2. ASSUME NEW v \in Worker, assigned'[v] PROVE Owner(v)'
  <2>1. Owner(v)
    BY <1>2, OwnerInvBody DEF LossInv
  <2>2. /\ pc'[v] # "down"
        /\ \A u \in Peers(v) : ~assigned'[u]
        /\ position'[v] \in committed'[GroupOf[v]]..Len(log')
    BY <1>1, <1>2, <2>1, StepFrame DEF Owner
  <2>3. ASSUME NEW o \in 1..position'[v]
        PROVE  Settled(GroupOf[v], o)' \/ (Busy(v)' /\ o = cur'[v])
    <3>1. CASE Settled(GroupOf[v], o)
      BY <1>1, <3>1, SettledStays
    <3>2. CASE Busy(v) /\ o = cur[v]
      <4>1. CASE v = w
        BY <3>2, <4>1, HeldRecord
      <4>2. CASE v # w
        BY <3>2, <4>2, StepFrame DEF Busy
      <4> QED BY <4>1, <4>2
    <3> QED BY <2>1, <3>1, <3>2 DEF Owner
  <2> QED BY <2>2, <2>3 DEF Owner, Peers
<1>3. NoSilentLoss'
  BY <1>1, SettledStays DEF LossInv, NoSilentLoss
<1> QED BY <1>2, <1>3, OwnerInvBody DEF OwnerInv, Owner

\* A worker that leaves the group owns nothing, and disturbs nobody.
LEMMA OwnerLeave ==
  ASSUME TypeInv, LossInv, NEW w \in Worker, Step(w), Leave(w),
         UNCHANGED committed
  PROVE  OwnerInv' /\ NoSilentLoss'
<1>1. UNCHANGED log /\ settled \subseteq settled'
  BY StepFrame
<1>2. ASSUME NEW v \in Worker, assigned'[v] PROVE Owner(v)'
  <2>1. v # w /\ assigned[v] /\ position'[v] = position[v]
    BY <1>2 DEF Leave, TypeInv, TypeOK
  <2>2. Owner(v)
    BY <2>1, OwnerInvBody DEF LossInv
  <2>3. /\ pc'[v] # "down"
        /\ \A u \in Peers(v) : ~assigned'[u]
        /\ position'[v] \in committed'[GroupOf[v]]..Len(log')
    BY <1>1, <2>1, <2>2, StepFrame DEF Owner, Leave, TypeInv, TypeOK, Peers
  <2>4. ASSUME NEW o \in 1..position'[v]
        PROVE  Settled(GroupOf[v], o)' \/ (Busy(v)' /\ o = cur'[v])
    <3>1. CASE Settled(GroupOf[v], o)
      BY <1>1, <3>1, SettledStays
    <3>2. CASE Busy(v) /\ o = cur[v]
      BY <2>1, <3>2, StepFrame DEF Busy
    <3> QED BY <2>1, <2>2, <3>1, <3>2 DEF Owner
  <2> QED BY <2>3, <2>4 DEF Owner, Peers
<1>3. NoSilentLoss'
  BY <1>1, SettledStays DEF LossInv, NoSilentLoss
<1> QED BY <1>2, <1>3, OwnerInvBody DEF OwnerInv, Owner

\* An owner that fetches a record has settled all the earlier ones.
LEMMA OwnerFetch ==
  ASSUME TypeInv, LossInv, NEW w \in Worker, Fetch(w)
  PROVE  OwnerInv' /\ NoSilentLoss'
<1> USE DEF brokerVars, history
<1>1. /\ UNCHANGED <<log, settled, assigned, committed>>
      /\ assigned[w] /\ ~Busy(w) /\ Busy(w)'
      /\ position'[w] = position[w] + 1
      /\ cur'[w] = position[w] + 1
      /\ position[w] + 1 \in 1..Len(log)
      /\ pc'[w] # "down"
  BY FetchedRecord DEF Fetch, CanFetch, Busy, Goto, TypeInv, TypeOK
<1>2. \A v \in Worker \ {w} : /\ pc'[v] = pc[v] /\ cur'[v] = cur[v]
                              /\ position'[v] = position[v]
  BY DEF Fetch, Goto, TypeInv, TypeOK
<1>3. Owner(w)
  BY <1>1, OwnerInvBody DEF LossInv
<1>4. Owner(w)'
  <2>1. \A o \in 1..position[w] : Settled(GroupOf[w], o)
    BY <1>1, <1>3 DEF Owner
  <2>2. \A o \in 1..position'[w] : Settled(GroupOf[w], o) \/ o = cur'[w]
    BY <1>1, <2>1 DEF TypeInv, TypeOK
  <2>3. position'[w] \in committed'[GroupOf[w]]..Len(log')
    BY <1>1, <1>3, ConsumerAssumption DEF Owner, TypeInv, TypeOK
  <2>4. \A v \in Peers(w) : ~assigned'[v]
    BY <1>1, <1>3 DEF Owner
  <2> QED BY <1>1, <2>2, <2>3, <2>4 DEF Owner, Settled, Peers
<1>5. ASSUME NEW v \in Worker \ {w}, assigned'[v] PROVE Owner(v)'
  <2>1. Owner(v)
    BY <1>1, <1>5, OwnerInvBody DEF LossInv
  <2> QED BY <1>1, <1>2, <2>1 DEF Owner, Settled, Peers, Busy
<1>6. NoSilentLoss'
  BY <1>1 DEF LossInv, NoSilentLoss, Settled
<1> QED BY <1>4, <1>5, <1>6, OwnerInvBody DEF OwnerInv, Owner

\* A new owner starts at the committed offset, below which all is settled, and
\* takes the place of every peer.
LEMMA OwnerAssign ==
  ASSUME TypeInv, LossInv, NEW w \in Worker, Assign(w)
  PROVE  OwnerInv' /\ NoSilentLoss'
<1> USE DEF brokerVars, history
<1>1. /\ UNCHANGED <<log, settled, committed, pc, cur>>
      /\ pc[w] # "down"
      /\ \A v \in Worker : assigned'[v] = (v = w \/ (assigned[v] /\ v \notin Peers(w)))
      /\ position'[w] = committed[GroupOf[w]]
      /\ \A v \in Worker \ {w} : v \notin Peers(w) => position'[v] = position[v]
  BY DEF Assign, Peers
<1>2. Owner(w)'
  <2>1. committed[GroupOf[w]] \in 0..Len(log)
    BY ConsumerAssumption DEF LossInv, CommittedInLog, TypeInv, TypeOK
  <2>2. position'[w] \in committed'[GroupOf[w]]..Len(log')
    BY <1>1, <2>1
  <2>3. \A o \in 1..position'[w] : Settled(GroupOf[w], o)
    BY <1>1, ConsumerAssumption DEF LossInv, NoSilentLoss
  <2>4. \A v \in Peers(w) : ~assigned'[v]
    BY <1>1 DEF Peers
  <2> QED BY <1>1, <2>2, <2>3, <2>4 DEF Owner, Settled, Peers
<1>3. ASSUME NEW v \in Worker \ {w}, assigned'[v] PROVE Owner(v)'
  <2>1. assigned[v] /\ v \notin Peers(w) /\ position'[v] = position[v]
    BY <1>1, <1>3
  <2>2. Owner(v)
    BY <2>1, OwnerInvBody DEF LossInv
  <2>3. \A u \in Peers(v) : ~assigned'[u]
    BY <1>1, <2>1, <2>2 DEF Owner, Peers
  <2> QED BY <1>1, <2>1, <2>2, <2>3 DEF Owner, Settled, Peers, Busy
<1>4. NoSilentLoss'
  BY <1>1 DEF LossInv, NoSilentLoss, Settled
<1> QED BY <1>2, <1>3, <1>4, OwnerInvBody DEF OwnerInv, Owner

\* An owner commits its position once the record in hand is settled.
LEMMA OwnerCommit ==
  ASSUME TypeInv, LossInv, NEW w \in Worker, Commit(w)
  PROVE  /\ OwnerInv' /\ NoSilentLoss'
         /\ committed[GroupOf[w]] <= position[w]
         /\ position[w] <= Len(log)
         /\ \A o \in 1..position[w] : Settled(GroupOf[w], o)
<1> DEFINE g == GroupOf[w]
<1>1. /\ UNCHANGED <<log, settled, assigned, position>>
      /\ assigned[w] /\ pc[w] = "commit" /\ pc'[w] = "idle"
      /\ committed' = [committed EXCEPT ![g] = position[w]]
      /\ \A v \in Worker \ {w} : pc'[v] = pc[v] /\ cur'[v] = cur[v]
  BY DEF Commit, Finish, Goto, TypeInv, TypeOK, history
<1>2. Owner(w)
  BY <1>1, OwnerInvBody DEF LossInv
<1>3. \A o \in 1..position[w] : Settled(g, o)
  BY <1>1, <1>2 DEF Owner, LossInv, SettledInv
<1>4. /\ g \in Group /\ committed \in [Group -> Nat]
      /\ committed[g] \in Nat /\ position[w] \in Nat
      /\ position[w] \in committed[g]..Len(log)
  BY <1>2, ConsumerAssumption DEF Owner, TypeInv, TypeOK
<1>5. Owner(w)'
  <2>1. position'[w] \in committed'[g]..Len(log')
    BY <1>1, <1>4
  <2>2. \A v \in Peers(w) : ~assigned'[v]
    BY <1>1, <1>2 DEF Owner
  <2> QED BY <1>1, <1>3, <2>1, <2>2 DEF Owner, Settled, Peers
<1>6. ASSUME NEW v \in Worker \ {w}, assigned'[v] PROVE Owner(v)'
  <2>1. Owner(v)
    BY <1>1, <1>6, OwnerInvBody DEF LossInv
  <2>2. GroupOf[v] # g
    BY <1>1, <1>2, <1>6 DEF Owner, Peers
  <2>3. committed'[GroupOf[v]] = committed[GroupOf[v]]
    BY <1>1, <1>4, <2>2, ConsumerAssumption
  <2> QED BY <1>1, <2>1, <2>3 DEF Owner, Settled, Peers, Busy
<1>7. NoSilentLoss'
  BY <1>1, <1>3, <1>4 DEF LossInv, NoSilentLoss, Settled
<1> QED
  BY <1>3, <1>4, <1>5, <1>6, <1>7, OwnerInvBody DEF OwnerInv, Owner

\* An owner has dealt with all records up to its position but the one in hand.
LEMMA StepOwnerInv ==
  ASSUME TypeInv, LossInv, NEW w \in Worker, Step(w)
  PROVE  OwnerInv' /\ NoSilentLoss'
<1> DEFINE Kept == UNCHANGED <<assigned, position, committed>>
           Down == \A o \in Nat : o = cur[w] => Settled(GroupOf[w], o)'
           Holds == Busy(w)' /\ cur'[w] = cur[w]
<1>local. ASSUME Kept, assigned[w] => pc'[w] # "down",
                 Busy(w) => Holds \/ Down
          PROVE  OwnerInv' /\ NoSilentLoss'
  BY <1>local, OwnerLocal
<1> HIDE DEF Kept, Down, Holds
<1>1. CASE Start(w)
  <2>1. ~assigned[w] /\ ~Busy(w)
    BY <1>1, OwnerInvBody DEF Start, Owner, LossInv, Busy
  <2> QED BY <1>1, <2>1, <1>local DEF Start, Kept, brokerVars
<1>2. CASE Assign(w)
  BY <1>2, OwnerAssign
<1>3. CASE Crash(w)
  BY <1>3, OwnerLeave DEF Crash, brokerVars
<1>4. CASE RequestShutdown(w)
  BY <1>4, <1>local DEF RequestShutdown, Kept, Holds, Busy, brokerVars
<1>5. CASE FetchStopping(w)
  BY <1>5, OwnerLeave DEF FetchStopping, brokerVars
<1>6. CASE Fetch(w)
  BY <1>6, OwnerFetch
<1>7. CASE FetchUndecodable(w)
  BY <1>7, OwnerLeave DEF FetchUndecodable, brokerVars
<1>8. CASE RejectGarbage(w)
  <2>1. Down
    BY <1>8, SettleSettles DEF RejectGarbage, SendToDlq, Down
  <2>2. pc'[w] # "down"
    BY <1>8 DEF RejectGarbage, Finish, Goto, TypeInv, TypeOK
  <2> QED BY <1>8, <2>1, <2>2, <1>local DEF RejectGarbage, Kept
<1>9. CASE CheckDuplicate(w)
  BY <1>9, <1>local DEF CheckDuplicate, Goto, TypeInv, TypeOK, Kept, Holds,
                        Busy, brokerVars
<1>10. CASE CheckNew(w)
  BY <1>10, <1>local DEF CheckNew, Goto, TypeInv, TypeOK, Kept, Holds, Busy,
                         brokerVars
<1>11. CASE CheckFails(w)
  BY <1>11, <1>local DEF CheckFails, Goto, TypeInv, TypeOK, Kept, Holds, Busy,
                         brokerVars
<1>12. CASE HandleSucceeds(w)
  BY <1>12, <1>local DEF HandleSucceeds, Goto, TypeInv, TypeOK, Kept, Holds,
                         Busy, brokerVars
<1>13. CASE HandleRaises(w)
  BY <1>13, <1>local DEF HandleRaises, Goto, TypeInv, TypeOK, Kept, Holds,
                         Busy, brokerVars
<1>14. CASE HandlerExhausted(w)
  BY <1>14, <1>local DEF HandlerExhausted, Goto, TypeInv, TypeOK, Kept, Holds,
                         Busy
<1>15. CASE MarkProcessed(w)
  BY <1>15, <1>local DEF MarkProcessed, Goto, TypeInv, TypeOK, Kept, Holds,
                         Busy, brokerVars
<1>16. CASE Commit(w)
  BY <1>16, OwnerCommit
<1>17. CASE CommitRevoked(w)
  <2>1. ~assigned[w] /\ Kept
    BY <1>17 DEF CommitRevoked, Kept, brokerVars
  <2>2. \A o \in Nat : o = cur[w] => Settled(GroupOf[w], o)
    BY <1>17 DEF CommitRevoked, LossInv, SettledInv
  <2>3. Down
    BY <2>2, StepFrame, SettledStays DEF Down
  <2> QED BY <2>1, <2>3, <1>local
<1>18. CASE CommitRaises(w)
  BY <1>18, OwnerLeave DEF CommitRaises, brokerVars
<1> QED
  BY <1>1, <1>2, <1>3, <1>4, <1>5, <1>6, <1>7, <1>8, <1>9, <1>10, <1>11, <1>12,
     <1>13, <1>14, <1>15, <1>16, <1>17, <1>18 DEF Step, Loop

\* A worker reaches mark or commit only with its record settled.
LEMMA StepSettledInv ==
  ASSUME TypeInv, LossInv, NEW w \in Worker, Step(w)
  PROVE  SettledInv'
<1> DEFINE Past(v) == pc[v] \in {"mark", "commit"}
<1>1. settled \subseteq settled'
  BY StepFrame
<1>2. \A v \in Worker : Past(v) => Settled(GroupOf[v], cur[v])
  BY DEF LossInv, SettledInv
<1>3. ASSUME NEW v \in Worker \ {w}, Past(v)'
      PROVE  Settled(GroupOf[v], cur[v])'
  <2>1. pc'[v] = pc[v] /\ cur'[v] = cur[v]
    BY StepFrame
  <2> QED BY <1>1, <1>2, <1>3, <2>1 DEF Settled
<1>4. ASSUME Past(w)' PROVE Settled(GroupOf[w], cur[w])'
  <2>1. CASE Past(w) /\ cur'[w] = cur[w]
    BY <1>1, <1>2, <2>1 DEF Settled
  <2>2. CASE CheckDuplicate(w) \/ HandleSucceeds(w) \/ HandlerExhausted(w)
    <3>1. \A o : o = cur[w] => Settled(GroupOf[w], o)'
      BY <2>2, SettleSettles DEF CheckDuplicate, HandleSucceeds,
         HandlerExhausted, SendToDlq
    <3>2. cur'[w] = cur[w]
      BY <2>2 DEF CheckDuplicate, HandleSucceeds, HandlerExhausted
    <3> QED BY <3>1, <3>2 DEF Settled
  <2>3. CASE ~(CheckDuplicate(w) \/ HandleSucceeds(w) \/ HandlerExhausted(w))
    <3>1. ~Fetch(w)
      BY <1>4 DEF Fetch, Goto, TypeInv, TypeOK
    <3>2. cur'[w] = cur[w]
      BY <1>4, <3>1, StepHolds DEF Busy
    <3>3. Past(w)
      BY <1>4, <2>3 DEF Step, Loop, Start, Assign, Crash, RequestShutdown,
         FetchStopping, Fetch, FetchUndecodable, RejectGarbage, CheckNew,
         CheckFails, HandleRaises, MarkProcessed, Commit, CommitRevoked,
         CommitRaises, Leave, Finish, Goto, TypeInv, TypeOK
    <3> QED BY <2>1, <3>2, <3>3
  <2> QED BY <2>2, <2>3
<1> QED BY <1>3, <1>4 DEF SettledInv

\* A commit is an offset the worker has reached.
LEMMA StepCommittedInLog ==
  ASSUME TypeInv, LossInv, NEW w \in Worker, Step(w)
  PROVE  CommittedInLog'
<1>1. UNCHANGED log
  BY StepFrame
<1>2. CASE Commit(w)
  <2>1. committed' = [committed EXCEPT ![GroupOf[w]] = position[w]]
    BY <1>2 DEF Commit
  <2>2. position[w] <= Len(log)
    BY <1>2, OwnerCommit
  <2> QED
    BY <1>1, <2>1, <2>2, ConsumerAssumption DEF LossInv, CommittedInLog, TypeInv, TypeOK
<1>3. CASE ~Commit(w)
  <2>1. UNCHANGED committed
    BY <1>3 DEF Step, Loop, Start, Assign, Crash, RequestShutdown,
         FetchStopping, Fetch, FetchUndecodable, RejectGarbage, CheckDuplicate,
         CheckNew, CheckFails, HandleSucceeds, HandleRaises, HandlerExhausted,
         MarkProcessed, CommitRevoked, CommitRaises, brokerVars
  <2> QED BY <1>1, <2>1 DEF LossInv, CommittedInLog
<1> QED BY <1>2, <1>3

\* The partition may grow, keys may expire: nobody's books change.
LEMMA OthersLossInv ==
  ASSUME TypeInv, TypeInv', LossInv,
         Environment \/ UNCHANGED vars \/ \E e \in Event : Expire(e)
  PROVE  LossInv'
<1>1. /\ UNCHANGED <<committed, pc, assigned, position, cur, settled>>
      /\ Len(log) \in Nat /\ Len(log') \in Nat /\ Len(log') >= Len(log)
  <2>1. CASE Environment
    BY <2>1, AppendKeeps DEF Environment, CreateEvent, AppendRecord, history,
       TypeInv, TypeOK
  <2>2. CASE UNCHANGED vars \/ \E e \in Event : Expire(e)
    BY <2>2 DEF vars, Expire, brokerVars, history, TypeInv, TypeOK
  <2> QED BY <2>1, <2>2
<1>2. RecordInv'
  BY DEF TypeInv
<1>3. CommittedInLog'
  BY <1>1 DEF LossInv, CommittedInLog, TypeInv, TypeOK
<1>4. OwnerInv'
  <2>1. ASSUME NEW w \in Worker, assigned'[w] PROVE Owner(w)'
    <3>1. Owner(w)
      BY <1>1, <2>1, OwnerInvBody DEF LossInv
    <3>2. position'[w] \in committed'[GroupOf[w]]..Len(log')
      BY <1>1, <3>1, ConsumerAssumption DEF Owner, TypeInv, TypeOK
    <3> QED BY <1>1, <3>1, <3>2 DEF Owner, Settled, Busy, Peers
  <2> QED BY <2>1 DEF OwnerInv, Owner
<1>5. SettledInv' /\ NoSilentLoss'
  BY <1>1 DEF LossInv, SettledInv, NoSilentLoss, Settled
<1> QED BY <1>2, <1>3, <1>4, <1>5 DEF LossInv

\* Nothing is committed when the consumers start.
LEMMA InitLossInv == Init => LossInv
BY InitTypeInv, ConsumerAssumption DEF Init, TypeInv, LossInv, RecordInv,
   CommittedInLog, OwnerInv, SettledInv, NoSilentLoss

\* LossInv is inductive, given the types.
LEMMA LossInvStep == TypeInv /\ LossInv /\ [Next]_vars => LossInv'
<1> SUFFICES ASSUME TypeInv, LossInv, [Next]_vars PROVE LossInv'
  OBVIOUS
<1>1. TypeInv'
  BY TypeInvStep
<1>2. ASSUME NEW w \in Worker, Step(w) PROVE LossInv'
  BY <1>1, <1>2, StepOwnerInv, StepSettledInv, StepCommittedInLog
     DEF LossInv, TypeInv
<1>3. CASE Environment \/ UNCHANGED vars \/ \E e \in Event : Expire(e)
  BY <1>1, <1>3, OthersLossInv
<1> QED BY <1>2, <1>3 DEF Next, Consumers, Step

\* The strengthened invariant holds in every reachable state.
THEOREM LossInvCorrect == Spec => []LossInv
<1>1. Init => LossInv
  BY InitLossInv
<1>2. TypeInv /\ LossInv /\ [Next]_vars => LossInv'
  BY LossInvStep
<1> QED BY <1>1, <1>2, TypeCorrect, PTL DEF Spec

\* No record below a group's committed offset was lost silently, whatever the
\* interleaving of crashes, revocations, signals and errors.
THEOREM NoLoss == Spec => []NoSilentLoss
<1>1. LossInv => NoSilentLoss
  BY DEF LossInv
<1> QED BY <1>1, LossInvCorrect, PTL
-----------------------------------------------------------------------------
\* The consumer implements LogDelivery.

\* What is settled here is dealt with in LogDelivery.
LEMMA DealtSettled ==
  \A g, o : Settled(g, o) => <<g, o>> \in Dealt
BY DEF Settled, Dealt

\* Settling the record in hand is the abstract Settle.
LEMMA SettleRefines ==
  ASSUME TypeInv, NEW w \in Worker, Busy(w), NEW fate,
         Settle(w, cur[w], fate), UNCHANGED <<log, committed>>
  PROVE  Delivery!Settle(GroupOf[w])
<1>1. cur[w] \in 1..Len(log)
  BY DEF TypeInv, RecordInv
<1>2. Dealt' = Dealt \cup {<<GroupOf[w], cur[w]>>}
  <2> DEFINE s == [group |-> GroupOf[w], off |-> cur[w], fate |-> fate]
  <2>1. settled' = settled \cup {s} /\ s.group = GroupOf[w] /\ s.off = cur[w]
    BY DEF Settle
  <2> QED BY <2>1, Zenon DEF Dealt
<1> QED BY <1>1, <1>2 DEF Delivery!Settle

\* A step of a worker settles, advances the frontier, or changes nothing of either.
LEMMA StepRefines ==
  ASSUME TypeInv, LossInv, NEW w \in Worker, Step(w)
  PROVE  [Delivery!Next]_(Delivery!vars)
<1> DEFINE Still == UNCHANGED <<log, settled, committed>>
           Move == \E fate : /\ Settle(w, cur[w], fate)
                             /\ UNCHANGED <<log, committed>>
<1>1. Still => UNCHANGED Delivery!vars
  BY DEF Delivery!vars, Dealt
<1>2. CASE Commit(w)
  <2>1. /\ UNCHANGED <<log, settled>>
        /\ committed' = [committed EXCEPT ![GroupOf[w]] = position[w]]
    BY <1>2 DEF Commit, history
  <2>2. /\ position[w] \in committed[GroupOf[w]]..Len(log)
        /\ \A o \in 1..position[w] : <<GroupOf[w], o>> \in Dealt
    <3>1. /\ committed[GroupOf[w]] <= position[w]
          /\ position[w] <= Len(log)
          /\ \A o \in 1..position[w] : Settled(GroupOf[w], o)
      BY <1>2, OwnerCommit
    <3> QED BY <3>1, DealtSettled, ConsumerAssumption DEF TypeInv, TypeOK
  <2>3. Delivery!Advance(GroupOf[w])
    BY <2>1, <2>2 DEF Delivery!Advance, Dealt
  <2> QED BY <2>3, ConsumerAssumption DEF Delivery!Next
<1>3. CASE RejectGarbage(w) \/ CheckDuplicate(w) \/ HandleSucceeds(w)
           \/ HandlerExhausted(w)
  <2>1. Move /\ Busy(w)
    BY <1>3 DEF RejectGarbage, CheckDuplicate, HandleSucceeds,
       HandlerExhausted, SendToDlq, Busy, brokerVars
  <2>2. Delivery!Settle(GroupOf[w])
    BY <2>1, SettleRefines
  <2> QED BY <2>2, ConsumerAssumption DEF Delivery!Next
<1>4. CASE ~(Commit(w) \/ RejectGarbage(w) \/ CheckDuplicate(w)
             \/ HandleSucceeds(w) \/ HandlerExhausted(w))
  <2>1. Still
    BY <1>4 DEF Step, Loop, Start, Assign, Crash, RequestShutdown,
       FetchStopping, Fetch, FetchUndecodable, CheckNew, CheckFails,
       HandleRaises, MarkProcessed, CommitRevoked, CommitRaises, brokerVars,
       history
  <2> QED BY <1>1, <2>1
<1> QED BY <1>2, <1>3, <1>4

\* The environment appends; the end of a key is a stutter.
LEMMA OthersRefine ==
  ASSUME TypeInv,
         Environment \/ UNCHANGED vars \/ \E e \in Event : Expire(e)
  PROVE  [Delivery!Next]_(Delivery!vars)
<1>1. CASE UNCHANGED <<log, settled, committed>>
  BY <1>1 DEF Delivery!vars, Dealt
<1>2. ASSUME NEW r \in Event \cup Malformed, AppendRecord(r)
      PROVE  Delivery!Append
  <2>1. Len(log') = Len(log) + 1
    BY <1>2, AppendKeeps DEF AppendRecord, TypeInv, TypeOK
  <2> QED BY <1>2, <2>1 DEF AppendRecord, Delivery!Append, Dealt, history
<1> QED
  BY <1>1, <1>2 DEF Environment, CreateEvent, Expire, vars, brokerVars, history,
     Delivery!Next

\* Every behaviour of the consumers is a behaviour of LogDelivery: records are
\* settled before the committed offset passes them, and it only moves forward.
THEOREM DeliveryRefinement == Spec => ImplementsDelivery
<1>1. Init => Delivery!Init
  BY DEF Init, Delivery!Init, Dealt
<1>2. TypeInv /\ LossInv /\ [Next]_vars => [Delivery!Next]_(Delivery!vars)
  BY StepRefines, OthersRefine DEF Next, Consumers, Step
<1> QED
  BY <1>1, <1>2, TypeCorrect, LossInvCorrect, PTL
     DEF Spec, ImplementsDelivery, Delivery!Spec
-----------------------------------------------------------------------------
\* Skips are duplicates: a mark, and a worker about to write one, stand for a
\* record that a group dealt with itself.
Worked(e) == \E h \in Group : \E p \in 1..Len(log) : log[p] = e /\ Processed(h, p)

SkipInv ==
  /\ \A s \in settled : s.off \in 1..Len(log)
  /\ \A e \in marked : Worked(e)
  /\ \A w \in Worker : pc[w] = "mark" => Processed(GroupOf[w], cur[w])
  /\ \A s \in settled : s.fate = "skipped" => Worked(log[s.off])

\* What was processed once stays so.
LEMMA ProcessedStays ==
  ASSUME settled \subseteq settled', NEW g, NEW o, Processed(g, o)
  PROVE  Processed(g, o)'
BY DEF Processed

\* The log is only appended to, so what was worked on once stays so.
LEMMA WorkedStays ==
  ASSUME settled \subseteq settled', Len(log) \in Nat, Len(log') \in Nat,
         Len(log) <= Len(log'), \A o \in 1..Len(log) : log'[o] = log[o],
         NEW e, Worked(e)
  PROVE  Worked(e)'
<1>1. PICK h \in Group, p \in 1..Len(log) : log[p] = e /\ Processed(h, p)
  BY DEF Worked
<1>2. p \in 1..Len(log') /\ log'[p] = e
  BY <1>1
<1> QED BY <1>1, <1>2, ProcessedStays DEF Worked

\* What a step of w adds to the history is about the record it holds, and a
\* skip is added only for a mark.
LEMMA StepSettles ==
  ASSUME TypeInv, NEW w \in Worker, Step(w)
  PROVE  \A s \in settled' \ settled :
           /\ s.group = GroupOf[w] /\ s.off = cur[w] /\ Busy(w)
           /\ s.fate = "skipped" => Record(w) \in marked
<1>1. CASE RejectGarbage(w) \/ HandlerExhausted(w)
  <2>1. Busy(w) /\ \E fate \in Fate \ {"skipped"} : Settle(w, cur[w], fate)
    BY <1>1 DEF RejectGarbage, HandlerExhausted, SendToDlq, Busy, Fate
  <2> QED BY <2>1 DEF Settle
<1>2. CASE CheckDuplicate(w) \/ HandleSucceeds(w)
  BY <1>2 DEF CheckDuplicate, HandleSucceeds, Settle, Busy
<1>3. CASE ~(RejectGarbage(w) \/ HandlerExhausted(w) \/ CheckDuplicate(w)
             \/ HandleSucceeds(w))
  BY <1>3 DEF Step, Loop, Start, Assign, Crash, RequestShutdown, FetchStopping,
     Fetch, FetchUndecodable, CheckNew, CheckFails, HandleRaises,
     MarkProcessed, Commit, CommitRevoked, CommitRaises, history
<1> QED BY <1>1, <1>2, <1>3

\* A step of w marks at most the event it holds, and only at "mark".
LEMMA StepMarks ==
  ASSUME TypeInv, NEW w \in Worker, Step(w)
  PROVE  /\ marked \subseteq marked'
         /\ \A e \in marked' \ marked : pc[w] = "mark" /\ e = Record(w)
<1>1. CASE MarkProcessed(w)
  BY <1>1 DEF MarkProcessed
<1>2. CASE ~MarkProcessed(w)
  BY <1>2 DEF Step, Loop, Start, Assign, Crash, RequestShutdown, FetchStopping,
     Fetch, FetchUndecodable, RejectGarbage, CheckDuplicate, CheckNew,
     CheckFails, HandleSucceeds, HandleRaises, HandlerExhausted, Commit,
     CommitRevoked, CommitRaises
<1> QED BY <1>1, <1>2

\* A worker reaches "mark" only with its record handled, dead-lettered or
\* dropped.
LEMMA StepToMark ==
  ASSUME TypeInv, NEW w \in Worker, Step(w), pc'[w] = "mark", pc[w] # "mark"
  PROVE  Processed(GroupOf[w], cur[w])' /\ cur'[w] = cur[w]
<1>1. HandleSucceeds(w) \/ HandlerExhausted(w)
  BY DEF Step, Loop, Start, Assign, Crash, RequestShutdown, FetchStopping,
     Fetch, FetchUndecodable, RejectGarbage, CheckDuplicate, CheckNew,
     CheckFails, HandleRaises, MarkProcessed, Commit, CommitRevoked,
     CommitRaises, Leave, Finish, Goto, TypeInv, TypeOK
<1>2. cur' = cur /\ \E fate \in Fate \ {"skipped"} : Settle(w, cur[w], fate)
  BY <1>1 DEF HandleSucceeds, HandlerExhausted, SendToDlq, Fate
<1>3. PICK fate \in Fate \ {"skipped"} : Settle(w, cur[w], fate)
  BY <1>2
<1> DEFINE s == [group |-> GroupOf[w], off |-> cur'[w], fate |-> fate]
<1>4. s \in settled' /\ s.group = GroupOf[w] /\ s.off = cur'[w] /\ s.fate # "skipped"
  BY <1>2, <1>3 DEF Settle
<1> QED BY <1>2, <1>4 DEF Processed

\* A step of a worker marks, and skips, only events that were worked on.
LEMMA StepSkipInv ==
  ASSUME TypeInv, SkipInv, NEW w \in Worker, Step(w)
  PROVE  SkipInv'
<1>1. UNCHANGED log /\ settled \subseteq settled' /\ Len(log) \in Nat
  BY StepFrame DEF TypeInv, TypeOK
<1>2. \A e : Worked(e) => Worked(e)'
  BY <1>1, WorkedStays
<1>3. Busy(w) => cur[w] \in 1..Len(log)
  BY DEF TypeInv, RecordInv
<1>4. ASSUME NEW s \in settled'
      PROVE  /\ s.off \in 1..Len(log')
             /\ s.fate = "skipped" => Worked(log[s.off])'
  <2>1. CASE s \in settled
    BY <1>1, <1>2, <2>1 DEF SkipInv
  <2>2. CASE s \notin settled
    BY <1>1, <1>2, <1>3, <2>2, StepSettles DEF SkipInv, Record
  <2> QED BY <2>1, <2>2
<1>5. ASSUME NEW e \in marked' PROVE Worked(e)'
  <2>1. CASE e \in marked
    BY <1>2, <2>1 DEF SkipInv
  <2>2. CASE e \notin marked
    <3>1. pc[w] = "mark" /\ e = Record(w)
      BY <2>2, StepMarks
    <3>2. cur[w] \in 1..Len(log) /\ Processed(GroupOf[w], cur[w])
      BY <1>3, <3>1 DEF SkipInv, Busy
    <3>3. Worked(e)
      BY <3>1, <3>2, ConsumerAssumption DEF Worked, Record
    <3> QED BY <1>2, <3>3
  <2> QED BY <2>1, <2>2
<1>6. ASSUME NEW v \in Worker, pc'[v] = "mark"
      PROVE  Processed(GroupOf[v], cur[v])'
  <2>1. CASE pc[v] = "mark" /\ cur'[v] = cur[v]
    BY <1>1, <2>1, ProcessedStays DEF SkipInv
  <2>2. CASE v = w /\ pc[w] # "mark"
    BY <1>6, <2>2, StepToMark
  <2>3. CASE v = w /\ pc[w] = "mark"
    <3>1. ~Fetch(w)
      BY <2>3 DEF Fetch, CanFetch
    <3> QED BY <1>6, <2>1, <2>3, <3>1, StepHolds DEF Busy
  <2>4. CASE v # w
    BY <1>6, <2>1, <2>4, StepFrame
  <2> QED BY <2>2, <2>3, <2>4
<1> QED BY <1>4, <1>5, <1>6 DEF SkipInv

\* The partition may grow, keys may expire.
LEMMA OthersSkipInv ==
  ASSUME TypeInv, SkipInv,
         Environment \/ UNCHANGED vars \/ \E e \in Event : Expire(e)
  PROVE  SkipInv'
<1>1. /\ UNCHANGED <<pc, cur, settled>> /\ marked' \subseteq marked
      /\ Len(log) \in Nat /\ Len(log') \in Nat /\ Len(log) <= Len(log')
      /\ \A o \in 1..Len(log) : log'[o] = log[o]
  <2>1. ASSUME NEW r \in Event \cup Malformed, AppendRecord(r)
        PROVE  /\ UNCHANGED <<pc, cur, settled, marked>>
               /\ Len(log') = Len(log) + 1
               /\ \A o \in 1..Len(log) : log'[o] = log[o]
    BY <2>1, AppendKeeps DEF AppendRecord, history, TypeInv, TypeOK
  <2>2. CASE UNCHANGED log
    BY <2>2 DEF Environment, CreateEvent, AppendRecord, vars, Expire,
       brokerVars, history, TypeInv, TypeOK
  <2>3. CASE UNCHANGED vars \/ \E e \in Event : Expire(e)
    BY <2>2, <2>3 DEF vars, Expire, brokerVars
  <2>4. CASE CreateEvent
    BY <2>2, <2>4 DEF CreateEvent
  <2> QED BY <2>1, <2>3, <2>4 DEF Environment, TypeInv, TypeOK
<1>2. \A e : Worked(e) => Worked(e)'
  BY <1>1, WorkedStays
<1>3. \A g, o : Processed(g, o) => Processed(g, o)'
  BY <1>1 DEF Processed
<1>4. ASSUME NEW s \in settled'
      PROVE  /\ s.off \in 1..Len(log')
             /\ s.fate = "skipped" => Worked(log[s.off])'
  <2>1. s \in settled /\ s.off \in 1..Len(log) /\ log'[s.off] = log[s.off]
    BY <1>1 DEF SkipInv
  <2> QED BY <1>1, <1>2, <2>1 DEF SkipInv
<1> QED BY <1>1, <1>2, <1>3, <1>4 DEF SkipInv

\* SkipInv is inductive, given the types.
LEMMA SkipInvStep == TypeInv /\ SkipInv /\ [Next]_vars => SkipInv'
BY StepSkipInv, OthersSkipInv DEF Next, Consumers, Step

\* A record is skipped only if a record with the same event was handled,
\* dead-lettered or reported as dropped: the mark never comes before the work.
THEOREM SkipsCorrect == Spec => []SkipsAreDuplicates
<1>1. Init => SkipInv
  BY DEF Init, SkipInv
<1>2. SkipInv => SkipsAreDuplicates
  BY DEF SkipInv, SkipsAreDuplicates, Worked
<1> QED BY <1>1, <1>2, SkipInvStep, TypeCorrect, PTL DEF Spec
-----------------------------------------------------------------------------
\* Duplicates need faults.  What group g may still do to event e for the faults
\* so far: a worker that lost the partition while it holds e handles it, and so
\* does the present or the next owner unless e is marked; an owner that holds
\* e past the check, or past the handler, decides which.
Working(w, e) == pc[w] \in {"check", "handle"} /\ Record(w) = e
Strays(g, e) == {w \in Worker : GroupOf[w] = g /\ ~assigned[w] /\ Working(w, e)}

OwnerAt(g, e, label) ==
  \E w \in Worker :
    GroupOf[w] = g /\ assigned[w] /\ pc[w] = label /\ Record(w) = e

Due(g, e) ==
  IF e \in marked THEN IF OwnerAt(g, e, "handle") THEN 1 ELSE 0
  ELSE IF OwnerAt(g, e, "mark") THEN 0 ELSE 1

Running == {w \in Worker : pc[w] # "down"}

DuplicateInv ==
  /\ IsFiniteSet(Running)
  /\ \A g \in Group : \A e \in Event :
       handled[g][e] + Cardinality(Strays(g, e)) + Due(g, e) <= 1 + faults

Stray(w, g, e) == GroupOf[w] = g /\ ~assigned[w] /\ Working(w, e)

\* The set of processes that run stays finite, and so does every part of it.
LEMMA RunningStep ==
  ASSUME TypeInv, IsFiniteSet(Running), [Next]_vars
  PROVE  IsFiniteSet(Running')
<1>1. ASSUME NEW w \in Worker, Step(w) PROVE IsFiniteSet(Running')
  <2>1. IsFiniteSet(Running \cup {w})
    BY FS_AddElement
  <2>2. Running' \subseteq Running \cup {w}
    BY <1>1, StepFrame DEF Running
  <2> QED BY <2>1, <2>2, FS_Subset
<1>2. CASE UNCHANGED pc
  BY <1>2 DEF Running
<1> QED
  BY <1>1, <1>2 DEF Next, Consumers, Step, Environment, CreateEvent,
     AppendRecord, Expire, vars

\* Counting the strays with and without w.
LEMMA StraysCount ==
  ASSUME IsFiniteSet(Running), NEW w \in Worker, NEW g, NEW e
  PROVE  /\ IsFiniteSet(Strays(g, e) \ {w})
         /\ Cardinality(Strays(g, e) \ {w}) \in Nat
         /\ Cardinality(Strays(g, e)) =
              Cardinality(Strays(g, e) \ {w}) + (IF Stray(w, g, e) THEN 1 ELSE 0)
<1>1. IsFiniteSet(Strays(g, e))
  <2>1. Strays(g, e) \subseteq Running
    BY DEF Strays, Running, Working
  <2> QED BY <2>1, FS_Subset
<1>2. w \in Strays(g, e) <=> Stray(w, g, e)
  BY DEF Strays, Stray
<1> QED BY <1>1, <1>2, CountWithout

\* There is one owner, so what it is at decides what is due.
LEMMA OwnerAtMine ==
  ASSUME LossInv, NEW w \in Worker, assigned[w], NEW e, NEW label
  PROVE  OwnerAt(GroupOf[w], e, label) <=> pc[w] = label /\ Record(w) = e
<1>1. \A v \in Worker : GroupOf[v] = GroupOf[w] /\ assigned[v] => v = w
  BY DEF LossInv, OwnerInv, Peers
<1> QED BY <1>1 DEF OwnerAt

\* A group has one owner, so one record is not in two hands of owners.
LEMMA OneOwner ==
  ASSUME LossInv, NEW g, NEW e
  PROVE  ~(OwnerAt(g, e, "handle") /\ OwnerAt(g, e, "mark"))
BY DEF LossInv, OwnerInv, Peers, OwnerAt

\* What w itself contributes to the books of its group about e.
Share(w, e) ==
  IF ~assigned[w] THEN IF Working(w, e) THEN 1 ELSE 0
  ELSE IF e \in marked
       THEN IF pc[w] = "handle" /\ Record(w) = e THEN 1 ELSE 0
       ELSE IF pc[w] = "mark" /\ Record(w) = e THEN 0 ELSE 1

\* A step of w that is no assignment leaves the other workers, the books of the
\* other groups and every mark alone.
LEMMA StepOthers ==
  ASSUME TypeInv, NEW w \in Worker, Step(w), ~Assign(w)
  PROVE  /\ \A v \in Worker \ {w} : assigned'[v] = assigned[v]
         /\ \A g \in Group \ {GroupOf[w]} : handled'[g] = handled[g]
         /\ faults \in Nat /\ faults' \in Nat /\ faults <= faults'
         /\ assigned[w] \in BOOLEAN /\ assigned'[w] \in BOOLEAN
<1> USE DEF TypeInv, TypeOK, Fault, Leave, Finish, SendToDlq, history
<1>1. CASE Leave(w)
  BY <1>1 DEF Crash, FetchStopping, FetchUndecodable, CommitRaises, Step, Loop,
     Start, Fetch, RequestShutdown, RejectGarbage, CheckDuplicate, CheckNew,
     CheckFails, HandleSucceeds, HandleRaises, HandlerExhausted, MarkProcessed,
     Commit, CommitRevoked
<1>2. CASE HandleSucceeds(w)
  BY <1>2 DEF HandleSucceeds
<1>3. CASE Start(w) BY <1>3 DEF Start
<1>4. CASE RequestShutdown(w) BY <1>4 DEF RequestShutdown
<1>5. CASE Fetch(w) BY <1>5 DEF Fetch
<1>6. CASE RejectGarbage(w) BY <1>6 DEF RejectGarbage
<1>7. CASE CheckDuplicate(w) BY <1>7 DEF CheckDuplicate
<1>8. CASE CheckNew(w) BY <1>8 DEF CheckNew
<1>9. CASE CheckFails(w) BY <1>9 DEF CheckFails
<1>10. CASE HandleRaises(w) BY <1>10 DEF HandleRaises
<1>11. CASE HandlerExhausted(w) BY <1>11 DEF HandlerExhausted
<1>12. CASE MarkProcessed(w) BY <1>12 DEF MarkProcessed
<1>13. CASE Commit(w) BY <1>13 DEF Commit
<1>14. CASE CommitRevoked(w) BY <1>14 DEF CommitRevoked
<1> QED
  BY <1>1, <1>2, <1>3, <1>4, <1>5, <1>6, <1>7, <1>8, <1>9, <1>10, <1>11, <1>12,
     <1>13, <1>14 DEF Step, Loop, Crash, FetchStopping, FetchUndecodable,
     CommitRaises

\* A step of w that keeps its membership pays for what it adds to the books.
LEMMA StepPays ==
  ASSUME TypeInv, NEW w \in Worker, Step(w), ~Assign(w), ~Leave(w),
         NEW e \in Event
  PROVE  /\ assigned'[w] = assigned[w]
         /\ handled'[GroupOf[w]][e] + Share(w, e)' - faults'
              <= handled[GroupOf[w]][e] + Share(w, e) - faults
<1> DEFINE g == GroupOf[w]
<1>0. /\ handled \in [Group -> [Event -> Nat]] /\ g \in Group
      /\ faults \in Nat /\ pc \in [Worker -> Label]
  BY ConsumerAssumption DEF TypeInv, TypeOK
<1> USE <1>0 DEF Fault, Finish, Goto, Share, Working, Record, history,
        brokerVars, Label
<1>1. CASE HandleSucceeds(w)
  <2>1. Record(w) \in Event
    BY <1>1, HeldRecord DEF HandleSucceeds, Busy, Parsed
  <2>2. handled'[g][e] = IF Record(w) = e THEN handled[g][e] + 1
                                          ELSE handled[g][e]
    BY <1>1, <2>1 DEF HandleSucceeds
  <2> QED BY <1>1, <2>2 DEF HandleSucceeds
<1>2. CASE Start(w) BY <1>2 DEF Start
<1>3. CASE RequestShutdown(w) BY <1>3 DEF RequestShutdown
<1>4. CASE Fetch(w) BY <1>4 DEF Fetch, CanFetch, TypeInv, TypeOK
<1>5. CASE RejectGarbage(w) BY <1>5 DEF RejectGarbage, SendToDlq
<1>6. CASE CheckDuplicate(w) BY <1>6 DEF CheckDuplicate
<1>7. CASE CheckNew(w) BY <1>7 DEF CheckNew
<1>8. CASE CheckFails(w) BY <1>8 DEF CheckFails
<1>9. CASE HandleRaises(w) BY <1>9 DEF HandleRaises
<1>10. CASE HandlerExhausted(w) BY <1>10 DEF HandlerExhausted, SendToDlq
<1>11. CASE MarkProcessed(w) BY <1>11 DEF MarkProcessed
<1>12. CASE Commit(w) \/ CommitRevoked(w)
  <2>1. /\ pc[w] = "commit" /\ pc'[w] = "idle"
        /\ UNCHANGED <<assigned, marked, handled, faults>>
    BY <1>12 DEF Commit, CommitRevoked
  <2> HIDE DEF Record
  <2> QED BY <2>1
<1> QED
  BY <1>1, <1>2, <1>3, <1>4, <1>5, <1>6, <1>7, <1>8, <1>9, <1>10, <1>11, <1>12
     DEF Step, Loop, Crash, FetchStopping, FetchUndecodable, CommitRaises

\* A worker that leaves pays a fault, or had nothing in hand.
LEMMA LeavePays ==
  ASSUME TypeInv, NEW w \in Worker, Step(w), ~Assign(w), Leave(w),
         NEW e \in Event
  PROVE  /\ pc'[w] = "down" /\ ~assigned'[w]
         /\ handled'[GroupOf[w]][e] = handled[GroupOf[w]][e]
         /\ marked' = marked
         /\ assigned[w] => faults' = faults + 1 \/ pc[w] = "idle"
<1> USE DEF Leave, Goto, TypeInv, TypeOK, history, brokerVars, Label
<1>1. pc'[w] = "down" /\ ~assigned'[w]
  OBVIOUS
<1>2. CASE pc[w] # "down"
  <2>1. Crash(w) \/ FetchStopping(w) \/ FetchUndecodable(w) \/ CommitRaises(w)
    BY <1>1, <1>2 DEF Step, Loop, Start, RequestShutdown, Fetch, RejectGarbage,
       CheckDuplicate, CheckNew, CheckFails, HandleSucceeds, HandleRaises,
       HandlerExhausted, MarkProcessed, Commit, CommitRevoked, Finish
  <2> QED BY <1>1, <2>1 DEF Crash, FetchStopping, FetchUndecodable,
             CommitRaises, CanFetch, Fault
<1>3. CASE pc[w] = "down"
  BY <1>1, <1>3 DEF Step, Loop, Start, Crash, FetchStopping, FetchUndecodable,
     CommitRaises, RequestShutdown, Fetch, RejectGarbage, CanFetch,
     CheckDuplicate, CheckNew, CheckFails, HandleSucceeds, HandleRaises,
     HandlerExhausted, MarkProcessed, Commit, CommitRevoked
<1> QED BY <1>2, <1>3

\* Any step of a worker but an assignment keeps the books.
LEMMA StepDuplicateInv ==
  ASSUME TypeInv, LossInv, LossInv', DuplicateInv, IsFiniteSet(Running'),
         NEW w \in Worker, Step(w), ~Assign(w),
         NEW g \in Group, NEW e \in Event
  PROVE  handled'[g][e] + Cardinality(Strays(g, e)') + Due(g, e)' <= 1 + faults'
<1> DEFINE rest == Strays(g, e) \ {w}
           stray == IF Stray(w, g, e) THEN 1 ELSE 0
           n == Cardinality(rest)
<1>1. /\ handled[g][e] \in Nat /\ handled'[g][e] \in Nat
      /\ faults \in Nat /\ faults' \in Nat /\ faults <= faults'
  <2>1. TypeOK'
    BY StepTypeOK
  <2> QED BY <2>1, StepOthers DEF TypeInv, TypeOK
<1>2. handled[g][e] + Cardinality(Strays(g, e)) + Due(g, e) <= 1 + faults
  BY DEF DuplicateInv
<1>3. /\ n \in Nat
      /\ Cardinality(Strays(g, e)) = n + stray
      /\ Cardinality(Strays(g, e)') = n + stray'
  <2>1. Strays(g, e)' \ {w} = rest
    BY StepFrame, StepOthers DEF Strays, Working, Record
  <2>2. n \in Nat /\ Cardinality(Strays(g, e)) = n + stray
    BY StraysCount DEF DuplicateInv
  <2>3. Cardinality(Strays(g, e)') = Cardinality(Strays(g, e)' \ {w}) + stray'
    <3>1. Strays(g, e)' \subseteq Running'
      BY DEF Strays, Running, Working
    <3>2. IsFiniteSet(Strays(g, e)')
      BY <3>1, FS_Subset
    <3>3. w \in Strays(g, e)' <=> Stray(w, g, e)'
      BY DEF Strays, Stray
    <3> QED BY <3>2, <3>3, CountWithout
  <2> QED BY <2>1, <2>2, <2>3
<1>4. marked \subseteq marked'
  BY StepMarks
<1>5. ASSUME g # GroupOf[w] \/ (~assigned[w] /\ ~assigned'[w])
      PROVE  /\ Due(g, e)' <= Due(g, e)
             /\ Due(g, e) \in Nat /\ Due(g, e)' \in Nat
  <2>1. \A label : OwnerAt(g, e, label)' <=> OwnerAt(g, e, label)
    BY <1>5, StepFrame, StepOthers DEF OwnerAt, Record
  <2> QED BY <1>4, <2>1, OneOwner DEF Due
<1> HIDE DEF rest, n
<1>6. CASE g # GroupOf[w]
  <2>1. handled'[g] = handled[g] /\ stray = 0 /\ stray' = 0
    BY <1>6, StepOthers DEF Stray
  <2> QED BY <1>1, <1>2, <1>3, <1>5, <1>6, <2>1
<1>7. CASE g = GroupOf[w] /\ ~Leave(w)
  <2>1. /\ assigned'[w] = assigned[w]
        /\ handled'[g][e] + Share(w, e)' - faults'
             <= handled[g][e] + Share(w, e) - faults
    BY <1>7, StepPays
  <2>2. CASE assigned[w]
    <3>1. stray = 0 /\ stray' = 0
      BY <2>1, <2>2 DEF Stray
    <3>2. Due(g, e) = Share(w, e)
      BY <1>7, <2>2, OwnerAtMine DEF Due, Share
    <3>3. Due(g, e)' = Share(w, e)'
      <4>1. assigned'[w] /\ \A v \in Worker : GroupOf[v] = g /\ assigned'[v] => v = w
        BY <1>7, <2>1, <2>2 DEF LossInv, OwnerInv, Peers
      <4>2. \A label : OwnerAt(g, e, label)' <=> pc'[w] = label /\ Record(w)' = e
        BY <1>7, <4>1 DEF OwnerAt
      <4> QED BY <4>1, <4>2 DEF Due, Share
    <3>4. Share(w, e) \in Int /\ Share(w, e)' \in Int
      BY DEF Share
    <3> HIDE DEF stray
    <3> QED BY <1>1, <1>2, <1>3, <2>1, <3>1, <3>2, <3>3, <3>4
  <2>3. CASE ~assigned[w]
    <3>1. stray = Share(w, e) /\ stray' = Share(w, e)'
      BY <1>7, <2>1, <2>3 DEF Stray, Share
    <3>2. Share(w, e) \in Int /\ Share(w, e)' \in Int
      BY DEF Share
    <3> HIDE DEF stray
    <3> QED BY <1>1, <1>2, <1>3, <1>5, <2>1, <2>3, <3>1, <3>2
  <2> QED BY <2>2, <2>3
<1>8. CASE g = GroupOf[w] /\ Leave(w)
  <2>1. /\ pc'[w] = "down" /\ ~assigned'[w]
        /\ handled'[g][e] = handled[g][e]
        /\ marked' = marked
        /\ assigned[w] => faults' = faults + 1 \/ pc[w] = "idle"
    BY <1>8, LeavePays
  <2>2. stray' = 0 /\ stray \in Nat
    BY <2>1 DEF Stray, Working
  <2>3. CASE assigned[w]
    <3>1. ~OwnerAt(g, e, "handle")' /\ ~OwnerAt(g, e, "mark")'
      <4>1. \A v \in Worker \ {w} : GroupOf[v] = g => ~assigned'[v]
        BY <1>8, <2>3, StepOthers DEF LossInv, OwnerInv, Peers
      <4> QED BY <2>1, <4>1 DEF OwnerAt
    <3>2. Due(g, e)' = IF e \in marked THEN 0 ELSE 1
      BY <2>1, <3>1 DEF Due
    <3>3. Due(g, e) \in {0, 1}
      BY DEF Due
    <3>4. pc[w] = "idle" => Due(g, e) = IF e \in marked THEN 0 ELSE 1
      <4>1. \A label : OwnerAt(g, e, label) => pc[w] = label
        BY <1>8, <2>3, OwnerAtMine
      <4> QED BY <4>1 DEF Due
    <3> HIDE DEF stray
    <3> QED BY <1>1, <1>2, <1>3, <2>1, <2>2, <2>3, <3>2, <3>3, <3>4
  <2>4. CASE ~assigned[w]
    <3> HIDE DEF stray
    <3> QED BY <1>1, <1>2, <1>3, <1>5, <2>1, <2>2, <2>4
  <2> QED BY <2>3, <2>4
<1> QED BY <1>6, <1>7, <1>8

\* A revocation is a fault, and makes at most one stray: the old owner.
LEMMA AssignDuplicateInv ==
  ASSUME TypeInv, LossInv, LossInv', DuplicateInv, IsFiniteSet(Running'),
         NEW w \in Worker, Assign(w),
         NEW g \in Group, NEW e \in Event
  PROVE  handled'[g][e] + Cardinality(Strays(g, e)') + Due(g, e)' <= 1 + faults'
<1> DEFINE taken == \E v \in Peers(w) : assigned[v]
<1>1. /\ UNCHANGED <<log, marked, pc, cur, handled>> /\ ~assigned[w]
      /\ \A v \in Worker :
           assigned'[v] = (v = w \/ (assigned[v] /\ v \notin Peers(w)))
      /\ faults' = IF taken THEN faults + 1 ELSE faults
      /\ faults \in Nat /\ handled[g][e] \in Nat
  BY DEF Assign, Fault, Peers, brokerVars, history, TypeInv, TypeOK
<1>2. handled[g][e] + Cardinality(Strays(g, e)) + Due(g, e) <= 1 + faults
  BY DEF DuplicateInv
<1>3. CASE g # GroupOf[w]
  <2>1. \A v \in Worker : GroupOf[v] = g => assigned'[v] = assigned[v]
    BY <1>1, <1>3 DEF Peers, TypeInv, TypeOK
  <2>2. Strays(g, e)' = Strays(g, e)
    BY <1>1, <2>1 DEF Strays, Working, Record
  <2>3. \A label : OwnerAt(g, e, label)' <=> OwnerAt(g, e, label)
    BY <1>1, <2>1 DEF OwnerAt, Record
  <2>4. Due(g, e)' = Due(g, e) /\ Due(g, e) \in Int
    BY <1>1, <2>3 DEF Due
  <2>5. Cardinality(Strays(g, e)) \in Int
    <3>1. Strays(g, e) \subseteq Running
      BY DEF Strays, Running, Working
    <3> QED BY <3>1, FS_Subset, FS_CardinalityType DEF DuplicateInv
  <2> QED BY <1>1, <1>2, <2>2, <2>4, <2>5
<1>4. CASE g = GroupOf[w]
  <2> DEFINE rest == Strays(g, e) \ {w}
             n == Cardinality(rest)
             mine == IF Working(w, e) THEN 1 ELSE 0
  <2>1. n \in Nat /\ IsFiniteSet(rest) /\ Cardinality(Strays(g, e)) = n + mine
    BY <1>1, <1>4, StraysCount DEF DuplicateInv, Stray
  <2>2. /\ Due(g, e)' \in {0, 1}
        /\ e \in marked /\ Due(g, e)' = 1 => mine = 1
    <3>1. \A v \in Worker : GroupOf[v] = g /\ assigned'[v] => v = w
      BY <1>1, <1>4 DEF Peers
    <3>2. OwnerAt(g, e, "handle")' => Working(w, e)
      BY <1>1, <3>1 DEF OwnerAt, Working, Record
    <3> QED BY <1>1, <3>2 DEF Due
  <2>3. CASE ~taken
    <3>1. Strays(g, e)' = rest
      BY <1>1, <1>4, <2>3 DEF Strays, Working, Record, Peers
    <3>2. \A label : ~OwnerAt(g, e, label)
      BY <1>1, <1>4, <2>3 DEF OwnerAt, Peers
    <3>3. Due(g, e) = IF e \in marked THEN 0 ELSE 1
      BY <3>2 DEF Due
    <3> HIDE DEF rest, n
    <3> QED BY <1>1, <1>2, <2>1, <2>2, <2>3, <3>1, <3>3 DEF n
  <2>4. ASSUME NEW u \in Peers(w), assigned[u]
        PROVE  handled'[g][e] + Cardinality(Strays(g, e)') + Due(g, e)'
                 <= 1 + faults'
    <3> DEFINE his == IF Working(u, e) THEN 1 ELSE 0
    <3>1. \A v \in Worker : GroupOf[v] = g /\ assigned[v] => v = u
      BY <1>4, <2>4 DEF LossInv, OwnerInv, Peers
    <3>2. Strays(g, e)' = IF Working(u, e) THEN rest \cup {u} ELSE rest
      BY <1>1, <1>4, <2>4, <3>1 DEF Strays, Working, Record, Peers
    <3>3. u \notin rest
      BY <2>4 DEF Strays, Peers
    <3> HIDE DEF rest
    <3>4. Cardinality(Strays(g, e)') = n + his
      <4>1. Cardinality(rest \cup {u}) = n + 1
        BY <2>1, <3>3, FS_AddElement
      <4> QED BY <2>1, <3>2, <4>1
    <3>5. /\ Due(g, e) \in {0, 1}
          /\ Working(u, e) /\ e \notin marked => Due(g, e) = 1
      <4>1. GroupOf[u] = g /\ u \in Worker
        BY <1>4, <2>4 DEF Peers
      <4>2. OwnerAt(g, e, "mark") => pc[u] = "mark"
        BY <2>4, <4>1, OwnerAtMine
      <4> QED BY <4>2 DEF Due, Working
    <3>6. faults' = faults + 1
      BY <1>1, <2>4
    <3> HIDE DEF n
    <3> QED BY <1>1, <1>2, <2>1, <2>2, <3>4, <3>5, <3>6
  <2> QED BY <2>3, <2>4
<1> QED BY <1>3, <1>4

\* The partition grows: a worker still holds the record it held.
LEMMA EnvironmentDuplicateInv ==
  ASSUME TypeInv, DuplicateInv, Environment \/ UNCHANGED vars
  PROVE  DuplicateInv'
<1>1. /\ UNCHANGED <<marked, pc, cur, assigned, handled, faults>>
      /\ \A o \in 1..Len(log) : log'[o] = log[o]
  <2>1. ASSUME NEW r \in Event \cup Malformed, AppendRecord(r)
        PROVE  \A o \in 1..Len(log) : log'[o] = log[o]
    BY <2>1, AppendKeeps DEF AppendRecord, TypeInv, TypeOK
  <2> QED BY <2>1 DEF Environment, CreateEvent, AppendRecord, vars, brokerVars,
             history
<1>2. \A w \in Worker : Busy(w) => Record(w)' = Record(w)
  BY <1>1 DEF TypeInv, RecordInv, Record
<1>3. \A g, e : Strays(g, e)' = Strays(g, e)
  BY <1>1, <1>2 DEF Strays, Working, Busy
<1>4. \A g, e : \A label \in {"handle", "mark"} :
        OwnerAt(g, e, label)' <=> OwnerAt(g, e, label)
  BY <1>1, <1>2 DEF OwnerAt, Busy
<1>5. \A g, e : Due(g, e)' = Due(g, e)
  BY <1>1, <1>4 DEF Due
<1>6. Running' = Running
  BY <1>1 DEF Running
<1> QED BY <1>1, <1>3, <1>5, <1>6 DEF DuplicateInv

\* A key that expires costs a fault, and makes the owner's share due again.
LEMMA ExpireDuplicateInv ==
  ASSUME TypeInv, DuplicateInv, NEW k \in Event, Expire(k)
  PROVE  DuplicateInv'
<1>1. /\ UNCHANGED <<log, pc, cur, assigned, handled>> /\ faults' = faults + 1
      /\ faults \in Nat
  BY DEF Expire, Fault, brokerVars, history, TypeInv, TypeOK
<1>2. \A g, e : Strays(g, e)' = Strays(g, e)
  BY <1>1 DEF Strays, Working, Record
<1>3. Running' = Running
  BY <1>1 DEF Running
<1>4. ASSUME NEW g \in Group, NEW e \in Event
      PROVE  handled'[g][e] + Cardinality(Strays(g, e)') + Due(g, e)' <= 1 + faults'
  <2>1. Due(g, e) \in {0, 1} /\ Due(g, e)' \in {0, 1}
    BY DEF Due
  <2>2. handled[g][e] + Cardinality(Strays(g, e)) + Due(g, e) <= 1 + faults
    BY DEF DuplicateInv
  <2>3. handled[g][e] \in Nat
    BY DEF TypeInv, TypeOK
  <2>4. Cardinality(Strays(g, e)) \in Nat
    <3>1. Strays(g, e) \subseteq Running
      BY DEF Strays, Running, Working
    <3> QED BY <3>1, FS_Subset, FS_CardinalityType DEF DuplicateInv
  <2> QED BY <1>1, <1>2, <2>1, <2>2, <2>3, <2>4
<1> QED BY <1>3, <1>4 DEF DuplicateInv

\* DuplicateInv is inductive, given the types and LossInv.
LEMMA DuplicateInvStep ==
  TypeInv /\ LossInv /\ DuplicateInv /\ [Next]_vars => DuplicateInv'
<1> SUFFICES ASSUME TypeInv, LossInv, DuplicateInv, [Next]_vars
             PROVE  DuplicateInv'
  OBVIOUS
<1>1. LossInv'
  BY LossInvStep
<1>2. IsFiniteSet(Running')
  BY RunningStep DEF DuplicateInv
<1>3. ASSUME NEW w \in Worker, Step(w) PROVE DuplicateInv'
  BY <1>1, <1>2, <1>3, StepDuplicateInv, AssignDuplicateInv DEF DuplicateInv
<1> QED
  BY <1>3, EnvironmentDuplicateInv, ExpireDuplicateInv DEF Next, Consumers, Step

\* Nothing was handled and no worker runs when the consumers start.
LEMMA InitDuplicateInv == Init => DuplicateInv
<1> SUFFICES ASSUME Init PROVE DuplicateInv
  OBVIOUS
<1>1. Running = {} /\ \A g, e : Strays(g, e) = {}
  BY DEF Init, Running, Strays, Working
<1>2. \A g, e : Due(g, e) = 1
  BY DEF Init, Due, OwnerAt
<1>3. IsFiniteSet(Running) /\ \A g, e : Cardinality(Strays(g, e)) = 0
  BY <1>1, FS_EmptySet
<1>4. \A g \in Group : \A e \in Event : handled[g][e] = 0
  BY DEF Init
<1>5. faults = 0
  BY DEF Init
<1> QED BY <1>2, <1>3, <1>4, <1>5 DEF DuplicateInv

\* However often an event is appended, a group handles it once, plus at most
\* once for every fault.
THEOREM DuplicatesCorrect == Spec => []DuplicatesNeedFaults
<1>1. TypeInv /\ DuplicateInv => DuplicatesNeedFaults
  <2> SUFFICES ASSUME TypeInv, DuplicateInv, NEW g \in Group, NEW e \in Event
               PROVE  handled[g][e] <= 1 + faults
    BY DEF DuplicatesNeedFaults
  <2>1. handled[g][e] + Cardinality(Strays(g, e)) + Due(g, e) <= 1 + faults
    BY DEF DuplicateInv
  <2>2. Strays(g, e) \subseteq Running
    BY DEF Strays, Running, Working
  <2>3. Cardinality(Strays(g, e)) \in Nat
    BY <2>2, FS_Subset, FS_CardinalityType DEF DuplicateInv
  <2>4. Due(g, e) \in {0, 1} /\ handled[g][e] \in Nat /\ faults \in Nat
    BY DEF Due, TypeInv, TypeOK
  <2> QED BY <2>1, <2>3, <2>4
<1> QED
  BY <1>1, InitDuplicateInv, DuplicateInvStep, TypeCorrect, LossInvCorrect, PTL
     DEF Spec
=============================================================================
