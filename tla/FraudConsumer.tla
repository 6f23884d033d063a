--------------------------- MODULE FraudConsumer ---------------------------
(***************************************************************************)
(* FraudKafkaConsumer of shared/fraud_common/kafka_utils.py: the consume   *)
(* loop, the Redis idempotency check, the handler with retries, the dead   *)
(* letter queue and the manual offset commit, for the workers of one or    *)
(* more consumer groups reading one partition.                             *)
(*                                                                         *)
(* An await of the code is a point where another worker, the broker, a     *)
(* signal or a crash may intervene, so the code between two awaits is one  *)
(* action.  pc[w] names the await the worker's coroutine is suspended at:  *)
(*   idle     the broker's next record (async for)                         *)
(*   reject   send_to_dlq of a record that could not be parsed             *)
(*   check    EXISTS of _is_duplicate                                      *)
(*   handle   the handler call of _handle_with_retry                       *)
(*   exhaust  send_to_dlq after the last attempt                           *)
(*   mark     SET of _mark_processed                                       *)
(*   commit   the offset commit                                            *)
(*   down     the process is not running, or the loop was left             *)
(* Redis is configured and auto_commit is False (the default).             *)
(***************************************************************************)
EXTENDS Integers, Sequences

CONSTANTS Worker,      \* consumer processes
          Group,       \* consumer groups (group_id)
          GroupOf,     \* GroupOf[w]: the group worker w belongs to
          Malformed,   \* the kinds of malformed record producers may write
          MaxRetries,  \* max_retries of the consumer
          MaxLog,      \* bound on the records in the partition
          MaxEvents,   \* bound on the event ids ever generated
          MaxFaults    \* bound on crashes, signals, revocations and errors

\* A record is the event id of its envelope, or one of two codes for malformed
\* bytes: Garbage makes from_json raise JSONDecodeError, TypeError or KeyError,
\* which the consumer catches; Undecodable makes it raise UnicodeDecodeError,
\* which the consumer does not catch.
Event == 1..MaxEvents
Garbage == 0
Undecodable == -1

ASSUME ConsumerAssumption ==
  /\ Malformed \subseteq {Garbage, Undecodable}
  /\ GroupOf \in [Worker -> Group]
  /\ MaxRetries \in Nat \ {0}
  /\ MaxLog \in Nat
  /\ MaxEvents \in Nat
  /\ MaxFaults \in Nat

VARIABLES
  log,        \* the partition: a sequence of records
  nextId,     \* the next event id uuid4 will hand out
  dlq,        \* event ids in the dead letter topic
  committed,  \* committed[g]: offset committed by group g
  marked,     \* event ids with a live fraud:dedup key in Redis
  pc,         \* where each worker's coroutine is suspended
  assigned,   \* assigned[w]: w owns the partition for its group
  position,   \* position[w]: offset of the last record fetched
  cur,        \* cur[w]: offset of the record being processed, 0 if none
  attempt,    \* attempt[w]: attempt of _handle_with_retry
  stopping,   \* stopping[w]: the negation of _running
  faults,     \* faults so far
  settled,    \* history: what was done about each record, by group
  handled     \* history: successful handler calls by group and event

brokerVars == <<log, nextId, dlq, committed>>
history == <<settled, handled>>
vars == <<brokerVars, marked, pc, assigned, position, cur, attempt, stopping,
          faults, history>>

Fate == {"handled", "skipped", "dlq", "dropped"}
Label == {"idle", "reject", "check", "handle", "exhaust", "mark", "commit",
          "down"}

TypeOK ==
  /\ log \in Seq(Event \cup Malformed)
  /\ nextId \in 1..(MaxEvents + 1)
  /\ dlq \in Seq(Event)
  /\ committed \in [Group -> Nat]
  /\ marked \in SUBSET Event
  /\ pc \in [Worker -> Label]
  /\ assigned \in [Worker -> BOOLEAN]
  /\ position \in [Worker -> Nat]
  /\ cur \in [Worker -> Nat]
  /\ attempt \in [Worker -> 1..MaxRetries]
  /\ stopping \in [Worker -> BOOLEAN]
  /\ faults \in 0..MaxFaults
  /\ settled \in SUBSET [group : Group, off : Nat, fate : Fate]
  /\ handled \in [Group -> [Event -> Nat]]

Init ==
  /\ log = <<>>
  /\ nextId = 1
  /\ dlq = <<>>
  /\ committed = [g \in Group |-> 0]
  /\ marked = {}
  /\ pc = [w \in Worker |-> "down"]
  /\ assigned = [w \in Worker |-> FALSE]
  /\ position = [w \in Worker |-> 0]
  /\ cur = [w \in Worker |-> 0]
  /\ attempt = [w \in Worker |-> 1]
  /\ stopping = [w \in Worker |-> FALSE]
  /\ faults = 0
  /\ settled = {}
  /\ handled = [g \in Group |-> [e \in Event |-> 0]]
-----------------------------------------------------------------------------
\* The producers, seen from the consumer: new event ids are generated (MaxLog
\* of them at most, to leave some of the MaxEvents to the consumers), and any
\* generated event, or a malformed record, is appended to the partition.

CreateEvent ==
  /\ nextId \in Event
  /\ nextId <= MaxLog
  /\ nextId' = nextId + 1
  /\ UNCHANGED <<log, dlq, committed, marked, pc, assigned, position, cur,
                 attempt, stopping, faults, history>>

AppendRecord(r) ==
  /\ Len(log) < MaxLog
  /\ r \in Event => r < nextId
  /\ log' = Append(log, r)
  /\ UNCHANGED <<nextId, dlq, committed, marked, pc, assigned, position, cur,
                 attempt, stopping, faults, history>>

Environment ==
  \/ CreateEvent
  \/ \E r \in Event \cup Malformed : AppendRecord(r)
-----------------------------------------------------------------------------
Record(w) == log[cur[w]]
Goto(w, label) == pc' = [pc EXCEPT ![w] = label]

Fault ==
  /\ faults < MaxFaults
  /\ faults' = faults + 1

Settle(w, o, fate) ==
  settled' = settled \cup {[group |-> GroupOf[w], off |-> o, fate |-> fate]}

\* The worker leaves the loop: the exception or the break reaches __aexit__,
\* stop() closes the consumer and the group loses the member.
Leave(w) ==
  /\ Goto(w, "down")
  /\ assigned' = [assigned EXCEPT ![w] = FALSE]
  /\ position' = [position EXCEPT ![w] = 0]
  /\ cur' = [cur EXCEPT ![w] = 0]
  /\ attempt' = [attempt EXCEPT ![w] = 1]
  /\ stopping' = [stopping EXCEPT ![w] = FALSE]

Finish(w) ==
  /\ Goto(w, "idle")
  /\ cur' = [cur EXCEPT ![w] = 0]

\* start(): the deployment (re)starts the process.
Start(w) ==
  /\ pc[w] = "down"
  /\ Goto(w, "idle")
  /\ UNCHANGED <<brokerVars, marked, assigned, position, cur, attempt,
                 stopping, faults, history>>

\* The group coordinator gives w the partition, which resumes at the committed
\* offset ("earliest" when there is none).  Taking it from a live member is a
\* revocation: that member keeps processing what it has already fetched.
Peers(w) == {v \in Worker \ {w} : GroupOf[v] = GroupOf[w]}

\* Mutant: a new owner resumes at the end of the partition ("latest").
AssignLatest(w) ==
  /\ pc[w] # "down"
  /\ ~assigned[w]
  /\ IF \E v \in Peers(w) : assigned[v] THEN Fault ELSE UNCHANGED faults
  /\ assigned' = [v \in Worker |-> v = w \/ (assigned[v] /\ v \notin Peers(w))]
  /\ position' = [v \in Worker |-> IF v = w THEN Len(log)
                                   ELSE IF v \in Peers(w) THEN 0
                                   ELSE position[v]]
  /\ UNCHANGED <<brokerVars, marked, pc, cur, attempt, stopping, history>>

Assign(w) ==
  /\ pc[w] # "down"
  /\ ~assigned[w]
  /\ IF \E v \in Peers(w) : assigned[v] THEN Fault ELSE UNCHANGED faults
  /\ assigned' = [v \in Worker |-> v = w \/ (assigned[v] /\ v \notin Peers(w))]
  /\ position' = [v \in Worker |-> IF v = w THEN committed[GroupOf[w]]
                                   ELSE IF v \in Peers(w) THEN 0
                                   ELSE position[v]]
  /\ UNCHANGED <<brokerVars, marked, pc, cur, attempt, stopping, history>>

Crash(w) ==
  /\ pc[w] # "down"
  /\ Fault
  /\ Leave(w)
  /\ UNCHANGED <<brokerVars, marked, history>>

\* SIGINT or SIGTERM runs _request_shutdown, which only clears _running.
RequestShutdown(w) ==
  /\ pc[w] # "down"
  /\ ~stopping[w]
  /\ Fault
  /\ stopping' = [stopping EXCEPT ![w] = TRUE]
  /\ UNCHANGED <<brokerVars, marked, pc, assigned, position, cur, attempt,
                 history>>

\* consume() receives a record.  _running is tested only now: a record that
\* arrives after the signal is dropped without a commit and ends the loop.
CanFetch(w) ==
  /\ pc[w] = "idle"
  /\ assigned[w]
  /\ position[w] < Len(log)

FetchStopping(w) ==
  /\ CanFetch(w)
  /\ stopping[w]
  /\ Leave(w)
  /\ UNCHANGED <<brokerVars, marked, faults, history>>

Fetch(w) ==
  /\ CanFetch(w)
  /\ ~stopping[w]
  /\ log[position[w] + 1] # Undecodable
  /\ position' = [position EXCEPT ![w] = @ + 1]
  /\ cur' = [cur EXCEPT ![w] = position[w] + 1]
  /\ Goto(w, IF log[position[w] + 1] = Garbage THEN "reject" ELSE "check")
  /\ UNCHANGED <<brokerVars, marked, assigned, attempt, stopping, faults,
                 history>>

\* json.loads raises UnicodeDecodeError, which escapes consume(); for a record
\* without a value the except clause itself raises, with the same outcome.
FetchUndecodable(w) ==
  /\ CanFetch(w)
  /\ ~stopping[w]
  /\ log[position[w] + 1] = Undecodable
  /\ Leave(w)
  /\ UNCHANGED <<brokerVars, marked, faults, history>>

\* The dead letter publish of id e for the record at cur[w].  A KafkaError is
\* logged and swallowed, so the record counts as dropped and the worker goes
\* on; the broker may have stored the dead letter all the same.
SendToDlq(w, e) ==
  \/ /\ dlq' = Append(dlq, e)
     /\ Settle(w, cur[w], "dlq")
     /\ UNCHANGED faults
  \/ /\ Fault
     /\ Settle(w, cur[w], "dropped")
     /\ dlq' \in {dlq, Append(dlq, e)}

\* A malformed record is wrapped in an envelope with a fresh event id; its
\* offset is not committed.
RejectGarbage(w) ==
  /\ pc[w] = "reject"
  /\ nextId \in Event
  /\ nextId' = nextId + 1
  /\ SendToDlq(w, nextId)
  /\ Finish(w)
  /\ UNCHANGED <<log, committed, marked, assigned, position, attempt, stopping,
                 handled>>

\* _is_duplicate
CheckDuplicate(w) ==
  /\ pc[w] = "check"
  /\ Record(w) \in marked
  /\ Settle(w, cur[w], "skipped")
  /\ Goto(w, "commit")
  /\ UNCHANGED <<brokerVars, marked, assigned, position, cur, attempt,
                 stopping, faults, handled>>

\* Mutant: the event is marked when it is checked (SET NX) instead of after.
CheckNewAndMark(w) ==
  /\ pc[w] = "check"
  /\ Record(w) \notin marked
  /\ marked' = marked \cup {Record(w)}
  /\ Goto(w, "handle")
  /\ UNCHANGED <<brokerVars, assigned, position, cur, attempt, stopping, faults,
                 history>>

CheckNew(w) ==
  /\ pc[w] = "check"
  /\ Record(w) \notin marked
  /\ Goto(w, "handle")
  /\ UNCHANGED <<brokerVars, marked, assigned, position, cur, attempt,
                 stopping, faults, history>>

\* Redis is unreachable: the check fails open.
CheckFails(w) ==
  /\ pc[w] = "check"
  /\ Record(w) \in marked
  /\ Fault
  /\ Goto(w, "handle")
  /\ UNCHANGED <<brokerVars, marked, assigned, position, cur, attempt,
                 stopping, history>>
-----------------------------------------------------------------------------
\* _handle_with_retry

HandleSucceeds(w) ==
  /\ pc[w] = "handle"
  /\ handled' = [handled EXCEPT ![GroupOf[w]][Record(w)] = @ + 1]
  /\ Settle(w, cur[w], "handled")
  /\ attempt' = [attempt EXCEPT ![w] = 1]
  /\ Goto(w, "mark")
  /\ UNCHANGED <<brokerVars, marked, assigned, position, cur, stopping, faults>>

\* Mutant: the retries start over instead of ending in the dead letter queue.
HandleRaisesForever(w) ==
  /\ pc[w] = "handle"
  /\ attempt' = [attempt EXCEPT ![w] = IF @ < MaxRetries THEN @ + 1 ELSE 1]
  /\ UNCHANGED <<brokerVars, marked, pc, assigned, position, cur, stopping,
                 faults, history>>

\* Mutant: one attempt too many.
HandleRaisesOnceMore(w) ==
  /\ pc[w] = "handle"
  /\ IF attempt[w] <= MaxRetries
     THEN attempt' = [attempt EXCEPT ![w] = @ + 1] /\ UNCHANGED pc
     ELSE attempt' = [attempt EXCEPT ![w] = 1] /\ Goto(w, "exhaust")
  /\ UNCHANGED <<brokerVars, marked, assigned, position, cur, stopping, faults,
                 history>>

HandleRaises(w) ==
  /\ pc[w] = "handle"
  /\ IF attempt[w] < MaxRetries
     THEN attempt' = [attempt EXCEPT ![w] = @ + 1] /\ UNCHANGED pc
     ELSE attempt' = [attempt EXCEPT ![w] = 1] /\ Goto(w, "exhaust")
  /\ UNCHANGED <<brokerVars, marked, assigned, position, cur, stopping, faults,
                 history>>

HandlerExhausted(w) ==
  /\ pc[w] = "exhaust"
  /\ SendToDlq(w, Record(w))
  /\ Goto(w, "mark")
  /\ UNCHANGED <<log, nextId, committed, marked, assigned, position, cur,
                 attempt, stopping, handled>>

\* Mutant: the mark is lost.
MarkNothing(w) ==
  /\ pc[w] = "mark"
  /\ Goto(w, "commit")
  /\ UNCHANGED <<brokerVars, marked, assigned, position, cur, attempt, stopping,
                 faults, history>>

\* _mark_processed: reached after a success and after the dead letter queue.
MarkProcessed(w) ==
  /\ pc[w] = "mark"
  /\ \/ marked' = marked \cup {Record(w)} /\ UNCHANGED faults
     \/ Fault /\ UNCHANGED marked
  /\ Goto(w, "commit")
  /\ UNCHANGED <<brokerVars, assigned, position, cur, attempt, stopping,
                 history>>

\* commit() commits the position of the partition if it is still assigned.
Commit(w) ==
  /\ pc[w] = "commit"
  /\ assigned[w]
  /\ committed' = [committed EXCEPT ![GroupOf[w]] = position[w]]
  /\ Finish(w)
  /\ UNCHANGED <<log, nextId, dlq, marked, assigned, position, attempt,
                 stopping, faults, history>>

\* Mutant: the offset of the message is committed, whoever owns the partition.
CommitStale(w) ==
  /\ pc[w] = "commit"
  /\ ~assigned[w]
  /\ committed' = [committed EXCEPT ![GroupOf[w]] = cur[w]]
  /\ Finish(w)
  /\ UNCHANGED <<log, nextId, dlq, marked, assigned, position, attempt,
                 stopping, faults, history>>

\* After a revocation there is nothing to commit.
CommitRevoked(w) ==
  /\ pc[w] = "commit"
  /\ ~assigned[w]
  /\ Finish(w)
  /\ UNCHANGED <<brokerVars, marked, assigned, position, attempt, stopping,
                 faults, history>>

\* CommitFailedError, or a lost connection, escapes consume().
CommitRaises(w) ==
  /\ pc[w] = "commit"
  /\ IF assigned[w] THEN Fault ELSE UNCHANGED faults
  /\ Leave(w)
  /\ UNCHANGED <<brokerVars, marked, history>>

\* The 24-hour TTL of a dedup key runs out.
Expire(e) ==
  /\ e \in marked
  /\ Fault
  /\ marked' = marked \ {e}
  /\ UNCHANGED <<brokerVars, pc, assigned, position, cur, attempt, stopping,
                 history>>

\* The steps of worker w's own coroutine.
Loop(w) ==
  \/ FetchStopping(w) \/ Fetch(w) \/ FetchUndecodable(w)
  \/ RejectGarbage(w)
  \/ CheckDuplicate(w) \/ CheckNew(w) \/ CheckFails(w)
  \/ HandleSucceeds(w) \/ HandleRaises(w) \/ HandlerExhausted(w)
  \/ MarkProcessed(w)
  \/ Commit(w) \/ CommitRevoked(w) \/ CommitRaises(w)

Consumers ==
  \/ \E w \in Worker : \/ Loop(w)
                       \/ Start(w) \/ Assign(w)
                       \/ Crash(w) \/ RequestShutdown(w)
  \/ \E e \in Event : Expire(e)

Next == Environment \/ Consumers

Spec == Init /\ [][Next]_vars

\* A coroutine that can run runs, Kubernetes restarts a process that ended and
\* the coordinator assigns an unowned partition.  Nothing obliges a producer
\* to write another record or a fault to happen.
Unowned(w) == \A v \in Peers(w) : ~assigned[v]

Fairness ==
  \A w \in Worker : /\ WF_vars(Loop(w))
                    /\ WF_vars(Start(w))
                    /\ WF_vars(Unowned(w) /\ Assign(w))

FairSpec == Spec /\ Fairness
-----------------------------------------------------------------------------
Settled(g, o) == \E s \in settled : s.group = g /\ s.off = o

\* The group dealt with the record itself instead of skipping it.
Processed(g, o) ==
  \E s \in settled : s.group = g /\ s.off = o /\ s.fate # "skipped"

\* No record is lost silently: whatever interleaving of crashes, revocations
\* and errors led here, every record below the committed offset of a group was
\* handled, dead-lettered, skipped, or reported as dropped by the consumers of
\* that group (manual commit after processing, kafka_utils.py 677-685).
NoSilentLoss ==
  \A g \in Group : \A o \in 1..committed[g] : Settled(g, o)

\* A record is skipped as a duplicate only if a record with the same event id
\* was really processed by some consumer (_is_duplicate, 736-754): the mark is
\* never written ahead of the work.
SkipsAreDuplicates ==
  \A s \in settled :
    s.fate = "skipped" =>
      \E h \in Group : \E p \in 1..Len(log) :
        log[p] = log[s.off] /\ Processed(h, p)

\* However often an event id is appended (producer retries, replays), a group
\* handles it once, plus at most once for every fault: a crash or a revocation
\* between the handler and the mark, a Redis error, an expired key.
DuplicatesNeedFaults ==
  \A g \in Group : \A e \in Event : handled[g][e] <= 1 + faults

\* Why there is no silent loss, as one inductive invariant.  A worker in the
\* middle of a record holds one that exists, and an event id once it has been
\* parsed; past the handler or the dead letter queue the record is settled; an
\* owner has settled everything up to its position, save the record in hand;
\* there is one owner, and it is running.
Busy(w) == pc[w] \notin {"down", "idle"}
Parsed(w) == Busy(w) /\ pc[w] # "reject"

RecordInv ==
  \A w \in Worker : /\ Busy(w) => cur[w] \in 1..Len(log)
                    /\ Parsed(w) => Record(w) \in Event

OwnerInv ==
  \A w \in Worker : assigned[w] =>
    /\ pc[w] # "down"
    /\ \A v \in Peers(w) : ~assigned[v]
    /\ position[w] \in committed[GroupOf[w]]..Len(log)
    /\ \A o \in 1..position[w] :
         Settled(GroupOf[w], o) \/ (Busy(w) /\ o = cur[w])

SettledInv ==
  \A w \in Worker : pc[w] \in {"mark", "commit"} => Settled(GroupOf[w], cur[w])

CommittedInLog == \A g \in Group : committed[g] <= Len(log)

LossInv == RecordInv /\ CommittedInLog /\ OwnerInv /\ SettledInv /\ NoSilentLoss

Dealt == {<<s.group, s.off>> : s \in settled}

\* The consumer implements the promise of a consumer group: settle first,
\* commit later, never move the committed offset back.
Delivery ==
  INSTANCE LogDelivery WITH
    length <- Len(log),
    settled <- Dealt,
    frontier <- committed
ImplementsDelivery == Delivery!Spec

Delivered(g, o) ==
  /\ o <= Len(log)
  /\ IF log[o] \in Event THEN committed[g] >= o ELSE Settled(g, o)

\* Every event written to the partition is eventually committed by every group
\* and every malformed record eventually dead-lettered (or dropped), although
\* workers crash, are stopped and lose the partition; only a record that is not
\* UTF-8 keeps itself and those behind it waiting.
EveryRecordDelivered ==
  \A g \in Group : \A o \in 1..MaxLog :
    o <= Len(log) ~> Delivered(g, o) \/ \E p \in DOMAIN log : p <= o /\ log[p] = Undecodable

\* "Un-parseable messages go straight to the DLQ" (kafka_utils.py 649).
UnparseableDeadLettered ==
  \A g \in Group : \A o \in 1..MaxLog :
    (o <= Len(log) /\ log[o] \notin Event)
      ~> (o <= Len(log) /\ Settled(g, o))

\* Duplicates are detected "per consumer group" (data-flow.md 731): a group
\* skips only what one of its own workers processed.
SkipsAreOwnDuplicates ==
  \A s \in settled :
    s.fate = "skipped" =>
      \E p \in 1..Len(log) : log[p] = log[s.off] /\ Processed(s.group, p)

=============================================================================
