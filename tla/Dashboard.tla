----------------------------- MODULE Dashboard ------------------------------
(***************************************************************************)
(* The customer-profile service consumes three topics into two bounded     *)
(* in-memory queues, and every SSE client of a stream takes its messages   *)
(* from the same queue.                                                    *)
(***************************************************************************)
EXTENDS Naturals, Sequences, FiniteSets, SequencesExt

CONSTANTS Clients,    \* SSE clients
          MaxEvents,  \* bound: records of the three topics
          QueueSize   \* maxsize of the queues

ASSUME DashboardAssumption == MaxEvents \in Nat /\ QueueSize \in Nat \ {0}

Streams == {"transactions", "alerts"}

VARIABLES
  records,   \* the records consumed so far: the stream of each, or "bad"
  consuming, \* the consumer task is alive
  queue,     \* per stream, the numbers of the records queued
  client,    \* per client, where its generator is and what it holds
  shown,     \* history: records yielded to a client, per stream
  dropped,   \* history: records that found their queue full
  lost       \* history: records taken for a client that had left

dashVars == <<records, consuming, queue, client, shown, dropped, lost>>

DashTypeOK ==
  /\ records \in Seq(Streams \cup {"bad"})
  /\ consuming \in BOOLEAN
  /\ queue \in [Streams -> Seq(1..MaxEvents)]
  /\ client \in [Clients -> [at : {"away", "check", "wait", "yield", "gone"},
                             stream : Streams, holds : 0..MaxEvents, here : BOOLEAN]]
  /\ shown \in SUBSET (1..MaxEvents) /\ dropped \in SUBSET (1..MaxEvents)
  /\ lost \in SUBSET (1..MaxEvents)

DashInit ==
  /\ records = <<>> /\ consuming = TRUE
  /\ queue = [s \in Streams |-> <<>>]
  /\ client = [c \in Clients |-> [at |-> "away", stream |-> "alerts", holds |-> 0, here |-> TRUE]]
  /\ shown = {} /\ dropped = {} /\ lost = {}
-----------------------------------------------------------------------------
\* notify_transaction and notify_alert: no await between the test and the put.
Notify(s, n) ==
  IF Len(queue[s]) < QueueSize
  THEN queue' = [queue EXCEPT ![s] = Append(@, n)] /\ UNCHANGED dropped
  ELSE dropped' = dropped \cup {n} /\ UNCHANGED queue

\* Scores go to the stream of the transactions.  A record that is not an object
\* raises, and consume logs the error and ends.
Relay ==
  /\ consuming /\ Len(records) < MaxEvents
  /\ \E s \in Streams \cup {"bad"} :
       /\ records' = Append(records, s)
       /\ consuming' = (s # "bad")
       /\ IF s = "bad" THEN UNCHANGED <<queue, dropped>> ELSE Notify(s, Len(records) + 1)
  /\ UNCHANGED <<client, shown, lost>>

Move(c, where) == client' = [client EXCEPT ![c].at = where]

\* EventSourceResponse over one of the two queues.
Open(c) ==
  /\ client[c].at = "away"
  /\ \E s \in Streams : client' = [client EXCEPT ![c].at = "check", ![c].stream = s]
  /\ UNCHANGED <<records, consuming, queue, shown, dropped, lost>>

\* The browser goes away.
Leave(c) ==
  /\ client[c].at \notin {"away", "gone"} /\ client[c].here
  /\ client' = [client EXCEPT ![c].here = FALSE]
  /\ UNCHANGED <<records, consuming, queue, shown, dropped, lost>>

\* sse_generator: is_disconnected, then wait_for the queue.
Check(c) ==
  /\ client[c].at = "check"
  /\ Move(c, IF client[c].here THEN "wait" ELSE "gone")
  /\ UNCHANGED <<records, consuming, queue, shown, dropped, lost>>

\* Mutant: the message stays in the queue for the other clients.
TakeCopy(c) ==
  LET s == client[c].stream IN
  /\ client[c].at = "wait" /\ queue[s] # <<>>
  /\ client' = [client EXCEPT ![c].at = "yield", ![c].holds = Head(queue[s])]
  /\ UNCHANGED <<records, consuming, queue, shown, dropped, lost>>

Take(c) ==
  LET s == client[c].stream IN
  /\ client[c].at = "wait" /\ queue[s] # <<>>
  /\ client' = [client EXCEPT ![c].at = "yield", ![c].holds = Head(queue[s])]
  /\ queue' = [queue EXCEPT ![s] = Tail(@)]
  /\ UNCHANGED <<records, consuming, shown, dropped, lost>>

\* After 15 s without a message a ping is yielded; a client that left while it
\* waited is noticed at the next check, or its generator is cancelled.
Ping(c) ==
  /\ client[c].at = "wait" /\ queue[client[c].stream] = <<>>
  /\ Move(c, "check")
  /\ UNCHANGED <<records, consuming, queue, shown, dropped, lost>>

\* The message is yielded, to the client if it is still there.
Yield(c) ==
  LET n == client[c].holds IN
  /\ client[c].at = "yield"
  /\ client' = [client EXCEPT ![c].at = "check", ![c].holds = 0]
  /\ IF client[c].here THEN shown' = shown \cup {n} /\ UNCHANGED lost
                       ELSE lost' = lost \cup {n} /\ UNCHANGED shown
  /\ UNCHANGED <<records, consuming, queue, dropped>>

DashNext ==
  \/ Relay
  \/ \E c \in Clients : Open(c) \/ Leave(c) \/ Check(c) \/ Take(c) \/ Ping(c) \/ Yield(c)

DashSpec == DashInit /\ [][DashNext]_dashVars
-----------------------------------------------------------------------------
Held == {client[c].holds : c \in Clients} \ {0}
Queued == UNION {ToSet(queue[s]) : s \in Streams}
Relayed == {n \in DOMAIN records : records[n] # "bad"}

\* Of every record the service consumed exactly one thing is true: it waits in
\* its queue, one client holds it, one client was shown it, it found the queue
\* full, or the client it was taken for had left.  So a record is never shown
\* to two dashboards, and none disappears for any other reason.
EachRecordInOnePlace ==
  /\ Relayed = Queued \cup Held \cup shown \cup dropped \cup lost
  /\ Cardinality(Relayed) =
       Cardinality(Queued) + Cardinality({c \in Clients : client[c].holds # 0})
       + Cardinality(shown) + Cardinality(dropped) + Cardinality(lost)
=============================================================================
