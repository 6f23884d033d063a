----------------------------- MODULE Ingestion ------------------------------
(***************************************************************************)
(* POST /transactions, from the gateway's forward_transaction to the       *)
(* transaction service's create_transaction: the row is inserted in a      *)
(* session of the DatabaseManager, the 202 is returned, and the event is   *)
(* published by a background task.  Nothing ties the two writes together.  *)
(***************************************************************************)
EXTENDS Naturals, FiniteSets

CONSTANTS Requests,    \* the POSTs the gateway gets; two may carry one transaction
          Txns,        \* values of payload.transaction_id (external_id of a row)
          PoolLimit,   \* pool_size + max_overflow
          MaxFaults    \* bound: database, broker and process failures

ASSUME IngestionAssumption == PoolLimit \in Nat \ {0} /\ MaxFaults \in Nat

VARIABLES
  service,   \* the transaction service's process
  engine,    \* DatabaseManager.is_initialised
  producer,  \* FraudKafkaProducer._started
  payload,   \* what each request carries
  pc,        \* where each request is
  answer,    \* what the gateway answered, "none" so far
  probing,   \* a health_check holds a connection
  inUse,     \* connections checked out of the pool
  rows,      \* requests whose row is committed
  events,    \* requests whose transaction.created event is in the topic
  causes,    \* history: why a request's insert or publish did not succeed
  failures   \* faults so far

lifecycle == <<service, engine, producer>>
ingestVars == <<lifecycle, probing, payload, pc, answer, inUse, rows, events,
                causes, failures>>

\* What TransactionPayload and the table make of a body: "invalid" is refused
\* by the model (422); "unstorable" passes the model and fails the table's
\* checks (a channel outside the list, a category longer than the column).
Kinds == {"good", "unstorable", "invalid"}
Bodies == [txn : Txns, kind : Kinds]
NoBody == [txn |-> "none", kind |-> "none"]

\* A request in a session holds a connection, and one past its INSERT the
\* row's unique key; the process is serving it until its background task ends.
InSession(r) == pc[r] \in {"session", "commit"}
Served(r)    == InSession(r) \/ pc[r] \in {"handling", "respond", "publish"}
Ended(r)     == pc[r] \in {"done", "dead"}
SameTxn(q, r) == payload[q].txn = payload[r].txn

IngestTypeOK ==
  /\ service \in {"down", "starting", "up"}
  /\ engine \in BOOLEAN /\ producer \in BOOLEAN /\ probing \in BOOLEAN
  /\ payload \in [Requests -> Bodies \cup {NoBody}]
  /\ pc \in [Requests -> {"idle", "forwarded", "handling", "session", "commit",
                          "respond", "publish", "done", "dead"}]
  /\ answer \in [Requests -> {"none", "202", "422", "502"}]
  /\ inUse \in 0..PoolLimit
  /\ rows \in SUBSET Requests /\ events \in SUBSET Requests
  /\ causes \in [Requests -> SUBSET {"duplicate", "unstorable", "pool",
                                     "database", "broker", "crash"}]
  /\ failures \in 0..MaxFaults

IngestInit ==
  /\ service = "down" /\ engine = FALSE /\ producer = FALSE /\ probing = FALSE
  /\ payload = [r \in Requests |-> NoBody]
  /\ pc = [r \in Requests |-> "idle"]
  /\ answer = [r \in Requests |-> "none"]
  /\ inUse = 0
  /\ rows = {} /\ events = {}
  /\ causes = [r \in Requests |-> {}]
  /\ failures = 0
-----------------------------------------------------------------------------
Fault == failures < MaxFaults /\ failures' = failures + 1
Goto(r, where) == pc' = [pc EXCEPT ![r] = where]
Blame(r, why) == causes' = [causes EXCEPT ![r] = @ \cup {why}]
Answer(r, code) ==
  answer' = [answer EXCEPT ![r] = IF @ = "none" THEN code ELSE @]

\* lifespan: create_engine opens no connection, so it does not fail.
CreateEngine ==
  /\ service = "down"
  /\ engine' = TRUE /\ service' = "starting"
  /\ UNCHANGED <<producer, probing, payload, pc, answer, inUse, rows, events, causes, failures>>

\* lifespan: producer.start reaches the broker, or raises and ends the process.
StartProducer ==
  /\ service = "starting"
  /\ \/ service' = "up" /\ producer' = TRUE /\ UNCHANGED <<engine, failures>>
     \/ service' = "down" /\ engine' = FALSE /\ Fault /\ UNCHANGED producer
  /\ UNCHANGED <<probing, payload, pc, answer, inUse, rows, events, causes>>

\* The server drains its requests and their background tasks, then lifespan
\* stops the producer and DatabaseManager.close disposes the engine.
Shutdown ==
  /\ service = "up" /\ ~probing /\ \A r \in Requests : ~Served(r)
  /\ service' = "down" /\ producer' = FALSE /\ engine' = FALSE
  /\ UNCHANGED <<probing, payload, pc, answer, inUse, rows, events, causes, failures>>

\* The process dies.  A COMMIT or a record already sent may still take effect.
Crash ==
  /\ service # "down" /\ Fault
  /\ service' = "down" /\ producer' = FALSE /\ engine' = FALSE
  /\ inUse' = 0 /\ probing' = FALSE
  /\ \E R \in SUBSET {r \in Requests : pc[r] = "commit"} : rows' = rows \cup R
  /\ \E R \in SUBSET {r \in Requests : pc[r] = "publish"} : events' = events \cup R
  /\ pc' = [r \in Requests |-> IF Served(r) THEN "dead" ELSE pc[r]]
  /\ answer' = [r \in Requests |->
                  IF Served(r) /\ answer[r] = "none" THEN "502" ELSE answer[r]]
  /\ causes' = [r \in Requests |->
                  IF Served(r) THEN causes[r] \cup {"crash"} ELSE causes[r]]
  /\ UNCHANGED payload

\* DatabaseManager.health_check: its SELECT 1 takes a connection of the same
\* pool.  Without an engine or a connection it answers False and that is all.
ProbeConnects ==
  /\ service # "down" /\ engine /\ ~probing /\ inUse < PoolLimit
  /\ probing' = TRUE /\ inUse' = inUse + 1
  /\ UNCHANGED <<lifecycle, payload, pc, answer, rows, events, causes, failures>>

\* It answers, True or False, and never raises.
ProbeEnds ==
  /\ probing
  /\ probing' = FALSE /\ inUse' = inUse - 1
  /\ UNCHANGED <<lifecycle, payload, pc, answer, rows, events, causes, failures>>
-----------------------------------------------------------------------------
\* The gateway reads the body and posts it to the service.
Forward(r) ==
  /\ pc[r] = "idle"
  /\ \E b \in Bodies : payload' = [payload EXCEPT ![r] = b]
  /\ Goto(r, "forwarded")
  /\ UNCHANGED <<lifecycle, probing, answer, inUse, rows, events, causes, failures>>

\* httpx.RequestError: nobody listens, or no answer within proxy_timeout_seconds.
\* The second leaves the service working on the request.
GatewayGivesUp(r) ==
  /\ \/ pc[r] = "forwarded" /\ service # "up" /\ Goto(r, "done")
     \/ Served(r) /\ answer[r] = "none" /\ UNCHANGED pc
  /\ Answer(r, "502")
  /\ UNCHANGED <<lifecycle, probing, payload, inUse, rows, events, causes, failures>>

\* TransactionPayload validates the body.
Receive(r) ==
  /\ pc[r] = "forwarded" /\ service = "up"
  /\ IF payload[r].kind = "invalid"
     THEN Goto(r, "done") /\ Answer(r, "422")
     ELSE Goto(r, "handling") /\ UNCHANGED answer
  /\ UNCHANGED <<lifecycle, probing, payload, inUse, rows, events, causes, failures>>

\* Mutant: the pool never says no.
OpenSessionUnbounded(r) ==
  /\ pc[r] = "handling"
  /\ Goto(r, "session") /\ inUse' = inUse + 1
  /\ UNCHANGED <<lifecycle, probing, payload, answer, rows, events, causes, failures>>

\* get_session, with a connection from the pool or after the pool's timeout.
OpenSession(r) ==
  /\ pc[r] = "handling"
  /\ IF inUse < PoolLimit
     THEN Goto(r, "session") /\ inUse' = inUse + 1 /\ UNCHANGED causes
     ELSE Goto(r, "respond") /\ Blame(r, "pool") /\ UNCHANGED inUse
  /\ UNCHANGED <<lifecycle, probing, payload, answer, rows, events, failures>>

\* The table decides: external_id is unique, and an INSERT of a key another
\* transaction holds waits for it.
Waits(r) == \E q \in Requests \ {r} : pc[q] = "commit" /\ SameTxn(q, r)
Duplicate(r) == \E q \in rows : SameTxn(q, r)

Execute(r) ==
  /\ pc[r] = "session"
  /\ ~Waits(r) /\ ~Duplicate(r) /\ payload[r].kind = "good"
  /\ Goto(r, "commit")
  /\ UNCHANGED <<lifecycle, probing, payload, answer, inUse, rows, events, causes, failures>>

\* Mutant: an error leaves the block without session.close.
ExecuteRaisesLeaks(r) ==
  /\ pc[r] = "session" /\ ~Waits(r)
  /\ \/ Duplicate(r) /\ Blame(r, "duplicate") /\ UNCHANGED failures
     \/ payload[r].kind # "good" /\ Blame(r, "unstorable") /\ UNCHANGED failures
     \/ Fault /\ Blame(r, "database")
  /\ Goto(r, "respond")
  /\ UNCHANGED <<lifecycle, probing, payload, answer, inUse, rows, events>>

\* Mutant: only a lost connection is treated as an error of the insert.
ExecuteRaisesOnlyDown(r) ==
  /\ pc[r] = "session" /\ ~Waits(r)
  /\ Fault /\ Blame(r, "database")
  /\ Goto(r, "respond")
  /\ inUse' = inUse - 1
  /\ UNCHANGED <<lifecycle, probing, payload, answer, rows, events>>

\* get_session rolls back, closes and re-raises; the handler logs and goes on.
ExecuteRaises(r) ==
  /\ pc[r] = "session" /\ ~Waits(r)
  /\ \/ Duplicate(r) /\ Blame(r, "duplicate") /\ UNCHANGED failures
     \/ payload[r].kind # "good" /\ Blame(r, "unstorable") /\ UNCHANGED failures
     \/ Fault /\ Blame(r, "database")
  /\ Goto(r, "respond")
  /\ inUse' = inUse - 1
  /\ UNCHANGED <<lifecycle, probing, payload, answer, rows, events>>

\* The handler commits; get_session's own commit finds nothing to do.
Commit(r) ==
  /\ pc[r] = "commit"
  /\ rows' = rows \cup {r}
  /\ Goto(r, "respond")
  /\ inUse' = inUse - 1
  /\ UNCHANGED <<lifecycle, probing, payload, answer, events, causes, failures>>

\* The connection breaks during COMMIT, which may have taken effect.
CommitRaises(r) ==
  /\ pc[r] = "commit" /\ Fault
  /\ rows' \in {rows, rows \cup {r}}
  /\ Blame(r, "database")
  /\ Goto(r, "respond")
  /\ inUse' = inUse - 1
  /\ UNCHANGED <<lifecycle, probing, payload, answer, events>>

\* Mutant: a failed insert also skips the event.
RespondStoredOnly(r) ==
  /\ pc[r] = "respond"
  /\ Answer(r, "202")
  /\ Goto(r, IF r \in rows THEN "publish" ELSE "done")
  /\ UNCHANGED <<lifecycle, probing, payload, inUse, rows, events, causes, failures>>

\* The 202 goes out, stored or not, with the publication as its background task.
Respond(r) ==
  /\ pc[r] = "respond"
  /\ Answer(r, "202")
  /\ Goto(r, "publish")
  /\ UNCHANGED <<lifecycle, probing, payload, inUse, rows, events, causes, failures>>

\* The background task calls publish once: its exception is logged by the
\* server and nobody tries again.
Publish(r) ==
  /\ pc[r] = "publish"
  /\ \/ events' = events \cup {r} /\ UNCHANGED <<causes, failures>>
     \/ Fault /\ Blame(r, "broker") /\ events' \in {events, events \cup {r}}
  /\ Goto(r, "done")
  /\ UNCHANGED <<lifecycle, probing, payload, answer, inUse, rows>>
-----------------------------------------------------------------------------
Handle(r) ==
  \/ Receive(r) \/ OpenSession(r) \/ Execute(r) \/ ExecuteRaises(r) \/ Commit(r)
  \/ CommitRaises(r) \/ Respond(r) \/ Publish(r)

IngestNext ==
  \/ CreateEngine \/ StartProducer \/ Shutdown \/ Crash \/ ProbeConnects \/ ProbeEnds
  \/ \E r \in Requests : Forward(r) \/ GatewayGivesUp(r) \/ Handle(r)

\* The event loop runs every request's handler, and a request that finds no
\* server is refused by the network.
IngestFairness ==
  \A r \in Requests : WF_ingestVars(Handle(r) \/ (~Served(r) /\ GatewayGivesUp(r)))

IngestSpec == IngestInit /\ [][IngestNext]_ingestVars /\ IngestFairness
-----------------------------------------------------------------------------
\* The two writes of create_transaction diverge only for a reason the code met:
\* a request answered 202 and finished has its row unless the insert was
\* refused or failed, has its event unless the broker or the process failed,
\* and one refused by the model has neither.
DivergenceNeedsCause ==
  \A r \in Requests :
    /\ Ended(r) /\ answer[r] = "202" =>
         /\ r \in rows \/ causes[r] \ {"broker"} # {}
         /\ r \in events \/ causes[r] \cap {"broker", "crash"} # {}
    /\ r \in rows \cup events => payload[r].kind # "invalid"
    /\ r \in events /\ "crash" \notin causes[r] => answer[r] \in {"202", "502"}

\* Whatever happens inside a session or a health check, its connection goes back
\* to the pool.
ConnectionsReturned ==
  inUse = Cardinality({r \in Requests : InSession(r)}) + (IF probing THEN 1 ELSE 0)

\* A forwarded request is answered and its work ends, by its handler, by an
\* error or with the process: neither the pool nor a key held by another
\* request keeps it forever.
EveryRequestEnds ==
  \A r \in Requests :
    pc[r] = "forwarded" ~> (Ended(r) /\ answer[r] # "none")
=============================================================================
