-------------------------- MODULE ServiceLifecycle --------------------------
(***************************************************************************)
(* How the services start and stop.  A process opens its resources one     *)
(* after another, starts its work (a consume loop or a gRPC server) and is *)
(* then healthy; a signal makes it close them one after another, while its *)
(* work goes on until it is cancelled or the process is gone.  A behaviour *)
(* is about one process of one service.                                    *)
(***************************************************************************)
EXTENDS Naturals, Sequences, SequencesExt

CONSTANTS Services,  \* services explored
          MaxBoots   \* bound: starts of the process

VARIABLES
  service,  \* the service of the process
  phase,    \* "down", "starting", "serving", "stopping"
  next,     \* the next step of its start or of its stop
  open,     \* resources that are open
  job,      \* "none", "opening", "idle", "busy", "ended"
  boots,    \* starts so far
  late,     \* history: closed resources the work has met, since the start
  raised    \* history: the work has raised, since the start

lifeVars == <<service, phase, next, open, job, boots, late, raised>>
history == <<late, raised>>

\* What startup and shutdown do, in order.  "spawn" starts work that opens its
\* source (own) itself, "loop" work whose source is open, "cancel" ends it.  The
\* work takes what its source hands out and uses the other resources; an error
\* ends fragile work for good.
AlertService ==
  [start |-> <<"database", "producer", "spawn">>, stop |-> <<"producer", "database">>,
   own |-> {"consumer"}, source |-> "consumer", uses |-> {"database", "producer"},
   fragile |-> TRUE]
CaseService ==
  [start |-> <<"database", "spawn">>, stop |-> <<"database">>,
   own |-> {"consumer"}, source |-> "consumer", uses |-> {"database"}, fragile |-> TRUE]
NotificationService ==
  [start |-> <<"database", "producer", "consumer", "loop">>,
   stop |-> <<"cancel", "consumer", "producer">>,
   own |-> {}, source |-> "consumer", uses |-> {"database", "consumer"}, fragile |-> TRUE]
StreamService ==
  [start |-> <<"producer", "consumer", "loop">>, stop |-> <<"cancel", "consumer", "producer">>,
   own |-> {}, source |-> "consumer", uses |-> {"producer", "consumer"}, fragile |-> TRUE]
ProfileService ==
  [start |-> <<"database", "consumer", "loop">>, stop |-> <<"cancel", "consumer">>,
   own |-> {}, source |-> "consumer", uses |-> {"consumer"}, fragile |-> TRUE]
GatewayService ==
  [start |-> <<"spawn">>, stop |-> <<"cancel">>,
   own |-> {"consumer"}, source |-> "consumer", uses |-> {"consumer"}, fragile |-> FALSE]
RuleService ==
  [start |-> <<"database", "redis", "spawn">>, stop |-> <<"database", "redis", "server">>,
   own |-> {"server"}, source |-> "server", uses |-> {"database", "redis"}, fragile |-> FALSE]
GraphService ==
  [start |-> <<"neo4j", "server", "loop">>, stop |-> <<"neo4j", "server">>,
   own |-> {}, source |-> "server", uses |-> {"neo4j"}, fragile |-> FALSE]

Script ==
  [alerts |-> AlertService, cases |-> CaseService, notifications |-> NotificationService,
   stream |-> StreamService, profile |-> ProfileService, gateway |-> GatewayService,
   rules |-> RuleService, graph |-> GraphService]
Mine == Script[service]

ASSUME LifeAssumption == Services \subseteq DOMAIN Script /\ MaxBoots \in Nat

Resources == {"database", "producer", "consumer", "redis", "neo4j", "server"}

LifeTypeOK ==
  /\ service \in Services /\ phase \in {"down", "starting", "serving", "stopping"}
  /\ open \subseteq Resources /\ late \subseteq Resources
  /\ job \in {"none", "opening", "idle", "busy", "ended"}
  /\ boots \in 0..MaxBoots
  /\ next \in 1..Len(IF phase = "stopping" THEN Mine.stop ELSE Mine.start) + 1
  /\ phase = "down" => open = {} /\ job = "none"

LifeInit ==
  /\ service \in Services
  /\ phase = "down" /\ next = 1 /\ open = {} /\ job = "none" /\ boots = 0
  /\ late = {} /\ raised = FALSE
-----------------------------------------------------------------------------
Gone == phase' = "down" /\ next' = 1 /\ open' = {} /\ job' = "none"
Enter(p) == phase' = p /\ next' = 1
Spawned(step) == IF step = "loop" THEN "idle" ELSE "opening"

Boot ==
  /\ phase = "down" /\ boots < MaxBoots
  /\ boots' = boots + 1
  /\ Enter("starting")
  /\ late' = {} /\ raised' = FALSE
  /\ UNCHANGED <<service, open, job>>

StartStep ==
  /\ phase = "starting" /\ next \in DOMAIN Mine.start
  /\ LET step == Mine.start[next] IN
       IF step \in {"spawn", "loop"}
       THEN job' = Spawned(step) /\ UNCHANGED open
       ELSE open' = open \cup {step} /\ UNCHANGED job
  /\ next' = next + 1
  /\ UNCHANGED <<service, phase, boots, history>>

\* Clients that connect when they are first used.
Lazy == IF service = "rules" THEN {"database", "redis"} ELSE {"neo4j"}

\* PostgreSQL or Kafka cannot be reached, or the port is taken: the startup
\* raises and the process ends.
StartRaises ==
  /\ phase = "starting" /\ next \in DOMAIN Mine.start
  /\ Mine.start[next] \in Resources \ Lazy
  /\ Gone
  /\ UNCHANGED <<service, boots, history>>

Serve ==
  /\ phase = "starting" /\ next > Len(Mine.start)
  /\ Enter("serving")
  /\ UNCHANGED <<service, open, job, boots, history>>
-----------------------------------------------------------------------------
\* The work opens its own consumer or server.
Open ==
  /\ job = "opening"
  /\ job' = "idle" /\ open' = open \cup Mine.own
  /\ UNCHANGED <<service, phase, next, boots, history>>

\* It cannot, and nobody looks at the task; the gateway tries again.
OpenRaises ==
  /\ job = "opening"
  /\ job' = IF service = "gateway" THEN "opening" ELSE "ended"
  /\ raised' = TRUE
  /\ UNCHANGED <<service, phase, next, open, boots, late>>

\* The work's source hands it a record or a call.
TakeJob ==
  /\ job = "idle" /\ Mine.source \in open
  /\ job' = "busy"
  /\ UNCHANGED <<service, phase, next, open, boots, history>>

\* The work uses one of its resources.
Use ==
  /\ job = "busy"
  /\ \E r \in Mine.uses : late' = IF r \in open THEN late ELSE late \cup {r}
  /\ UNCHANGED <<service, phase, next, open, job, boots, raised>>

FinishJob ==
  /\ job = "busy"
  /\ job' = "idle"
  /\ UNCHANGED <<service, phase, next, open, boots, history>>

\* An error: fragile work ends, and closes the consumer it opened; a server
\* answers the call with the error; the gateway's loop opens a new consumer.
WorkRaises ==
  /\ job = "busy"
  /\ job' = CASE Mine.fragile -> "ended" [] service = "gateway" -> "opening" [] OTHER -> "idle"
  /\ open' = IF job' = "idle" THEN open ELSE open \ Mine.own
  /\ raised' = TRUE
  /\ UNCHANGED <<service, phase, next, boots, late>>
-----------------------------------------------------------------------------
Shutdown ==
  /\ phase = "serving"
  /\ Enter("stopping")
  /\ UNCHANGED <<service, open, job, boots, history>>

\* Mutant: what was opened first is closed first.
StopsInOrderOfStart == Reverse(Mine.stop)
Stops == Mine.stop

\* A cancelled loop gets no further than its current await.  The rule engine's
\* server is waited for until it has started, and abandons its calls; a call of
\* the graph service runs on in its thread.
StopStep ==
  /\ phase = "stopping" /\ next \in DOMAIN Stops
  /\ LET step == Stops[next] IN
       /\ step = "server" => job # "opening"
       /\ open' = open \ (IF step = "cancel" THEN Mine.own ELSE {step})
       /\ job' = IF step = "cancel" \/ (step = "server" /\ service = "rules") THEN "ended"
                  ELSE job
  /\ next' = next + 1
  /\ UNCHANGED <<service, phase, boots, history>>

\* The process ends and cancels the tasks that still run; for threads it waits.
Exit ==
  /\ phase = "stopping" /\ next > Len(Stops)
  /\ service = "graph" => job # "busy"
  /\ Gone
  /\ UNCHANGED <<service, boots, history>>

Crash ==
  /\ phase # "down"
  /\ Gone
  /\ UNCHANGED <<service, boots, history>>

LifeNext ==
  \/ Boot \/ StartStep \/ StartRaises \/ Serve
  \/ Open \/ OpenRaises \/ TakeJob \/ Use \/ FinishJob \/ WorkRaises
  \/ Shutdown \/ StopStep \/ Exit \/ Crash

LifeSpec == LifeInit /\ [][LifeNext]_lifeVars
-----------------------------------------------------------------------------
\* No work begins before what it needs is open, and a service that ends its work
\* before it closes anything never meets a closed resource; the alert, case, rule
\* and graph services do, and only while they stop.  A service that is healthy
\* and does no work has met an error since its start, and is one whose work an
\* error ends.
ClosedOnlyWhileStopping ==
  /\ late # {} => service \in {"alerts", "cases", "rules", "graph"}
  /\ late # {} => phase \in {"stopping", "down"}
  /\ phase = "serving" /\ job = "ended" =>
       raised /\ (Mine.fragile \/ service = "rules")
=============================================================================
