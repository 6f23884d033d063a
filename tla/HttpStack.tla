----------------------------- MODULE HttpStack ------------------------------
(***************************************************************************)
(* The HTTP middleware a service may put around its routes: the platform's *)
(* stack (setup_middleware, with the exceptions and the logging set-up of  *)
(* the shared library), and the gateway's own correlation middleware.      *)
(* Requests are handled by concurrent tasks that alternate at every await: *)
(* a request goes in through the layers, outermost first, to its route,    *)
(* and what comes out, an answer or an exception, goes back through them.  *)
(***************************************************************************)
EXTENDS Naturals, Sequences

CONSTANTS HttpRequests, \* requests a process handles at once
          Given,        \* correlation ids clients send along
          MaxLines      \* bound: lines a route logs about a request

ASSUME HttpAssumption == MaxLines \in Nat

\* A correlation id: what a client sent, or a fresh uuid4 of a request or of the
\* body of an error.
Id(origin, name) == [origin |-> origin, name |-> name]
Absent == Id("none", "none")
Unknown == Id("unknown", "unknown")
Minted(r) == Id("request", r)
MintedBody(r) == Id("error", r)
Ids == {Id("client", g) : g \in Given} \cup {Minted(r) : r \in HttpRequests}

VARIABLES
  stack,    \* which of the two stacks the process has
  http,     \* per request: [path, sent, at, dir, id, said, raised, status, header, body]
  bound,    \* per request: the correlation id bound in its task's context
  log       \* the lines logged, as a set: [by, event, level, id]

httpVars == <<stack, http, bound, log>>

\* Middleware added last runs first.
Layers ==
  IF stack = "gateway" THEN <<"correlate">> ELSE <<"errors", "correlate", "log">>

Excluded == {"probe"}   \* /healthz, /readyz and /metrics

\* The platform's exceptions, by error code, with their statuses.
ClientErrors ==
  [VALIDATION_ERROR |-> 400, AUTHENTICATION_ERROR |-> 401, AUTHORIZATION_ERROR |-> 403,
   NOT_FOUND |-> 404, CONFLICT |-> 409, RATE_LIMIT_EXCEEDED |-> 429]
ServerErrors ==
  [SERVICE_UNAVAILABLE |-> 503, KAFKA_PUBLISH_ERROR |-> 500, SCORING_TIMEOUT |-> 504]
PlatformStatuses ==
  {ClientErrors[e] : e \in DOMAIN ClientErrors} \cup {ServerErrors[e] : e \in DOMAIN ServerErrors}

Fresh == [path |-> "api", sent |-> Absent, at |-> 0, dir |-> "new", id |-> Unknown, said |-> 0,
          raised |-> FALSE, status |-> 0, header |-> Absent, body |-> Absent]

HttpTypeOK ==
  /\ stack \in {"platform", "gateway"}
  /\ bound \in [HttpRequests -> Ids \cup {Absent}]
  /\ \A r \in HttpRequests :
       /\ http[r].dir \in {"new", "in", "out", "done"} /\ http[r].said \in 0..MaxLines
       /\ http[r].at \in 0..Len(Layers) + 1
       /\ http[r].status \in {0, 200} \cup PlatformStatuses
       /\ http[r].header \in Ids \cup {Absent}
       /\ http[r].raised => http[r].header = Absent
  /\ \A l \in log : l.by \in HttpRequests /\ l.level \in {"debug", "info", "warning", "error"}

HttpInit ==
  /\ stack \in {"platform", "gateway"}
  /\ http = [r \in HttpRequests |-> Fresh]
  /\ bound = [r \in HttpRequests |-> Absent]
  /\ log = {}
-----------------------------------------------------------------------------
At(r, layer, dir) ==
  /\ http[r].dir = dir /\ http[r].at \in DOMAIN Layers
  /\ Layers[http[r].at] = layer

Inwards(r) == [http[r] EXCEPT !.at = @ + 1]
Outwards(r) == [http[r] EXCEPT !.at = @ - 1, !.dir = IF http[r].at = 1 THEN "done" ELSE "out"]
Set(r, request) == http' = [http EXCEPT ![r] = request]

\* The processors merge what the task's context has bound into a line that does
\* not bring an id of its own.
LineId(r, own) == IF own # Absent THEN own ELSE bound[r]
Line(r, event, level, own) ==
  [by |-> r, event |-> event, level |-> level, id |-> LineId(r, own)]

LevelOf(status) ==
  IF status >= 500 THEN "error" ELSE IF status >= 400 THEN "warning" ELSE "info"

Arrive(r) ==
  /\ http[r].dir = "new"
  /\ \E path \in {"api", "probe"}, sent \in {Id("client", g) : g \in Given} \cup {Absent} :
       Set(r, [Fresh EXCEPT !.path = path, !.sent = sent, !.at = 1, !.dir = "in"])
  /\ UNCHANGED <<stack, bound, log>>

\* The layers that do nothing on the way in.
PassIn(r) ==
  /\ At(r, "errors", "in") \/ At(r, "log", "in")
  /\ Set(r, Inwards(r))
  /\ UNCHANGED <<stack, bound, log>>

\* The gateway's middleware logs twice, and names the id itself.
Started(r) ==
  {l \in {Line(r, "started", "debug", http'[r].id)} : stack = "gateway"}
Completed(r) ==
  {l \in {Line(r, "completed", "debug", http[r].id)} : stack = "gateway" /\ ~http[r].raised}

IdOf(r) == IF http[r].sent = Absent THEN Minted(r) ELSE http[r].sent

\* Mutant: the id is bound for the process, not for the request's task.
CorrelateShared(r) ==
  /\ At(r, "correlate", "in")
  /\ Set(r, [Inwards(r) EXCEPT !.id = IdOf(r)])
  /\ bound' = [q \in HttpRequests |-> IdOf(r)]
  /\ log' = log \cup Started(r)
  /\ UNCHANGED stack

\* The id goes to the request's state and to the task's context.
Correlate(r) ==
  /\ At(r, "correlate", "in")
  /\ Set(r, [Inwards(r) EXCEPT !.id = IdOf(r)])
  /\ bound' = [bound EXCEPT ![r] = IdOf(r)]
  /\ log' = log \cup Started(r)
  /\ UNCHANGED stack

InRoute(r) == http[r].dir = "in" /\ http[r].at = Len(Layers) + 1

\* The route logs, between two awaits.
RouteLogs(r) ==
  /\ InRoute(r) /\ http[r].said < MaxLines
  /\ Set(r, [http[r] EXCEPT !.said = @ + 1])
  /\ log' = log \cup {Line(r, "route", "info", Absent)}
  /\ UNCHANGED <<stack, bound>>

RouteAnswers(r) ==
  /\ InRoute(r)
  /\ Set(r, [Outwards(r) EXCEPT !.status = 200])
  /\ UNCHANGED <<stack, bound, log>>

\* exception_handler: the answer has the exception's status, and its body an id
\* that to_dict makes up.
RouteRaisesPlatform(r) ==
  /\ InRoute(r)
  /\ \E status \in PlatformStatuses :
       Set(r, [Outwards(r) EXCEPT !.status = status, !.body = MintedBody(r)])
  /\ UNCHANGED <<stack, bound, log>>

RouteRaises(r) ==
  /\ InRoute(r)
  /\ Set(r, [Outwards(r) EXCEPT !.raised = TRUE])
  /\ UNCHANGED <<stack, bound, log>>

\* RequestLoggingMiddleware: an exception passes it without a line.
LogOut(r) ==
  /\ At(r, "log", "out")
  /\ Set(r, Outwards(r))
  /\ log' = IF http[r].raised \/ http[r].path \in Excluded THEN log
            ELSE log \cup {Line(r, "completed", LevelOf(http[r].status), Absent)}
  /\ UNCHANGED <<stack, bound>>

\* The id is echoed, unless an exception passes by.
CorrelateOut(r) ==
  /\ At(r, "correlate", "out")
  /\ Set(r, IF http[r].raised THEN Outwards(r) ELSE [Outwards(r) EXCEPT !.header = http[r].id])
  /\ log' = log \cup Completed(r)
  /\ UNCHANGED <<stack, bound>>

\* ErrorHandlingMiddleware: an exception becomes a 500 that carries the id of
\* the request's state in its header and its body, and a traceback with it.
ErrorsOut(r) ==
  /\ At(r, "errors", "out")
  /\ Set(r, IF ~http[r].raised THEN Outwards(r)
            ELSE [Outwards(r) EXCEPT !.raised = FALSE, !.status = 500, !.header = http[r].id,
                                     !.body = http[r].id])
  /\ log' = IF ~http[r].raised THEN log
            ELSE log \cup {Line(r, "unhandled", "error", http[r].id)}
  /\ UNCHANGED <<stack, bound>>

HttpNext ==
  \E r \in HttpRequests :
    \/ Arrive(r) \/ PassIn(r) \/ Correlate(r)
    \/ RouteLogs(r) \/ RouteAnswers(r) \/ RouteRaisesPlatform(r) \/ RouteRaises(r)
    \/ LogOut(r) \/ CorrelateOut(r) \/ ErrorsOut(r)

HttpSpec == HttpInit /\ [][HttpNext]_httpVars
-----------------------------------------------------------------------------
EndsWith(r, event) == \E l \in log : l.by = r /\ l.event = event

\* However requests alternate, every line about a request has its id, and so has
\* its answer, unless an exception went through the gateway's middleware.  With
\* the platform's stack every failure (status 5xx) but a probe's leaves a line of
\* level error under the id of the answer's header, a crash of the route a
\* traceback in place of the line that reports the request as completed.
FailuresTraceable ==
  /\ \A l \in log : l.id = IdOf(l.by)
  /\ \A r \in HttpRequests : http[r].dir = "done" =>
       /\ http[r].raised => stack = "gateway"
       /\ ~http[r].raised => http[r].header = IdOf(r)
       /\ stack = "platform" /\ http[r].status >= 500 =>
            \/ http[r].path \in Excluded /\ http[r].body = MintedBody(r)
            \/ \E l \in log : l.by = r /\ l.level = "error" /\ l.id = http[r].header
       /\ stack = "platform" => ~(EndsWith(r, "completed") /\ EndsWith(r, "unhandled"))
       /\ http[r].path = "api" /\ ~http[r].raised =>
            EndsWith(r, "completed") \/ EndsWith(r, "unhandled")
=============================================================================
