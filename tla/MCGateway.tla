----------------------------- MODULE MCGateway ------------------------------
(***************************************************************************)
(* The four components a browser talks to, and the middleware around their *)
(* routes.  They share no state, so one run explores them side by side:    *)
(* part says which of them a behaviour runs, and the others stay in their  *)
(* initial state.                                                          *)
(***************************************************************************)
EXTENDS Ingestion, LiveFeed, Dashboard, Metrics, HttpStack

VARIABLE part

gatewayVars == <<ingestVars, feedVars, dashVars, metricsVars, httpVars, part>>

GatewayInit ==
  /\ IngestInit /\ FeedInit /\ DashInit /\ MetricsInit /\ HttpInit
  /\ part \in {"ingestion", "feed", "dashboard", "metrics", "http"}
  /\ part # "http" => stack = "platform"

IngestStep ==
  /\ part = "ingestion" /\ IngestNext
  /\ UNCHANGED <<feedVars, dashVars, metricsVars, httpVars, part>>
FeedStep ==
  part = "feed" /\ FeedNext /\ UNCHANGED <<ingestVars, dashVars, metricsVars, httpVars, part>>
DashStep ==
  /\ part = "dashboard" /\ DashNext
  /\ UNCHANGED <<ingestVars, feedVars, metricsVars, httpVars, part>>
MetricsStep ==
  part = "metrics" /\ MetricsNext /\ UNCHANGED <<ingestVars, feedVars, dashVars, httpVars, part>>
HttpStep ==
  part = "http" /\ HttpNext /\ UNCHANGED <<ingestVars, feedVars, dashVars, metricsVars, part>>

GatewayNext == IngestStep \/ FeedStep \/ DashStep \/ MetricsStep \/ HttpStep

GatewaySpec == GatewayInit /\ [][GatewayNext]_gatewayVars /\ IngestFairness

\* Every component's state is well-typed.
GatewayTypeOK == IngestTypeOK /\ FeedTypeOK /\ DashTypeOK /\ MetricsTypeOK /\ HttpTypeOK
=============================================================================
