--------------------------- MODULE MCOrchestrator ---------------------------
(***************************************************************************)
(* Instances of Orchestrator for TLC.                                      *)
(***************************************************************************)
EXTENDS Orchestrator, TLC

\* The ends of the range, which already lead to all four decisions, and a sum
\* of negative contributions.
Replies == {-10, 0, 100}
=============================================================================
