----------------------------- MODULE MCServices -----------------------------
(***************************************************************************)
(* The services behind a decision: two of the engines the orchestrator     *)
(* calls, and those that follow up an alert.  They share no state but      *)
(* topics, so one run explores them side by side: part says which of them  *)
(* a behaviour runs, the others stay in their initial state.  The          *)
(* consumers of AlertCases and its API touch different rows and are        *)
(* explored apart too, but for an alert posted while the consumers run.    *)
(* A last part is the start and the stop of one service.                   *)
(***************************************************************************)
EXTENDS RuleEngine, GraphAnalysis, AlertCases, ServiceLifecycle, TLC

VARIABLE part

engineVars == <<ruleVars, graphVars>>
serviceVars == <<engineVars, caseVars, lifeVars, part>>

\* The critical rule of seed_rules and its velocity rule, with the limit 1 instead
\* of 5.
SomeRules ==
  {[name |-> "1002", entity |-> "none", limit |-> 0, critical |-> TRUE, points |-> 8],
   [name |-> "1003", entity |-> "card_number", limit |-> 1, critical |-> FALSE, points |-> 5]}

\* Sets whose members are interchangeable; no liveness is checked.
Alike == Permutations(Evaluations)

\* What the first analysis is about stands for any card, device and address.
FirstRequest ==
  [card |-> CHOOSE c \in Cards : TRUE, device |-> CHOOSE d \in Devices : TRUE,
   ip |-> CHOOSE i \in IPs : TRUE]

ServicesInit ==
  /\ RuleInit /\ GraphInit /\ CaseInit /\ LifeInit
  /\ part \in {"rules", "graph", "pipeline", "desk", "lifecycle"}
  /\ part # "lifecycle" => service = "alerts"
  /\ part # "rules" => \A e \in Evaluations : ctx[e] = [n \in Entities |-> Missing]
  /\ \A a \in Analyses : part # "graph" \/ a = 1 => calls[a].req = FirstRequest

RuleStep ==
  part = "rules" /\ RuleNext /\ UNCHANGED <<graphVars, caseVars, lifeVars, part>>
GraphStep ==
  part = "graph" /\ GraphNext /\ UNCHANGED <<ruleVars, caseVars, lifeVars, part>>
PipelineStep ==
  /\ part = "pipeline" /\ UNCHANGED <<engineVars, lifeVars, part>>
  /\ PipelineNext \/ (posted = 0 /\ CreateAlert)
DeskStep ==
  part = "desk" /\ DeskNext /\ UNCHANGED <<engineVars, lifeVars, part>>
LifeStep ==
  part = "lifecycle" /\ LifeNext /\ UNCHANGED <<engineVars, caseVars, part>>

ServicesNext == RuleStep \/ GraphStep \/ PipelineStep \/ DeskStep \/ LifeStep

ServicesSpec == ServicesInit /\ [][ServicesNext]_serviceVars

\* Every service's state is well-typed.
ServicesTypeOK == RuleTypeOK /\ GraphTypeOK /\ CaseTypeOK /\ LifeTypeOK
=============================================================================
