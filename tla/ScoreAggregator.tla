-------------------------- MODULE ScoreAggregator --------------------------
(***************************************************************************)
(* ScoreAggregator of the fraud orchestrator, in hundredths: a score of 60 *)
(* is 0.60 and a weight of 40 is 0.40, so that a weighted sum is in ten    *)
(* thousandths.  The sums are exact, where the code's are floats.          *)
(***************************************************************************)
EXTENDS Integers

Engine == {"rule", "ml", "graph", "history"}
Score == 0..100

\* The weights and thresholds OrchestratorApp.consume uses.
Weights == [rule |-> 40, ml |-> 40, graph |-> 20, history |-> 0]
Thresholds == [approve |-> 3000, review |-> 6000, high_risk |-> 8500]

\* aggregate() rejects scores out of range and weights that do not add up to
\* 1.0, give or take 0.01.
ValidScores(s) == \A e \in Engine : s[e] \in Score

WeightSum(w) == w.rule + w.ml + w.graph + w.history
ValidWeights(w) == WeightSum(w) \in 99..101

Accepted(s, w) == ValidScores(s) /\ ValidWeights(w)

Clamp(x) == IF x < 0 THEN 0 ELSE IF x > 10000 THEN 10000 ELSE x

Aggregate(s, w) ==
  Clamp(w.rule * s.rule + w.ml * s.ml + w.graph * s.graph
        + w.history * s.history)

Decision == {"approve", "review", "decline", "block"}

MakeDecision(score, t) ==
  IF score <= t.approve THEN "approve"
  ELSE IF score <= t.review THEN "review"
  ELSE IF score <= t.high_risk THEN "decline"
  ELSE "block"

\* consume() passes the answers of three engines and no history, and reaches
\* this decision from them.
Scores(rule, ml, graph) ==
  [rule |-> rule, ml |-> ml, graph |-> graph, history |-> 0]

Decide(rule, ml, graph) ==
  MakeDecision(Aggregate(Scores(rule, ml, graph), Weights), Thresholds)

\* How severe a decision is.
Severity(d) ==
  CASE d = "approve" -> 0
    [] d = "review" -> 1
    [] d = "decline" -> 2
    [] d = "block" -> 3
=============================================================================
