------------------------- MODULE OrchestratorProofs -------------------------
(***************************************************************************)
(* Proofs about ScoreAggregator and Orchestrator: a decision grows with    *)
(* the scores, whatever the weights and thresholds, so an engine that      *)
(* fails can only make it milder; and a transaction is published twice,    *)
(* or passed over, only at the price of a fault.                           *)
(***************************************************************************)
EXTENDS Orchestrator, CountingLemmas, TLAPS

\* A product grows with its factor.
LEMMA ProductMonotone ==
  ASSUME NEW a \in Nat, NEW x \in Nat, NEW y \in Nat, x <= y
  PROVE  a * x <= a * y
<1>1. PICK d \in Nat : y = x + d
  <2>1. y - x \in Nat /\ y = x + (y - x)
    OBVIOUS
  <2> QED BY <2>1
<1>2. a * d \in Nat
  OBVIOUS
<1>3. a * y = a * x + a * d
  BY <1>1
<1> QED BY <1>2, <1>3

\* Higher scores never lead to a milder decision, for any weights and any
\* ordered thresholds (aggregate and make_decision, score_aggregator.py 46-161).
THEOREM DecisionMonotone ==
  ASSUME NEW s \in [Engine -> Score], NEW t \in [Engine -> Score],
         \A e \in Engine : s[e] <= t[e],
         NEW w \in [Engine -> Nat],
         NEW th \in [{"approve", "review", "high_risk"} -> Nat],
         th.approve <= th.review, th.review <= th.high_risk
  PROVE  Severity(MakeDecision(Aggregate(s, w), th))
           <= Severity(MakeDecision(Aggregate(t, w), th))
<1> DEFINE sum(u) == w.rule * u.rule + w.ml * u.ml + w.graph * u.graph
                     + w.history * u.history
<1>1. ASSUME NEW e \in Engine PROVE w[e] * s[e] <= w[e] * t[e]
  <2>1. w[e] \in Nat /\ s[e] \in Nat /\ t[e] \in Nat /\ s[e] <= t[e]
    BY DEF Score
  <2> QED BY <2>1, ProductMonotone
<1>2. ASSUME NEW e \in Engine PROVE w[e] * s[e] \in Int /\ w[e] * t[e] \in Int
  <2>1. w[e] \in Int /\ s[e] \in Int /\ t[e] \in Int
    BY DEF Score
  <2> QED BY <2>1
<1>3. sum(s) \in Int /\ sum(t) \in Int /\ sum(s) <= sum(t)
  BY <1>1, <1>2 DEF Engine
<1>4. Clamp(sum(s)) <= Clamp(sum(t)) /\ Clamp(sum(s)) \in Int /\ Clamp(sum(t)) \in Int
  BY <1>3 DEF Clamp
<1>5. Aggregate(s, w) = Clamp(sum(s)) /\ Aggregate(t, w) = Clamp(sum(t))
  BY DEF Aggregate
<1> HIDE DEF sum
<1> QED BY <1>4, <1>5 DEF MakeDecision, Severity

-----------------------------------------------------------------------------
\* The loop's variables have their types.
ScoringInv ==
  /\ pc \in [Replica -> {"idle", "score", "publish", "dead", "down"} \cup Counter]
  /\ decision \in [Replica -> Decision]
  /\ degraded \in [Replica -> BOOLEAN]

\* Nothing was decided when the replicas start.
LEMMA InitScoringInv == OrchInit => ScoringInv
BY DEF OrchInit, ScoringInv, Counter, Decision

\* A transaction that is scored gets a decision.
LEMMA ScoreTxInv ==
  ASSUME ScoringInv, NEW w \in Replica, ScoreTx(w)
  PROVE  ScoringInv'
<1>1. PICK down \in SUBSET Called, s \in [Called -> Reply] :
        /\ decision' = [decision EXCEPT ![w] =
             Decide(Answer(down, s, "rule"), Answer(down, s, "ml"),
                    Answer(down, s, "graph"))]
        /\ degraded' = [degraded EXCEPT ![w] = down # {}]
  BY DEF ScoreTx
<1>2. \A x, y, z : Decide(x, y, z) \in Decision
  BY DEF Decide, MakeDecision, Decision
<1>3. pc' = [pc EXCEPT ![w] = "publish"]
  BY DEF ScoreTx, Goto
<1> QED BY <1>1, <1>2, <1>3 DEF ScoringInv

\* A loop that leaves its record forgets the decision on it.
LEMMA LeaveInv ==
  ASSUME ScoringInv, NEW w \in Replica,
         NEW label \in {"idle", "dead", "down"}, Leave(w, label)
  PROVE  ScoringInv'
BY DEF ScoringInv, Leave, Goto, Decision, Counter

\* A loop that keeps its record keeps the decision on it.
LEMMA MoveInv ==
  ASSUME ScoringInv, NEW w \in Replica,
         NEW label \in {"idle", "score", "total"} \cup Counter, Goto(w, label),
         UNCHANGED <<decision, degraded>>
  PROVE  ScoringInv'
BY DEF ScoringInv, Goto, Counter

\* The rest of the loop hands the decision on.
LEMMA LoopInv ==
  ASSUME ScoringInv, NEW w \in Replica, Loop(w)
  PROVE  ScoringInv'
<1>1. CASE FetchTx(w)
  BY <1>1, MoveInv DEF FetchTx, Counter
<1>2. CASE FetchEmpty(w)
  BY <1>2 DEF FetchEmpty, ScoringInv
<1>3. CASE FetchBad(w) \/ ScoreRejected(w) \/ PublishRaises(w) \/ CountRaises(w)
  BY <1>3, LeaveInv DEF FetchBad, ScoreRejected, PublishRaises, CountRaises
<1>4. CASE ScoreTx(w)
  BY <1>4, ScoreTxInv
<1>5. CASE FetchOdd(w)
  BY <1>5 DEF FetchOdd, Goto, ScoringInv, Counter
<1>6. CASE Publish(w)
  BY <1>6, MoveInv DEF Publish, Counter
<1>7. CASE Count(w)
  <2>1. CASE Following(w, pc[w]) = "idle"
    BY <1>7, <2>1, LeaveInv DEF Count
  <2>2. CASE Following(w, pc[w]) # "idle"
    <3>1. Following(w, pc[w]) \in Counter
      BY <2>2 DEF Following, Counter
    <3> QED BY <1>7, <2>2, <3>1, MoveInv DEF Count
  <2> QED BY <2>1, <2>2
<1> QED BY <1>1, <1>2, <1>3, <1>4, <1>5, <1>6, <1>7 DEF Loop

\* ScoringInv is inductive.
LEMMA ScoringInvStep == ScoringInv /\ [OrchNext]_orchVars => ScoringInv'
<1> SUFFICES ASSUME ScoringInv, [OrchNext]_orchVars PROVE ScoringInv'
  OBVIOUS
<1>1. CASE UNCHANGED <<pc, decision, degraded>>
  BY <1>1 DEF ScoringInv
<1>2. ASSUME NEW w \in Replica, Start(w) PROVE ScoringInv'
  BY <1>2, MoveInv DEF Start, Counter
<1>3. ASSUME NEW w \in Replica, Crash(w) \/ Stop(w) PROVE ScoringInv'
  BY <1>3, LeaveInv DEF Crash, Stop, Exit
<1> QED
  BY <1>1, <1>2, <1>3, LoopInv
     DEF OrchNext, Ingest, Assign, AutoCommit, orchVars, loop
-----------------------------------------------------------------------------
\* Type correctness.  The offsets a replica remembers stay inside the log.

\* The actions of replica w that leave the log alone.
Step(w) ==
  Loop(w) \/ Start(w) \/ Assign(w) \/ AutoCommit(w) \/ Crash(w) \/ Stop(w)

\* The initial state is well-typed.
LEMMA InitOrchTypeOK == OrchInit => OrchTypeOK
BY OrchestratorAssumption DEF OrchInit, OrchTypeOK, Decision, Counter, Offset

\* A producer appends one well-formed record.
LEMMA IngestTypeOK ==
  ASSUME OrchTypeOK, NEW k \in Kind, Ingest(k)
  PROVE  /\ OrchTypeOK'
         /\ Len(log') = Len(log) + 1
         /\ \A o \in 1..Len(log) : log'[o] = log[o]
<1>1. /\ log' = Append(log, k) /\ log \in Seq(Kind) /\ Len(log) < MaxTx
      /\ UNCHANGED <<committed, loop, metrics, faults, evaluated, jumped>>
  BY DEF Ingest, OrchTypeOK
<1>2. /\ log' \in Seq(Kind) /\ Len(log') = Len(log) + 1
      /\ \A o \in 1..Len(log) : log'[o] = log[o]
  BY <1>1
<1>3. Len(log) \in Nat /\ Len(log') \in Nat /\ Len(log') <= MaxTx
  BY <1>1, <1>2, OrchestratorAssumption
<1>4. /\ committed' \in -1..Len(log')
      /\ position' \in [Replica -> 0..Len(log')]
      /\ cur' \in [Replica -> 0..Len(log')]
  <2>1. 0..Len(log) \subseteq 0..Len(log') /\ -1..Len(log) \subseteq -1..Len(log')
    BY <1>2, <1>3
  <2> QED BY <1>1, <2>1 DEF OrchTypeOK, loop
<1> QED BY <1>1, <1>2, <1>3, <1>4 DEF OrchTypeOK, loop

\* A replica that puts its record down holds offset 0, which is in range.
LEMMA LeaveCur ==
  ASSUME OrchTypeOK, NEW w \in Replica, NEW label, Leave(w, label)
  PROVE  cur' \in [Replica -> 0..Len(log)]
<1>1. 0 \in 0..Len(log) /\ cur \in [Replica -> 0..Len(log)]
  BY DEF OrchTypeOK
<1> QED BY <1>1 DEF Leave

\* The consume loop keeps the types.
LEMMA LoopTypeOK ==
  ASSUME OrchTypeOK, ScoringInv', NEW w \in Replica, Loop(w)
  PROVE  OrchTypeOK'
<1> USE OrchestratorAssumption DEF OrchTypeOK, kafka
<1>0. Len(log) \in Nat
  OBVIOUS
<1>1. CASE FetchTx(w)
  <2>1. position[w] + 1 \in 0..Len(log)
    BY <1>0, <1>1 DEF FetchTx, CanFetch
  <2> QED BY <1>1, <2>1 DEF FetchTx, ScoringInv
<1>2. CASE FetchEmpty(w) \/ FetchOdd(w)
  <2>1. position[w] + 1 \in 0..Len(log)
    BY <1>0, <1>2 DEF FetchEmpty, FetchOdd, CanFetch
  <2> QED BY <1>2, <2>1 DEF FetchEmpty, FetchOdd, ScoringInv
<1>3. CASE FetchBad(w)
  BY <1>3, LeaveCur DEF FetchBad, ScoringInv
<1>4. CASE ScoreTx(w) \/ ScoreRejected(w)
  <2>1. cur' \in [Replica -> 0..Len(log)]
    BY <1>4, LeaveCur DEF ScoreTx, ScoreRejected
  <2>2. faults' \in 0..MaxFaults
    BY <1>4 DEF ScoreTx, ScoreRejected, Fault
  <2> QED BY <1>4, <2>1, <2>2 DEF ScoreTx, ScoreRejected, ScoringInv
<1>5. CASE Publish(w) \/ PublishRaises(w)
  <2>1. evaluated' \in [Offset -> Nat]
    BY <1>5 DEF Publish, PublishRaises, Evaluate
  <2>2. cur' \in [Replica -> 0..Len(log)] /\ faults' \in 0..MaxFaults
    BY <1>5, LeaveCur DEF Publish, PublishRaises, Fault
  <2> QED BY <1>5, <2>1, <2>2 DEF Publish, PublishRaises, ScoringInv
<1>6. CASE Count(w) \/ CountRaises(w)
  <2>1. metrics' \in [Counter -> Nat]
    <3>1. metrics' = metrics \/ metrics' = [metrics EXCEPT ![pc[w]] = @ + 1]
      BY <1>6 DEF Count, CountRaises, Increment
    <3>2. metrics \in [Counter -> Nat]
      OBVIOUS
    <3> HIDE DEF OrchTypeOK
    <3> QED BY <3>1, <3>2
  <2>2. cur' \in [Replica -> 0..Len(log)]
    BY <1>6, LeaveCur DEF Count, CountRaises
  <2>3. faults' \in 0..MaxFaults
    BY <1>6 DEF Count, CountRaises, Fault
  <2> QED BY <1>6, <2>1, <2>2, <2>3 DEF Count, CountRaises, ScoringInv
<1> QED BY <1>1, <1>2, <1>3, <1>4, <1>5, <1>6 DEF Loop

\* So does everything else a replica does or suffers.
LEMMA StepOrchTypeOK ==
  ASSUME OrchTypeOK, ScoringInv', NEW w \in Replica, Step(w)
  PROVE  OrchTypeOK'
<1> USE OrchestratorAssumption DEF OrchTypeOK
<1>0. Len(log) \in Nat
  OBVIOUS
<1>1. CASE Loop(w)
  BY <1>1, LoopTypeOK
<1>2. CASE Start(w)
  BY <1>2 DEF Start, kafka, ScoringInv
<1>3. CASE Assign(w)
  <2>1. committed' \in -1..Len(log)
    <3>1. /\ committed \in -1..Len(log)
          /\ \A v \in Replica : position[v] \in -1..Len(log)
      BY <1>0
    <3>2. committed' = committed \/ \E v \in Replica : committed' = position[v]
      BY <1>3 DEF Assign
    <3> QED BY <3>1, <3>2
  <2>2. position' \in [Replica -> 0..Len(log)]
    <3>1. \A v \in Replica :
            (IF v # w THEN 0 ELSE IF committed' = -1 THEN Len(log) ELSE committed')
              \in 0..Len(log)
      BY <1>0, <2>1
    <3>2. position' = [v \in Replica |->
            IF v # w THEN 0 ELSE IF committed' = -1 THEN Len(log) ELSE committed']
      BY <1>3 DEF Assign
    <3> QED BY <3>1, <3>2
  <2>3. jumped' \in SUBSET Offset
    <3>1. 1..Len(log) \subseteq Offset /\ jumped \subseteq Offset
      BY <1>0 DEF Offset
    <3>2. jumped' = jumped \/ jumped' = jumped \cup (1..Len(log))
      BY <1>3 DEF Assign
    <3> HIDE DEF OrchTypeOK
    <3> QED BY <3>1, <3>2
  <2>4. owner' \in [Replica -> BOOLEAN]
    BY <1>3 DEF Assign
  <2>5. faults' \in 0..MaxFaults
    BY <1>3 DEF Assign, Fault
  <2> QED BY <1>3, <2>1, <2>2, <2>3, <2>4, <2>5 DEF Assign
<1>4. CASE AutoCommit(w)
  BY <1>0, <1>4 DEF AutoCommit, loop
<1>5. CASE Crash(w) \/ Stop(w)
  <2>1. Exit(w)
    BY <1>5 DEF Crash, Stop
  <2>2. committed' \in -1..Len(log)
    BY <1>0, <1>5 DEF Crash, Stop
  <2>3. /\ cur' \in [Replica -> 0..Len(log)]
        /\ position' \in [Replica -> 0..Len(log)]
        /\ owner' \in [Replica -> BOOLEAN]
        /\ faults' \in 0..MaxFaults
    BY <1>0, <2>1, LeaveCur DEF Exit, Fault
  <2> QED BY <2>1, <2>2, <2>3 DEF Exit, ScoringInv
<1> QED BY <1>1, <1>2, <1>3, <1>4, <1>5 DEF Step

\* OrchTypeOK is inductive, given ScoringInv.
LEMMA OrchTypeOKStep ==
  OrchTypeOK /\ ScoringInv /\ [OrchNext]_orchVars => OrchTypeOK'
<1> SUFFICES ASSUME OrchTypeOK, ScoringInv, [OrchNext]_orchVars
             PROVE  OrchTypeOK'
  OBVIOUS
<1>1. ScoringInv'
  BY ScoringInvStep
<1>2. ASSUME NEW k \in Kind, Ingest(k) PROVE OrchTypeOK'
  BY <1>2, IngestTypeOK
<1>3. ASSUME NEW w \in Replica, Step(w) PROVE OrchTypeOK'
  BY <1>1, <1>3, StepOrchTypeOK
<1>4. CASE UNCHANGED orchVars
  BY <1>4 DEF orchVars, kafka, loop, OrchTypeOK
<1> QED BY <1>2, <1>3, <1>4 DEF OrchNext, Step

\* Every variable keeps its type: committed offsets, positions and the records
\* in hand never point behind the end of the topic.
THEOREM OrchTypeCorrect == OrchSpec => []OrchTypeOK
<1>1. OrchSpec => []ScoringInv
  BY InitScoringInv, ScoringInvStep, PTL DEF OrchSpec
<1> QED BY <1>1, InitOrchTypeOK, OrchTypeOKStep, PTL DEF OrchSpec
-----------------------------------------------------------------------------
\* Replicas that run, and what a step of w leaves alone.
Awake == {w \in Replica : pc[w] # "down"}

\* A step of one replica leaves the others and the topic alone.
LEMMA StepFrame ==
  ASSUME OrchTypeOK, NEW w \in Replica, Step(w)
  PROVE  /\ UNCHANGED log
         /\ \A v \in Replica \ {w} :
              pc'[v] = pc[v] /\ cur'[v] = cur[v] /\ decision'[v] = decision[v]
         /\ faults' \in {faults, faults + 1} /\ faults \in Nat
<1> USE DEF OrchTypeOK, kafka, loop, Goto, Leave, Fault
<1>1. CASE Start(w) BY <1>1 DEF Start
<1>2. CASE Assign(w) BY <1>2 DEF Assign
<1>3. CASE AutoCommit(w) BY <1>3 DEF AutoCommit
<1>4. CASE Crash(w) \/ Stop(w) BY <1>4 DEF Crash, Stop, Exit
<1>5. CASE FetchTx(w) BY <1>5 DEF FetchTx
<1>6. CASE FetchEmpty(w) BY <1>6 DEF FetchEmpty
<1>7. CASE FetchBad(w) BY <1>7 DEF FetchBad
<1>8. CASE FetchOdd(w) BY <1>8 DEF FetchOdd
<1>9. CASE ScoreTx(w)
  <2>1. \E d \in Decision : decision' = [decision EXCEPT ![w] = d]
    BY <1>9 DEF ScoreTx, Decide, MakeDecision, Decision
  <2> QED BY <1>9, <2>1 DEF ScoreTx
<1>10. CASE ScoreRejected(w) BY <1>10 DEF ScoreRejected
<1>11. CASE Publish(w) BY <1>11 DEF Publish
<1>12. CASE PublishRaises(w) BY <1>12 DEF PublishRaises
<1>13. CASE Count(w) BY <1>13 DEF Count
<1>14. CASE CountRaises(w) BY <1>14 DEF CountRaises
<1> QED
  BY <1>1, <1>2, <1>3, <1>4, <1>5, <1>6, <1>7, <1>8, <1>9, <1>10, <1>11, <1>12,
     <1>13, <1>14 DEF Step, Loop

\* The set of processes that run stays finite.
LEMMA AwakeStep ==
  ASSUME OrchTypeOK, IsFiniteSet(Awake), [OrchNext]_orchVars
  PROVE  IsFiniteSet(Awake')
<1>1. ASSUME NEW w \in Replica, Step(w) PROVE IsFiniteSet(Awake')
  <2>1. IsFiniteSet(Awake \cup {w})
    BY FS_AddElement
  <2>2. Awake' \subseteq Awake \cup {w}
    BY <1>1, StepFrame DEF Awake
  <2> QED BY <2>1, <2>2, FS_Subset
<1>2. CASE UNCHANGED pc
  BY <1>2 DEF Awake
<1> QED BY <1>1, <1>2 DEF OrchNext, Step, Ingest, loop, orchVars
-----------------------------------------------------------------------------
\* Repeats need faults.  One replica owns the partition, and what may still be
\* published about offset o for the faults so far is: what the replicas that
\* hold it will publish, and what the owner, or the next one, will once it has
\* fetched it.
OneOwner == \A v, w \in Replica : owner[v] /\ owner[w] => v = w
Scoring(w, o) == cur[w] = o /\ pc[w] \in {"score", "publish"}
Holders(o) == {w \in Replica : Scoring(w, o)}
Passed(o) == \E w \in Replica : owner[w] /\ position[w] >= o

RepeatInv ==
  /\ IsFiniteSet(Awake)
  /\ OneOwner
  /\ \A o \in Offset :
       evaluated[o] + Cardinality(Holders(o)) + (IF Passed(o) THEN 0 ELSE 1)
         <= 1 + faults

\* The partition never has two owners.
LEMMA StepOneOwner ==
  ASSUME OrchTypeOK, OneOwner, NEW w \in Replica, Step(w)
  PROVE  OneOwner'
<1>1. CASE Assign(w)
  BY <1>1 DEF Assign, OneOwner
<1>2. CASE Crash(w) \/ Stop(w)
  BY <1>2 DEF Crash, Stop, Exit, OneOwner, OrchTypeOK
<1>3. CASE ~(Assign(w) \/ Crash(w) \/ Stop(w))
  <2>1. UNCHANGED owner
    BY <1>3 DEF Step, Loop, Start, AutoCommit, FetchTx, FetchEmpty, FetchBad,
       FetchOdd, ScoreTx, ScoreRejected, Publish, PublishRaises, Count,
       CountRaises, loop
  <2> QED BY <2>1 DEF OneOwner
<1> QED BY <1>1, <1>2, <1>3

\* A step of w pays for what it adds to the books of offset o.
LEMMA StepPays ==
  ASSUME OrchTypeOK, OneOwner, NEW w \in Replica, Step(w), NEW o \in Offset
  PROVE  evaluated'[o] + (IF Scoring(w, o)' THEN 1 ELSE 0)
           + (IF Passed(o)' THEN 0 ELSE 1) - faults'
         <= evaluated[o] + (IF Scoring(w, o) THEN 1 ELSE 0)
           + (IF Passed(o) THEN 0 ELSE 1) - faults
<1>0. /\ pc \in [Replica -> {"idle", "score", "publish", "dead", "down"} \cup Counter]
      /\ owner \in [Replica -> BOOLEAN]
      /\ position \in [Replica -> 0..Len(log)] /\ Len(log) \in Nat
      /\ cur \in [Replica -> 0..Len(log)]
      /\ evaluated \in [Offset -> Nat] /\ faults \in Nat /\ o \in Nat
  BY DEF OrchTypeOK, Offset
<1>1. CASE FetchTx(w) \/ FetchEmpty(w) \/ FetchOdd(w)
  <2>1. /\ owner[w] /\ UNCHANGED <<owner, evaluated, faults>>
        /\ position' = [position EXCEPT ![w] = @ + 1]
        /\ pc[w] = "idle"
    BY <1>1 DEF FetchTx, FetchEmpty, FetchOdd, CanFetch
  <2>2. Scoring(w, o)' => o = position[w] + 1
    BY <1>0, <1>1, <2>1 DEF FetchTx, FetchEmpty, FetchOdd, Scoring, Goto
  <2>3. Passed(o) <=> position[w] >= o
    BY <2>1 DEF Passed, OneOwner
  <2>4. Passed(o)' <=> position[w] + 1 >= o
    <3>1. \A v \in Replica : owner'[v] => v = w
      BY <2>1 DEF OneOwner
    <3>2. position'[w] = position[w] + 1
      BY <1>0, <2>1
    <3> QED BY <2>1, <3>1, <3>2 DEF Passed
  <2>5. ~Scoring(w, o)
    BY <2>1 DEF Scoring
  <2>6. position[w] \in Nat
    BY <1>0
  <2> QED BY <1>0, <2>1, <2>2, <2>3, <2>4, <2>5, <2>6
<1>2. CASE Publish(w) \/ PublishRaises(w)
  <2>1. pc[w] = "publish" /\ UNCHANGED <<owner, position>> /\ ~Scoring(w, o)'
    BY <1>0, <1>2 DEF Publish, PublishRaises, Scoring, Goto, Leave
  <2>2. evaluated'[o] \in Nat /\ evaluated'[o] <=
          evaluated[o] + (IF Scoring(w, o) THEN 1 ELSE 0)
    BY <1>0, <1>2, <2>1 DEF Publish, PublishRaises, Evaluate, Scoring
  <2>3. faults' \in Nat /\ faults' >= faults
    BY <1>0, <1>2 DEF Publish, PublishRaises, Fault
  <2>4. Passed(o)' <=> Passed(o)
    BY <2>1 DEF Passed
  <2> QED BY <1>0, <2>1, <2>2, <2>3, <2>4
<1>3. CASE Assign(w)
  <2>1. UNCHANGED <<pc, cur, evaluated>>
    BY <1>3 DEF Assign
  <2>2. \/ ~Passed(o) /\ faults' = faults
        \/ faults' = faults + 1
    BY <1>3 DEF Assign, Unowned, Passed, Fault
  <2> QED BY <1>0, <2>1, <2>2 DEF Scoring
<1>4. CASE Crash(w) \/ Stop(w)
  <2>1. UNCHANGED evaluated /\ faults' = faults + 1 /\ ~Scoring(w, o)'
    BY <1>0, <1>4 DEF Crash, Stop, Exit, Fault, Leave, Goto, Scoring
  <2> QED BY <1>0, <2>1
<1>5. CASE ~(FetchTx(w) \/ FetchEmpty(w) \/ FetchOdd(w) \/ Publish(w)
             \/ PublishRaises(w) \/ Assign(w) \/ Crash(w) \/ Stop(w))
  <2>1. UNCHANGED <<owner, position, evaluated>>
    BY <1>5 DEF Step, Loop, Start, AutoCommit, FetchBad, ScoreTx,
       ScoreRejected, Count, CountRaises, loop
  <2>2. Scoring(w, o)' => Scoring(w, o)
    BY <1>0, <1>5 DEF Step, Loop, Start, AutoCommit, FetchBad, ScoreTx,
       ScoreRejected, Count, CountRaises, loop, Leave, Goto, Scoring,
       Following, Counter
  <2>3. faults' \in Nat /\ faults' >= faults
    <3>1. faults' \in {faults, faults + 1}
      BY StepFrame
    <3> QED BY <1>0, <3>1
  <2>4. Passed(o)' <=> Passed(o)
    BY <2>1 DEF Passed
  <2> QED BY <1>0, <2>1, <2>2, <2>3, <2>4
<1> QED BY <1>1, <1>2, <1>3, <1>4, <1>5

\* A step publishes at most one decision about a transaction.
LEMMA EvaluatedStep ==
  ASSUME OrchTypeOK, NEW w \in Replica, Step(w)
  PROVE  \A o \in Offset : evaluated'[o] \in {evaluated[o], evaluated[o] + 1}
<1>1. CASE Publish(w) \/ PublishRaises(w)
  BY <1>1 DEF Publish, PublishRaises, Evaluate, OrchTypeOK
<1>2. CASE ~(Publish(w) \/ PublishRaises(w))
  BY <1>2 DEF Step, Loop, Start, Assign, AutoCommit, Crash, Stop, Exit, FetchTx,
     FetchEmpty, FetchBad, FetchOdd, ScoreTx, ScoreRejected, Count, CountRaises
<1> QED BY <1>1, <1>2

\* Only replicas that are awake hold a transaction.
LEMMA HoldersFinite ==
  ASSUME IsFiniteSet(Awake), NEW o
  PROVE  IsFiniteSet(Holders(o)) /\ Cardinality(Holders(o)) \in Nat
<1>1. Holders(o) \subseteq Awake
  BY DEF Holders, Scoring, Awake
<1> QED BY <1>1, FS_Subset, FS_CardinalityType

\* A further evaluation of a transaction is paid for by a fault.
LEMMA StepRepeatInv ==
  ASSUME OrchTypeOK, RepeatInv, IsFiniteSet(Awake'), NEW w \in Replica, Step(w)
  PROVE  RepeatInv'
<1>1. ASSUME NEW o \in Offset
      PROVE  evaluated'[o] + Cardinality(Holders(o)')
               + (IF Passed(o)' THEN 0 ELSE 1) <= 1 + faults'
  <2>1. Holders(o) \ {w} = Holders(o)' \ {w}
    BY StepFrame DEF Holders, Scoring
  <2>2. IsFiniteSet(Holders(o)')
    <3>1. Holders(o)' \subseteq Awake'
      BY DEF Holders, Scoring, Awake
    <3> QED BY <3>1, FS_Subset
  <2>3. /\ w \in Holders(o) <=> Scoring(w, o)
        /\ w \in Holders(o)' <=> Scoring(w, o)'
    BY DEF Holders, Scoring
  <2>4. PICK n \in Nat :
          /\ Cardinality(Holders(o)) = n + (IF Scoring(w, o) THEN 1 ELSE 0)
          /\ Cardinality(Holders(o)') = n + (IF Scoring(w, o)' THEN 1 ELSE 0)
    BY <2>1, <2>2, <2>3, HoldersFinite, CountAt DEF RepeatInv
  <2>5. evaluated[o] + Cardinality(Holders(o)) + (IF Passed(o) THEN 0 ELSE 1)
          <= 1 + faults
    BY DEF RepeatInv
  <2>6. /\ evaluated[o] \in Nat /\ evaluated'[o] \in Nat
        /\ faults \in Nat /\ faults' \in Nat
    BY StepFrame, EvaluatedStep DEF OrchTypeOK
  <2>7. evaluated'[o] + (IF Scoring(w, o)' THEN 1 ELSE 0)
          + (IF Passed(o)' THEN 0 ELSE 1) - faults'
        <= evaluated[o] + (IF Scoring(w, o) THEN 1 ELSE 0)
          + (IF Passed(o) THEN 0 ELSE 1) - faults
    BY StepPays DEF RepeatInv
  <2> QED BY <2>4, <2>5, <2>6, <2>7
<1>2. OneOwner'
  BY StepOneOwner DEF RepeatInv
<1> QED BY <1>1, <1>2 DEF RepeatInv

\* A longer topic changes nothing that was published or is being processed.
LEMMA IngestRepeatInv ==
  ASSUME RepeatInv, (\E k \in Kind : Ingest(k)) \/ UNCHANGED orchVars
  PROVE  RepeatInv'
<1>1. UNCHANGED <<pc, owner, position, cur, faults, evaluated>>
  BY DEF Ingest, loop, orchVars
<1>2. \A o : Holders(o)' = Holders(o) /\ (Passed(o)' <=> Passed(o))
  BY <1>1 DEF Holders, Scoring, Passed
<1>3. Awake' = Awake
  BY <1>1 DEF Awake
<1> QED BY <1>1, <1>2, <1>3 DEF RepeatInv, OneOwner

\* No replica is awake when the system starts.
LEMMA InitRepeatInv == OrchInit => RepeatInv
<1> SUFFICES ASSUME OrchInit PROVE RepeatInv
  OBVIOUS
<1>1. Awake = {} /\ \A o : Holders(o) = {}
  BY DEF OrchInit, Awake, Holders, Scoring
<1>2. IsFiniteSet(Awake) /\ \A o : Cardinality(Holders(o)) = 0
  BY <1>1, FS_EmptySet
<1>3. (\A o \in Offset : evaluated[o] = 0) /\ faults = 0 /\ OneOwner
  BY DEF OrchInit, OneOwner
<1> QED BY <1>2, <1>3 DEF RepeatInv

\* RepeatInv is inductive, given the types.
LEMMA RepeatInvStep ==
  OrchTypeOK /\ ScoringInv /\ RepeatInv /\ [OrchNext]_orchVars => RepeatInv'
<1> SUFFICES ASSUME OrchTypeOK, RepeatInv, [OrchNext]_orchVars PROVE RepeatInv'
  OBVIOUS
<1>1. IsFiniteSet(Awake')
  BY AwakeStep DEF RepeatInv
<1> QED BY <1>1, StepRepeatInv, IngestRepeatInv DEF OrchNext, Step

\* A transaction is published again only after a fault, whatever the
\* rebalances, crashes and commits of the replicas.
THEOREM RepeatsCorrect == OrchSpec => []RepeatsNeedFaults
<1>1. OrchTypeOK /\ RepeatInv => RepeatsNeedFaults
  <2> SUFFICES ASSUME OrchTypeOK, RepeatInv, NEW o \in Offset
               PROVE  evaluated[o] <= 1 + faults
    BY DEF RepeatsNeedFaults
  <2>1. Cardinality(Holders(o)) \in Nat
    BY HoldersFinite DEF RepeatInv
  <2>2. evaluated[o] \in Nat /\ faults \in Nat
    BY DEF OrchTypeOK
  <2> QED BY <2>1, <2>2 DEF RepeatInv
<1>2. OrchSpec => []ScoringInv
  BY InitScoringInv, ScoringInvStep, PTL DEF OrchSpec
<1> QED
  BY <1>1, <1>2, InitRepeatInv, RepeatInvStep, OrchTypeCorrect, PTL DEF OrchSpec
-----------------------------------------------------------------------------
\* Loss is bounded.  The offsets that the group has passed, by a commit or by
\* the position of the owner, without an evaluation or a replica at work on it.
Reached(o) == o <= committed \/ Passed(o)
Gone == {o \in 1..Len(log) : /\ Reached(o)
                             /\ log[o] = "tx"
                             /\ evaluated[o] = 0
                             /\ ~Processing(o)
                             /\ o \notin jumped}

GoneInv == Cardinality(Gone) <= faults

\* Losing what w has in hand costs a fault: nothing else is ever given up.
LEMMA StepGone ==
  ASSUME OrchTypeOK, NEW w \in Replica, Step(w)
  PROVE  \/ Gone' \subseteq Gone
         \/ Gone' \subseteq Gone \cup {cur[w]} /\ faults' = faults + 1
<1>0. /\ pc \in [Replica -> {"idle", "score", "publish", "dead", "down"} \cup Counter]
      /\ owner \in [Replica -> BOOLEAN]
      /\ position \in [Replica -> 0..Len(log)] /\ Len(log) \in Nat
      /\ cur \in [Replica -> 0..Len(log)]
      /\ evaluated \in [Offset -> Nat] /\ faults \in Nat
      /\ committed \in -1..Len(log) /\ Len(log) <= MaxTx
  BY DEF OrchTypeOK
<1>1. UNCHANGED log
  BY StepFrame
<1>2. \A o : Processing(o) => Processing(o)' \/ o = cur[w]
  BY StepFrame DEF Processing
<1>3. \A o \in 1..Len(log) : evaluated'[o] = 0 => evaluated[o] = 0
  <2> SUFFICES ASSUME NEW o \in 1..Len(log), evaluated'[o] = 0
               PROVE  evaluated[o] = 0
    OBVIOUS
  <2>1. o \in Offset
    BY <1>0, OrchestratorAssumption DEF Offset
  <2>2. evaluated'[o] \in {evaluated[o], evaluated[o] + 1} /\ evaluated[o] \in Nat
    BY <1>0, <2>1, EvaluatedStep
  <2> QED BY <2>2
<1>4. CASE FetchTx(w) \/ FetchEmpty(w) \/ FetchOdd(w)
  <2>1. /\ owner[w] /\ UNCHANGED <<owner, committed, jumped>>
        /\ position' = [position EXCEPT ![w] = @ + 1]
        /\ pc[w] = "idle"
    BY <1>4 DEF FetchTx, FetchEmpty, FetchOdd, CanFetch, kafka
  <2>2. \A o \in 1..Len(log) : Reached(o)' => Reached(o) \/ o = position[w] + 1
    BY <1>0, <2>1 DEF Reached, Passed
  <2>3. \A o : Processing(o) => Processing(o)'
    BY <2>1, StepFrame DEF Processing
  <2>4. \A o : o = position[w] + 1 => log[o] # "tx" \/ Processing(o)'
    BY <1>0, <1>4 DEF FetchTx, FetchEmpty, FetchOdd, Upcoming, Processing, Goto
  <2>5. Gone' \subseteq Gone
    BY <1>1, <1>3, <2>1, <2>2, <2>3, <2>4 DEF Gone
  <2> QED BY <2>5
<1>5. CASE Assign(w)
  <2>1. UNCHANGED <<pc, cur, evaluated>> /\ jumped \subseteq jumped'
    BY <1>5 DEF Assign
  <2>2. \A o \in 1..Len(log) : o <= committed' => Reached(o)
    BY <1>0, <1>5 DEF Assign, Reached, Passed
  <2>3. \A o \in 1..Len(log) : Passed(o)' => o <= committed' \/ o \in jumped'
    BY <1>0, <1>5 DEF Assign, Passed
  <2>4. Gone' \subseteq Gone
    BY <1>1, <2>1, <2>2, <2>3 DEF Gone, Reached, Processing
  <2> QED BY <2>4
<1>6. CASE AutoCommit(w)
  <2>1. UNCHANGED <<pc, cur, owner, position, evaluated, jumped>>
        /\ owner[w] /\ committed' = position[w]
    BY <1>6 DEF AutoCommit, loop
  <2>2. \A o \in 1..Len(log) : Reached(o)' => Reached(o)
    BY <1>0, <2>1 DEF Reached, Passed
  <2>3. Gone' \subseteq Gone
    BY <1>1, <2>1, <2>2 DEF Gone, Processing
  <2> QED BY <2>3
<1>7. CASE Crash(w) \/ Stop(w)
  <2>1. faults' = faults + 1 /\ UNCHANGED <<evaluated, jumped>>
    BY <1>7 DEF Crash, Stop, Exit, Fault
  <2>2. \A o \in 1..Len(log) : Reached(o)' => Reached(o)
    BY <1>0, <1>7 DEF Crash, Stop, Exit, Reached, Passed
  <2> QED BY <1>1, <1>2, <2>1, <2>2 DEF Gone
<1>8. CASE PublishRaises(w) \/ ScoreRejected(w)
  <2>1. faults' = faults + 1 /\ UNCHANGED <<committed, owner, position, jumped>>
    BY <1>8 DEF PublishRaises, ScoreRejected, Fault, kafka
  <2> QED BY <1>1, <1>2, <1>3, <2>1 DEF Gone, Reached, Passed
<1>9. CASE Publish(w)
  <2>1. UNCHANGED <<committed, owner, position, jumped>>
    BY <1>9 DEF Publish, kafka
  <2>2. cur[w] \in 1..Len(log) => evaluated'[cur[w]] # 0
    <3>1. cur[w] \in 1..Len(log) => cur[w] \in Offset
      BY <1>0, OrchestratorAssumption DEF Offset
    <3> QED BY <1>0, <1>9, <3>1 DEF Publish, Evaluate
  <2>3. Gone' \subseteq Gone
    BY <1>1, <1>2, <1>3, <2>1, <2>2 DEF Gone, Reached, Passed
  <2> QED BY <2>3
<1>10. CASE ~(FetchTx(w) \/ FetchEmpty(w) \/ FetchOdd(w) \/ Assign(w)
              \/ AutoCommit(w) \/ Crash(w) \/ Stop(w) \/ PublishRaises(w)
              \/ ScoreRejected(w) \/ Publish(w))
  <2>1. UNCHANGED <<committed, owner, position, evaluated, jumped>>
    BY <1>10 DEF Step, Loop, Start, FetchBad, ScoreTx, Count, CountRaises,
       kafka
  <2>2. \A o : Scoring(w, o) => Scoring(w, o)'
    BY <1>0, <1>10 DEF Step, Loop, Start, FetchBad, ScoreTx, Count,
       CountRaises, CanFetch, Scoring, Goto, Counter
  <2>3. \A o : Processing(o) => Processing(o)'
    BY <2>2, StepFrame DEF Processing, Scoring
  <2>4. Gone' \subseteq Gone
    BY <1>1, <2>1, <2>3 DEF Gone, Reached, Passed
  <2> QED BY <2>4
<1> QED BY <1>4, <1>5, <1>6, <1>7, <1>8, <1>9, <1>10

\* The transactions given up are among those of the topic.
LEMMA GoneFinite == OrchTypeOK => IsFiniteSet(Gone) /\ Cardinality(Gone) \in Nat
<1> SUFFICES ASSUME OrchTypeOK PROVE IsFiniteSet(Gone) /\ Cardinality(Gone) \in Nat
  OBVIOUS
<1>1. IsFiniteSet(1..Len(log))
  BY FS_Interval DEF OrchTypeOK
<1>2. Gone \subseteq 1..Len(log)
  BY DEF Gone
<1> QED BY <1>1, <1>2, FS_Subset, FS_CardinalityType

\* Each transaction that is given up costs a fault.
LEMMA GoneInvStep ==
  OrchTypeOK /\ GoneInv /\ [OrchNext]_orchVars => GoneInv'
<1> SUFFICES ASSUME OrchTypeOK, GoneInv, [OrchNext]_orchVars PROVE GoneInv'
  OBVIOUS
<1>1. ASSUME NEW w \in Replica, Step(w) PROVE GoneInv'
  <2>1. /\ IsFiniteSet(Gone) /\ Cardinality(Gone) \in Nat
        /\ IsFiniteSet(Gone \cup {cur[w]})
        /\ Cardinality(Gone \cup {cur[w]}) <= Cardinality(Gone) + 1
    BY GoneFinite, FS_AddElement
  <2>2. faults' \in {faults, faults + 1} /\ faults \in Nat
    BY <1>1, StepFrame
  <2>3. CASE Gone' \subseteq Gone
    <3>1. Cardinality(Gone') <= Cardinality(Gone) /\ Cardinality(Gone') \in Nat
      BY <2>1, <2>3, FS_Subset, FS_CardinalityType
    <3> QED BY <2>1, <2>2, <3>1 DEF GoneInv
  <2>4. CASE Gone' \subseteq Gone \cup {cur[w]} /\ faults' = faults + 1
    <3>1. /\ Cardinality(Gone') <= Cardinality(Gone \cup {cur[w]})
          /\ Cardinality(Gone \cup {cur[w]}) \in Nat
          /\ Cardinality(Gone') \in Nat
      BY <2>1, <2>4, FS_Subset, FS_CardinalityType
    <3> QED BY <2>1, <2>2, <2>4, <3>1 DEF GoneInv
  <2> QED BY <1>1, <2>3, <2>4, StepGone
<1>2. ASSUME NEW k \in Kind, Ingest(k) PROVE GoneInv'
  <2>1. /\ UNCHANGED <<committed, owner, position, pc, cur, evaluated, jumped, faults>>
        /\ Len(log') = Len(log) + 1 /\ \A o \in 1..Len(log) : log'[o] = log[o]
    BY <1>2, IngestTypeOK DEF Ingest, loop
  <2>2. ~Reached(Len(log) + 1)
    BY DEF Reached, Passed, OrchTypeOK
  <2>3. Gone' = Gone
    BY <2>1, <2>2 DEF Gone, Reached, Passed, Processing, OrchTypeOK
  <2> QED BY <2>1, <2>3 DEF GoneInv
<1>3. CASE UNCHANGED orchVars
  BY <1>3 DEF orchVars, kafka, loop, GoneInv, Gone, Reached, Passed, Processing
<1> QED BY <1>1, <1>2, <1>3 DEF OrchNext, Step

\* A fault costs at most one transaction, although offsets are committed while
\* records are still being processed.
THEOREM LossCorrect == OrchSpec => []LossBounded
<1>1. OrchInit => GoneInv
  <2> SUFFICES ASSUME OrchInit PROVE GoneInv
    OBVIOUS
  <2>1. Gone = {} /\ faults = 0
    BY DEF OrchInit, Gone
  <2> QED BY <2>1, FS_EmptySet DEF GoneInv
<1>2. OrchTypeOK /\ GoneInv => LossBounded
  <2> SUFFICES ASSUME OrchTypeOK, GoneInv PROVE LossBounded
    OBVIOUS
  <2>1. Lost \subseteq Gone
    BY DEF Lost, Gone, Reached
  <2>2. Cardinality(Lost) <= Cardinality(Gone) /\ Cardinality(Lost) \in Nat
    BY <2>1, GoneFinite, FS_Subset, FS_CardinalityType
  <2>3. Cardinality(Gone) \in Nat /\ faults \in Nat
    BY GoneFinite DEF OrchTypeOK
  <2> QED BY <2>2, <2>3 DEF GoneInv, LossBounded
<1> QED BY <1>1, <1>2, GoneInvStep, OrchTypeCorrect, PTL DEF OrchSpec
-----------------------------------------------------------------------------
\* The sum Published, by induction over the offsets: f adds up e.
Sums(f, e) ==
  f = [n \in 0..MaxTx |-> IF n = 0 THEN 0 ELSE e[n] + f[n - 1]]

\* The recursive definition has a solution whatever it adds up.
LEMMA SumsExist == ASSUME NEW e PROVE \E f : Sums(f, e)
<1> DEFINE Adds(f, k) == f = [n \in 0..k |-> IF n = 0 THEN 0 ELSE e[n] + f[n - 1]]
           S == {k \in Nat : \E f : Adds(f, k)}
<1>1. 0 \in S
  <2> DEFINE f == [n \in 0..0 |-> 0]
  <2>1. Adds(f, 0)
    OBVIOUS
  <2> HIDE DEF Adds, f
  <2> QED BY <2>1
<1>2. ASSUME NEW k \in Nat, k \in S PROVE k + 1 \in S
  <2>1. PICK f : Adds(f, k)
    BY <1>2
  <2> DEFINE g == [n \in 0..(k + 1) |->
                     IF n = k + 1 THEN e[n] + f[k] ELSE f[n]]
  <2>2. Adds(g, k + 1)
    <3>1. ASSUME NEW n \in 0..(k+1)
          PROVE g[n] = IF n = 0 THEN 0 ELSE e[n] + g[n - 1]
      <4>1. CASE n = k + 1
        BY <4>1
      <4>2. CASE n \in 0..k
        <5>1. f[n] = IF n = 0 THEN 0 ELSE e[n] + f[n - 1]
          BY <2>1, <4>2
        <5>2. n # 0 => n - 1 \in 0..(k+1) /\ n - 1 # k + 1
          BY <4>2
        <5> QED BY <4>2, <5>1, <5>2
      <4> QED BY <4>1, <4>2
    <3> QED BY <3>1
  <2> HIDE DEF Adds, g
  <2> QED BY <2>2
<1>3. MaxTx \in S
  <2> HIDE DEF S
  <2> QED BY <1>1, <1>2, SetInduction, OrchestratorAssumption
<1> QED BY <1>3 DEF Sums

\* Published adds up the decisions of the state, before and after a step.
LEMMA PublishedSums == Sums(Published, evaluated) /\ Sums(Published', evaluated')
<1>1. PICK f : Sums(f, evaluated)
  BY SumsExist
<1>2. Sums(Published, evaluated)
  BY <1>1, Zenon DEF Published, Sums
<1>3. PICK g : Sums(g, evaluated')
  BY SumsExist
<1>4. Sums(Published', evaluated')
  BY <1>3, Zenon DEF Published, Sums
<1> QED BY <1>2, <1>4

\* A sum of naturals is a natural at every offset.
LEMMA SumsType ==
  ASSUME NEW e \in [1..MaxTx -> Nat], NEW f, Sums(f, e)
  PROVE  f \in [0..MaxTx -> Nat]
<1> DEFINE S == {n \in Nat : n <= MaxTx => f[n] \in Nat}
<1>1. 0 \in S
  BY OrchestratorAssumption DEF Sums
<1>2. ASSUME NEW n \in Nat, n \in S PROVE n + 1 \in S
  <2> SUFFICES ASSUME n + 1 <= MaxTx PROVE f[n + 1] \in Nat
    OBVIOUS
  <2>1. /\ n + 1 \in 0..MaxTx /\ n + 1 \in 1..MaxTx /\ f[n] \in Nat
        /\ n + 1 # 0 /\ (n + 1) - 1 = n
    BY <1>2, OrchestratorAssumption
  <2>2. f[n + 1] = e[n + 1] + f[n]
    BY <2>1 DEF Sums
  <2> QED BY <2>1, <2>2
<1>3. Nat \subseteq S
  <2> HIDE DEF S
  <2> QED BY <1>1, <1>2, SetInduction
<1>4. \A n \in 0..MaxTx : f[n] \in Nat
  BY <1>3, OrchestratorAssumption
<1>5. f = [n \in 0..MaxTx |-> f[n]]
  BY DEF Sums
<1> QED BY <1>4, <1>5

\* d is e with one more at o.
Adds(d, e, o) == \A n \in 1..MaxTx : d[n] = e[n] + (IF n = o THEN 1 ELSE 0)

\* One decision more at an offset of the log is one more in the sum.
LEMMA SumsGrow ==
  ASSUME NEW e \in [1..MaxTx -> Nat], NEW d \in [1..MaxTx -> Nat],
         NEW f, Sums(f, e), NEW g, Sums(g, d),
         NEW o, Adds(d, e, o)
  PROVE  g[MaxTx] = f[MaxTx] + (IF o \in 1..MaxTx THEN 1 ELSE 0)
<1> DEFINE S == {n \in Nat : n <= MaxTx => g[n] = f[n] + (IF o \in 1..n THEN 1 ELSE 0)}
<1>0. f \in [0..MaxTx -> Nat] /\ g \in [0..MaxTx -> Nat]
  BY SumsType
<1>1. 0 \in S
  BY OrchestratorAssumption DEF Sums
<1>2. ASSUME NEW n \in Nat, n \in S PROVE n + 1 \in S
  <2> SUFFICES ASSUME n + 1 <= MaxTx
               PROVE  g[n + 1] = f[n + 1] + (IF o \in 1..(n + 1) THEN 1 ELSE 0)
    OBVIOUS
  <2>1. /\ n + 1 \in 0..MaxTx /\ n + 1 \in 1..MaxTx /\ n \in 0..MaxTx
        /\ n + 1 # 0 /\ (n + 1) - 1 = n
    BY OrchestratorAssumption
  <2>2. f[n + 1] = e[n + 1] + f[n] /\ g[n + 1] = d[n + 1] + g[n]
    BY <2>1 DEF Sums
  <2>3. g[n] = f[n] + (IF o \in 1..n THEN 1 ELSE 0)
    BY <1>2, <2>1
  <2>4. /\ d[n + 1] = e[n + 1] + (IF n + 1 = o THEN 1 ELSE 0)
        /\ e[n + 1] \in Nat /\ f[n] \in Nat
    BY <1>0, <2>1 DEF Adds
  <2>5. o \in 1..(n + 1) <=> o \in 1..n \/ o = n + 1
    OBVIOUS
  <2>6. CASE o = n + 1
    BY <2>2, <2>3, <2>4, <2>6
  <2>7. CASE o # n + 1
    <3>1. o \in 1..(n + 1) <=> o \in 1..n
      BY <2>5, <2>7
    <3>2. d[n + 1] = e[n + 1]
      BY <2>4, <2>7
    <3>3. g[n + 1] = e[n + 1] + f[n] + (IF o \in 1..n THEN 1 ELSE 0)
      BY <2>2, <2>3, <2>4, <3>2
    <3> QED BY <2>2, <3>1, <3>3
  <2> QED BY <2>6, <2>7
<1>3. Nat \subseteq S
  <2> HIDE DEF S
  <2> QED BY <1>1, <1>2, SetInduction
<1> QED BY <1>3, OrchestratorAssumption

\* The same for the state: the total grows with the decision at o.
LEMMA PublishedStep ==
  ASSUME OrchTypeOK, OrchTypeOK', NEW o,
         \A n \in Offset : evaluated'[n] = evaluated[n] + (IF n = o THEN 1 ELSE 0)
  PROVE  /\ Published[MaxTx] \in Nat /\ Published'[MaxTx] \in Nat
         /\ Published'[MaxTx] = Published[MaxTx] + (IF o \in Offset THEN 1 ELSE 0)
<1>1. evaluated \in [1..MaxTx -> Nat] /\ evaluated' \in [1..MaxTx -> Nat]
  BY DEF OrchTypeOK, Offset
<1>2. Published \in [0..MaxTx -> Nat] /\ Published' \in [0..MaxTx -> Nat]
  BY <1>1, PublishedSums, SumsType
<1>3. Published'[MaxTx] = Published[MaxTx] + (IF o \in 1..MaxTx THEN 1 ELSE 0)
  <2>1. \A n \in 1..MaxTx : evaluated'[n] = evaluated[n] + (IF n = o THEN 1 ELSE 0)
    BY DEF Offset
  <2>2. Sums(Published, evaluated) /\ Sums(Published', evaluated')
    BY PublishedSums
  <2>3. Adds(evaluated', evaluated, o)
    BY <2>1 DEF Adds
  <2> DEFINE g == Published'
             d == evaluated'
  <2>4. d \in [1..MaxTx -> Nat] /\ Sums(g, d) /\ Adds(d, evaluated, o)
    BY <1>1, <2>2, <2>3
  <2> HIDE DEF g, d
  <2>5. g[MaxTx] = Published[MaxTx] + (IF o \in 1..MaxTx THEN 1 ELSE 0)
    BY <1>1, <2>2, <2>4, SumsGrow
  <2> QED BY <2>5 DEF g
<1> QED BY <1>2, <1>3, OrchestratorAssumption DEF Offset
-----------------------------------------------------------------------------
\* The dashboard's counters.  A replica past the total has counted it and may
\* still count its transaction as fraud; one before the total has published;
\* one that blocks counts the fraud right after.
Pending == {w \in Replica : pc[w] = "total"}
Counting == {w \in Replica : pc[w] \in {"volume", "blocked", "fraud"}}

InHandInv ==
  \A w \in Replica : /\ pc[w] = "blocked" => decision[w] = "block"
                     /\ pc[w] \in {"score", "publish"} => cur[w] \in 1..Len(log)

CountersInv ==
  /\ metrics["fraud"] + Cardinality(Counting) <= metrics["total"]
  /\ metrics["blocked"] <= metrics["fraud"] + Cardinality(InFlight) + faults
  /\ metrics["total"] + Cardinality(Pending) <= Published[MaxTx]

MetricsInv == IsFiniteSet(Awake) /\ InHandInv /\ CountersInv

\* A replica in the middle of a transaction holds one that exists.
LEMMA StepInHandInv ==
  ASSUME OrchTypeOK, InHandInv, NEW w \in Replica, Step(w)
  PROVE  InHandInv'
<1>1. ASSUME NEW v \in Replica \ {w}
      PROVE  /\ pc'[v] = "blocked" => decision'[v] = "block"
             /\ pc'[v] \in {"score", "publish"} => cur'[v] \in 1..Len(log')
  BY <1>1, StepFrame DEF InHandInv
<1>2. /\ pc'[w] = "blocked" => decision'[w] = "block"
      /\ pc'[w] \in {"score", "publish"} => cur'[w] \in 1..Len(log')
  <2>0. /\ pc \in [Replica -> {"idle", "score", "publish", "dead", "down"} \cup Counter]
        /\ position \in [Replica -> 0..Len(log)] /\ Len(log) \in Nat
        /\ cur \in [Replica -> 0..Len(log)]
        /\ log' = log
    BY StepFrame DEF OrchTypeOK
  <2>1. CASE FetchTx(w)
    BY <2>0, <2>1 DEF FetchTx, CanFetch, Goto
  <2>2. CASE ScoreTx(w)
    BY <2>0, <2>2 DEF ScoreTx, Goto, InHandInv
  <2>3. CASE Count(w)
    BY <2>0, <2>3 DEF Count, Following, Goto, Leave, Counter
  <2>4. CASE ~(FetchTx(w) \/ ScoreTx(w) \/ Count(w))
    <3>1. \/ pc'[w] \notin {"score", "publish", "blocked"}
          \/ UNCHANGED <<pc, cur, decision>>
      BY <2>0, <2>4 DEF Step, Loop, Start, Assign, AutoCommit, Crash, Stop,
         Exit, FetchEmpty, FetchBad, FetchOdd, ScoreRejected, Publish,
         PublishRaises, CountRaises, Goto, Leave, loop
    <3> QED BY <2>0, <3>1 DEF InHandInv
  <2> QED BY <2>1, <2>2, <2>3, <2>4
<1> QED BY <1>1, <1>2 DEF InHandInv

\* What w adds to the counters, it gives up as a member of the three sets, has
\* published, or pays with a fault.
LEMMA CountPays ==
  ASSUME OrchTypeOK, OrchTypeOK', InHandInv, NEW w \in Replica,
         Count(w) \/ CountRaises(w)
  PROVE  /\ metrics'["fraud"] + (IF w \in Counting' THEN 1 ELSE 0) - metrics'["total"]
              <= metrics["fraud"] + (IF w \in Counting THEN 1 ELSE 0) - metrics["total"]
         /\ metrics'["blocked"] - metrics'["fraud"]
              - (IF w \in InFlight' THEN 1 ELSE 0) - faults'
              <= metrics["blocked"] - metrics["fraud"]
                   - (IF w \in InFlight THEN 1 ELSE 0) - faults
         /\ metrics'["total"] + (IF w \in Pending' THEN 1 ELSE 0)
              <= metrics["total"] + (IF w \in Pending THEN 1 ELSE 0)
<1>0. /\ pc \in [Replica -> {"idle", "score", "publish", "dead", "down"} \cup Counter]
      /\ metrics \in [Counter -> Nat] /\ faults \in Nat
      /\ decision \in [Replica -> Decision]
  BY DEF OrchTypeOK
<1> DEFINE t == metrics["total"]
           b == metrics["blocked"]
           f == metrics["fraud"]
<1>1. t \in Nat /\ b \in Nat /\ f \in Nat
  BY <1>0 DEF Counter
<1>2. /\ w \in Counting <=> pc[w] \in {"volume", "blocked", "fraud"}
      /\ w \in Counting' <=> pc'[w] \in {"volume", "blocked", "fraud"}
      /\ w \in InFlight <=> pc[w] = "fraud" /\ decision[w] = "block"
      /\ w \in InFlight' <=> pc'[w] = "fraud" /\ decision'[w] = "block"
      /\ w \in Pending <=> pc[w] = "total"
      /\ w \in Pending' <=> pc'[w] = "total"
  BY DEF Counting, InFlight, Pending
<1>3. /\ pc[w] \in Counter
      /\ \/ metrics' = [metrics EXCEPT ![pc[w]] = @ + 1]
         \/ metrics' = metrics /\ CountRaises(w)
  BY DEF Count, CountRaises, Increment
<1>4. /\ t' \in Nat /\ b' \in Nat /\ f' \in Nat
      /\ t' = t + (IF pc[w] = "total" /\ metrics' # metrics THEN 1 ELSE 0)
      /\ b' = b + (IF pc[w] = "blocked" /\ metrics' # metrics THEN 1 ELSE 0)
      /\ f' = f + (IF pc[w] = "fraud" /\ metrics' # metrics THEN 1 ELSE 0)
  <2>1. /\ metrics' \in [Counter -> Nat]
        /\ \A k \in Counter :
             metrics'[k] = metrics[k] + (IF pc[w] = k /\ metrics' # metrics THEN 1 ELSE 0)
    <3>1. CASE metrics' = metrics
      BY <1>0, <3>1
    <3>2. CASE metrics' = [metrics EXCEPT ![pc[w]] = @ + 1]
      BY <1>0, <1>3, <3>2
    <3> QED BY <1>3, <3>1, <3>2
  <2>2. {"total", "blocked", "fraud"} \subseteq Counter
    BY DEF Counter
  <2> QED BY <2>1, <2>2
<1>5. metrics' = metrics => CountRaises(w)
  BY <1>0, <1>3 DEF Counter
<1> HIDE DEF t, b, f
<1>6. CASE CountRaises(w)
  <2>1. faults' = faults + 1 /\ pc'[w] = "idle"
    BY <1>0, <1>6 DEF CountRaises, Fault, Leave, Goto
  <2> QED BY <1>0, <1>1, <1>2, <1>3, <1>4, <2>1 DEF t, b, f, Counter
<1>7. CASE Count(w) /\ metrics' # metrics
  <2>1. /\ faults' = faults
        /\ pc'[w] = Following(w, pc[w])
        /\ Following(w, pc[w]) # "idle" => decision' = decision
    BY <1>0, <1>7 DEF Count, Leave, Goto
  <2>2. pc[w] = "blocked" => decision[w] = "block"
    BY DEF InHandInv
  <2>3. /\ pc[w] = "total" => pc'[w] = "volume"
        /\ pc[w] = "volume" => \/ pc'[w] \in {"blocked", "idle"}
                               \/ pc'[w] = "fraud" /\ decision'[w] # "block"
        /\ pc[w] = "blocked" => pc'[w] = "fraud" /\ decision'[w] = "block"
        /\ pc[w] = "fraud" => pc'[w] = "idle"
    BY <2>1, <2>2 DEF Following
  <2> QED BY <1>0, <1>1, <1>2, <1>3, <1>4, <1>7, <2>1, <2>3 DEF t, b, f, Counter
<1> QED BY <1>5, <1>6, <1>7

\* The counters differ by no more than the increments to come and the faults.
LEMMA StepCountersInv ==
  ASSUME OrchTypeOK, OrchTypeOK', MetricsInv, IsFiniteSet(Awake'),
         NEW w \in Replica, Step(w)
  PROVE  CountersInv'
<1> DEFINE t == metrics["total"]
           b == metrics["blocked"]
           f == metrics["fraud"]
           c == IF w \in Counting THEN 1 ELSE 0
           i == IF w \in InFlight THEN 1 ELSE 0
           p == IF w \in Pending THEN 1 ELSE 0
           P == Published[MaxTx]
           tt == metrics'["total"]
           bb == metrics'["blocked"]
           ff == metrics'["fraud"]
           cc == IF w \in Counting' THEN 1 ELSE 0
           ii == IF w \in InFlight' THEN 1 ELSE 0
           pp == IF w \in Pending' THEN 1 ELSE 0
           PP == Published'[MaxTx]
<1>1. /\ t \in Nat /\ b \in Nat /\ f \in Nat /\ faults \in Nat
      /\ tt \in Nat /\ bb \in Nat /\ ff \in Nat /\ faults' \in Nat
  BY DEF OrchTypeOK, Counter
<1>2. \A S \in {Counting, InFlight, Pending, Counting', InFlight', Pending'} :
        IsFiniteSet(S)
  <2>1. Counting \subseteq Awake /\ InFlight \subseteq Awake /\ Pending \subseteq Awake
    BY DEF Counting, InFlight, Pending, Awake
  <2>2. /\ Counting' \subseteq Awake' /\ InFlight' \subseteq Awake'
        /\ Pending' \subseteq Awake'
    BY DEF Counting, InFlight, Pending, Awake
  <2> QED BY <2>1, <2>2, FS_Subset DEF MetricsInv
<1>3. /\ Counting \ {w} = Counting' \ {w}
      /\ InFlight \ {w} = InFlight' \ {w}
      /\ Pending \ {w} = Pending' \ {w}
  BY StepFrame DEF Counting, InFlight, Pending
<1>4. PICK nc \in Nat : /\ Cardinality(Counting) = nc + c
                        /\ Cardinality(Counting') = nc + cc
  BY <1>2, <1>3, CountAt
<1>5. PICK ni \in Nat : /\ Cardinality(InFlight) = ni + i
                        /\ Cardinality(InFlight') = ni + ii
  BY <1>2, <1>3, CountAt
<1>6. PICK np \in Nat : /\ Cardinality(Pending) = np + p
                        /\ Cardinality(Pending') = np + pp
  BY <1>2, <1>3, CountAt
<1>7. /\ f + Cardinality(Counting) <= t
      /\ b <= f + Cardinality(InFlight) + faults
      /\ t + Cardinality(Pending) <= P
  BY DEF MetricsInv, CountersInv
<1>8. /\ P \in Nat /\ PP \in Nat
      /\ UNCHANGED evaluated => PP = P
  <2>1. ASSUME UNCHANGED evaluated
        PROVE  \A n \in Offset : evaluated'[n] = evaluated[n] + (IF n = 0 THEN 1 ELSE 0)
    BY <2>1, OrchestratorAssumption DEF Offset, OrchTypeOK
  <2>2. 0 \notin Offset
    BY DEF Offset
  <2>3. /\ Sums(Published, evaluated) /\ Sums(Published', evaluated')
        /\ evaluated \in [1..MaxTx -> Nat] /\ evaluated' \in [1..MaxTx -> Nat]
    BY PublishedSums DEF OrchTypeOK, Offset
  <2>4. Published \in [0..MaxTx -> Nat] /\ Published' \in [0..MaxTx -> Nat]
    BY <2>3, SumsType
  <2>5. P \in Nat /\ PP \in Nat
    BY <2>4, OrchestratorAssumption
  <2>6. UNCHANGED evaluated => PP = P
    BY <2>1, <2>2, <2>5, PublishedStep
  <2> QED BY <2>5, <2>6
<1>9. /\ ff + cc - tt <= f + c - t
      /\ bb - ff - ii - faults' <= b - f - i - faults
      /\ tt + pp - PP <= t + p - P
  <2>1. CASE Count(w) \/ CountRaises(w)
    <3>1. PP = P
      BY <1>8, <2>1 DEF Count, CountRaises
    <3> HIDE DEF P, PP
    <3> QED BY <1>1, <1>8, <2>1, <3>1, CountPays DEF MetricsInv
  <2>2. CASE Publish(w)
    <3>1. PP = P + 1
      <4>1. pc[w] = "publish" /\ evaluated' = [evaluated EXCEPT ![cur[w]] = @ + 1]
        BY <2>2 DEF Publish, Evaluate
      <4>2. cur[w] \in Offset
        BY <4>1, OrchestratorAssumption DEF MetricsInv, InHandInv, Offset, OrchTypeOK
      <4>3. \A n \in Offset :
              evaluated'[n] = evaluated[n] + (IF n = cur[w] THEN 1 ELSE 0)
        BY <4>1, <4>2 DEF OrchTypeOK
      <4> QED BY <4>2, <4>3, PublishedStep
    <3>2. pc[w] = "publish" /\ pc'[w] = "total"
      BY <2>2 DEF Publish, Goto, OrchTypeOK
    <3>3. p = 0 /\ pp = 1 /\ c = 0 /\ cc = 0 /\ i = 0 /\ ii = 0
      BY <3>2 DEF Pending, Counting, InFlight
    <3>4. tt = t /\ bb = b /\ ff = f /\ faults' = faults
      BY <2>2 DEF Publish
    <3> HIDE DEF p, c, i, P, t, b, f, pp, cc, ii, PP, tt, bb, ff
    <3> QED BY <1>1, <1>8, <3>1, <3>3, <3>4
  <2>3. CASE ~(Count(w) \/ CountRaises(w) \/ Publish(w))
    <3>1. /\ metrics' = metrics
          /\ UNCHANGED evaluated \/ PublishRaises(w)
      BY <2>3 DEF Step, Loop, Start, Assign, AutoCommit, Crash, Stop, Exit,
         FetchTx, FetchEmpty, FetchBad, FetchOdd, ScoreTx, ScoreRejected,
         PublishRaises
    <3>2. PP >= P
      <4>1. CASE UNCHANGED evaluated
        BY <1>8, <4>1
      <4>2. CASE PublishRaises(w) /\ ~UNCHANGED evaluated
        <5>1. evaluated' = [evaluated EXCEPT ![cur[w]] = @ + 1]
          BY <4>2 DEF PublishRaises, Evaluate
        <5>2. \A n \in Offset :
                evaluated'[n] = evaluated[n] + (IF n = cur[w] THEN 1 ELSE 0)
          BY <5>1 DEF OrchTypeOK
        <5>3. PP = P + (IF cur[w] \in Offset THEN 1 ELSE 0)
          BY <5>2, PublishedStep
        <5> HIDE DEF P, PP
        <5> QED BY <1>8, <5>3
      <4> QED BY <3>1, <4>1, <4>2
    <3>3. \/ pc'[w] = pc[w] /\ decision'[w] = decision[w]
          \/ pc[w] \notin Counter /\ pc'[w] \notin Counter
          \/ pc'[w] \notin Counter /\ faults' = faults + 1
      BY <2>3 DEF Step, Loop, Start, Assign, AutoCommit, Crash, Stop, Exit,
         FetchTx, FetchEmpty, FetchBad, FetchOdd, ScoreTx, ScoreRejected,
         PublishRaises, Leave, Goto, Fault, CanFetch, Counter, OrchTypeOK, loop
    <3>4. /\ pp \in {0, 1} /\ p \in {0, 1} /\ pp <= p
          /\ cc \in {0, 1} /\ c \in {0, 1} /\ cc <= c
          /\ ii \in {0, 1} /\ i \in {0, 1} /\ (ii = i \/ faults' = faults + 1)
      BY <3>3 DEF Pending, Counting, InFlight, Counter
    <3>5. tt = t /\ bb = b /\ ff = f /\ faults' \in {faults, faults + 1}
      BY <3>1, StepFrame
    <3> HIDE DEF p, c, i, P, t, b, f, pp, cc, ii, PP, tt, bb, ff
    <3>6. ff + cc - tt <= f + c - t
      BY <1>1, <3>4, <3>5
    <3>7. bb - ff - ii - faults' <= b - f - i - faults
      <4> DEFINE h == faults
                 hh == faults'
      <4>1. /\ h \in Int /\ hh \in {h, h + 1} /\ b \in Int /\ f \in Int
            /\ i \in {0, 1} /\ ii \in {0, 1}
            /\ bb = b /\ ff = f /\ (ii = i \/ hh = h + 1)
        BY <1>1, <3>4, <3>5
      <4> HIDE DEF h, hh
      <4>2. ii + hh >= i + h
        <5>1. CASE ii = i /\ hh = h
          BY <4>1, <5>1
        <5>2. CASE hh = h + 1
          BY <4>1, <5>2
        <5> QED BY <4>1, <5>1, <5>2
      <4>3. b - f - ii - hh <= b - f - i - h
        BY <4>1, <4>2
      <4> QED BY <4>1, <4>3 DEF h, hh
    <3>8. tt + pp - PP <= t + p - P
      <4>1. P \in Int /\ PP \in Int /\ t \in Int /\ p \in Int /\ pp \in Int
        BY <1>1, <1>8, <3>4
      <4> QED BY <3>2, <3>4, <3>5, <4>1
    <3> QED BY <3>6, <3>7, <3>8
  <2> HIDE DEF p, c, i, P, t, b, f, pp, cc, ii, PP, tt, bb, ff
  <2> QED BY <2>1, <2>2, <2>3
<1>10. c \in {0, 1} /\ cc \in {0, 1} /\ i \in {0, 1} /\ ii \in {0, 1}
       /\ p \in {0, 1} /\ pp \in {0, 1}
  OBVIOUS
<1> HIDE DEF c, i, p, P, cc, ii, pp, PP
<1>11. ff + Cardinality(Counting') <= tt
  BY <1>1, <1>4, <1>7, <1>9, <1>10
<1>12. bb <= ff + Cardinality(InFlight') + faults'
  BY <1>1, <1>5, <1>7, <1>9, <1>10
<1>13. tt + Cardinality(Pending') <= PP
  BY <1>1, <1>6, <1>7, <1>8, <1>9, <1>10
<1> QED BY <1>11, <1>12, <1>13 DEF CountersInv, P, PP

\* MetricsInv is inductive, given the types.
LEMMA MetricsInvStep ==
  OrchTypeOK /\ OrchTypeOK' /\ MetricsInv /\ [OrchNext]_orchVars => MetricsInv'
<1> SUFFICES ASSUME OrchTypeOK, OrchTypeOK', MetricsInv, [OrchNext]_orchVars
             PROVE  MetricsInv'
  OBVIOUS
<1>1. IsFiniteSet(Awake')
  BY AwakeStep DEF MetricsInv
<1>2. ASSUME NEW w \in Replica, Step(w) PROVE MetricsInv'
  BY <1>1, <1>2, StepInHandInv, StepCountersInv DEF MetricsInv
<1>3. CASE (\E k \in Kind : Ingest(k)) \/ UNCHANGED orchVars
  <2>1. /\ UNCHANGED <<pc, cur, decision, metrics, faults, evaluated>>
        /\ Len(log) \in Nat /\ Len(log') \in Nat /\ Len(log) <= Len(log')
    BY <1>3, IngestTypeOK DEF Ingest, loop, orchVars, kafka, OrchTypeOK
  <2>2. InHandInv'
    BY <2>1 DEF MetricsInv, InHandInv
  <2>3. Published' = Published
    BY <2>1 DEF Published
  <2>4. CountersInv'
    BY <2>1, <2>3 DEF MetricsInv, CountersInv, Counting, InFlight, Pending
  <2> QED BY <1>1, <2>2, <2>4 DEF MetricsInv
<1> QED BY <1>2, <1>3 DEF OrchNext, Step

\* The dashboard never counts more fraud than transactions, nor more
\* transactions than decisions published, and a block that is not counted as
\* fraud is about to be, or cost a fault.
THEOREM MetricsCorrect == OrchSpec => []MetricsConsistent
<1>1. OrchInit => MetricsInv
  <2> SUFFICES ASSUME OrchInit PROVE MetricsInv
    OBVIOUS
  <2>1. Awake = {} /\ Counting = {} /\ InFlight = {} /\ Pending = {}
    BY DEF OrchInit, Awake, Counting, InFlight, Pending
  <2>2. IsFiniteSet({}) /\ Cardinality({}) = 0
    BY FS_EmptySet
  <2>3. /\ metrics["total"] = 0 /\ metrics["blocked"] = 0 /\ metrics["fraud"] = 0
        /\ faults = 0 /\ InHandInv
    BY DEF OrchInit, Counter, InHandInv
  <2>4. Published[MaxTx] \in Nat
    <3>1. Published \in [0..MaxTx -> Nat]
      BY InitOrchTypeOK, PublishedSums, SumsType DEF OrchTypeOK, Offset
    <3> QED BY <3>1, OrchestratorAssumption
  <2>5. CountersInv
    BY <2>1, <2>2, <2>3, <2>4 DEF CountersInv
  <2> QED BY <2>1, <2>2, <2>3, <2>5 DEF MetricsInv
<1>2. OrchTypeOK /\ MetricsInv => MetricsConsistent
  <2> SUFFICES ASSUME OrchTypeOK, MetricsInv PROVE MetricsConsistent
    OBVIOUS
  <2>1. Counting \subseteq Awake /\ Pending \subseteq Awake
    BY DEF Counting, Pending, Awake
  <2>2. Cardinality(Counting) \in Nat /\ Cardinality(Pending) \in Nat
    BY <2>1, FS_Subset, FS_CardinalityType DEF MetricsInv
  <2>3. metrics["fraud"] \in Nat /\ metrics["total"] \in Nat
    BY DEF OrchTypeOK, Counter
  <2>4. Published[MaxTx] \in Nat
    <3>1. Published \in [0..MaxTx -> Nat]
      BY PublishedSums, SumsType DEF OrchTypeOK, Offset
    <3> QED BY <3>1, OrchestratorAssumption
  <2> QED BY <2>2, <2>3, <2>4 DEF MetricsInv, CountersInv, MetricsConsistent
<1> QED BY <1>1, <1>2, MetricsInvStep, OrchTypeCorrect, PTL DEF OrchSpec
=============================================================================
