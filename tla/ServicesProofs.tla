--------------------------- MODULE ServicesProofs ---------------------------
(***************************************************************************)
(* Proofs about MCServices: the rule engine, the graph analysis, the       *)
(* followers of an alert and the lifecycle each have an inductive          *)
(* invariant of their own, and every step of the composition is a step or  *)
(* a stutter of each.                                                      *)
(***************************************************************************)
EXTENDS MCServices, CountingLemmas, SequenceTheorems, TLAPS
-----------------------------------------------------------------------------
(* RuleEngine *)
\* rows has each rule of R once.
Enumerates(rows, R) ==
  /\ rows \in Seq(Rules)
  /\ \A i, j \in DOMAIN rows : rows[i] = rows[j] => i = j
  /\ \A i \in DOMAIN rows : rows[i] \in R
  /\ \A r \in R : \E i \in DOMAIN rows : rows[i] = r

TaskShape == [at : {"idle", "query", "fetched", "evaluate", "done", "failed"}, rows : Seq(Rules),
              commit : 0..MaxEdits, began : 0..MaxEdits]
EvalShape == [rules : Seq(Rules), commit : -1..MaxEdits, next : Nat \ {0}, matched : Seq(Rules),
              over : BOOLEAN, heard : Seq(Verdicts)]
RuleShape ==
  /\ table \in Seq(SUBSET Rules) /\ Len(table) \in 1..MaxEdits + 1
  /\ cached \in Seq(Rules) /\ loaded \in -1..MaxEdits
  /\ task \in [Tasks -> TaskShape]
  /\ eval \in [Evaluations -> EvalShape]
  /\ \A e \in Evaluations :
       /\ eval[e].next <= Len(eval[e].rules) + 1 /\ Len(eval[e].matched) < eval[e].next
       /\ Len(eval[e].heard) = eval[e].next - 1
  /\ floor \in -1..MaxEdits /\ crossed \in BOOLEAN
  /\ ctx \in [Evaluations -> [Entities -> Values \cup {Missing}]]
  /\ hits \in [Entities \X Values -> Nat]

\* The versions that are held are versions of the table.
IsVersion(rows, commit) == commit \in 0..Version /\ Enumerates(rows, table[commit + 1])
Reloading(t) ==
  /\ task[t].at \in {"query", "fetched"} => task[t].began \in 0..Version
  /\ task[t].at = "fetched" =>
       task[t].began <= task[t].commit /\ IsVersion(task[t].rows, task[t].commit)
  /\ ~crossed /\ task[t].at \in {"query", "fetched"} => task[t].began >= floor
VersionInv ==
  /\ floor <= Version
  /\ loaded = Unloaded => cached = <<>>
  /\ loaded # Unloaded => IsVersion(cached, loaded)
  /\ \A t \in Tasks : Reloading(t)
  /\ StaleNeedsOverlap

Hits(e) == {i \in 1..eval[e].next - 1 : eval[e].heard[i] = "match"}
Explained(e) ==
  /\ IsVersion(eval[e].rules, eval[e].commit)
  /\ \A i, j \in DOMAIN eval[e].matched : eval[e].matched[i] = eval[e].matched[j] => i = j
  /\ \A i \in DOMAIN eval[e].matched : \E k \in Hits(e) : eval[e].matched[i] = eval[e].rules[k]
  /\ \A k \in Hits(e) : \E i \in DOMAIN eval[e].matched : eval[e].matched[i] = eval[e].rules[k]
  /\ ~eval[e].over => \A i \in DOMAIN eval[e].matched : ~eval[e].matched[i].critical
  /\ eval[e].over => \E i \in DOMAIN eval[e].matched : \A j \in DOMAIN eval[e].matched :
                       eval[e].matched[j].critical <=> j = i
  /\ task[e].at = "done" => eval[e].over \/ eval[e].next = Len(eval[e].rules) + 1
EvalInv == \A e \in Evaluations : task[e].at \in {"evaluate", "done"} => Explained(e)
RuleInv == RuleShape /\ VersionInv /\ EvalInv

\* The invariant of the rules holds at the start.
LEMMA RuleInitial == RuleAssumption /\ RuleInit => RuleInv
<1> SUFFICES ASSUME RuleAssumption, RuleInit PROVE RuleInv
  OBVIOUS
<1>1. RuleShape
  <2>1. Idling \in TaskShape /\ Blank \in EvalShape
    BY DEF RuleAssumption, Idling, Blank, TaskShape, EvalShape, Unloaded
  <2>2. table \in Seq(SUBSET Rules) /\ Len(table) = 1
    BY DEF RuleInit
  <2>3. task \in [Tasks -> TaskShape] /\ eval \in [Evaluations -> EvalShape]
    BY <2>1 DEF RuleInit
  <2>4. \A e \in Evaluations : /\ eval[e].next = 1 /\ eval[e].rules = <<>> /\ eval[e].matched = <<>>
                               /\ eval[e].heard = <<>>
    BY DEF RuleInit, Blank
  <2>5. /\ Len(table) \in 1..MaxEdits + 1 /\ cached \in Seq(Rules)
        /\ loaded \in -1..MaxEdits /\ floor \in -1..MaxEdits /\ crossed \in BOOLEAN
        /\ ctx \in [Evaluations -> [Entities -> Values \cup {Missing}]]
        /\ hits \in [Entities \X Values -> Nat]
    <3>1. cached = <<>> /\ loaded = -1 /\ floor = -1 /\ crossed = FALSE /\ MaxEdits \in Nat
      BY DEF RuleInit, RuleAssumption, Unloaded
    <3>2. cached \in Seq(Rules)
      BY <3>1
    <3>3. Len(table) \in 1..MaxEdits + 1
      BY <2>2, <3>1
    <3>4. loaded \in -1..MaxEdits /\ floor \in -1..MaxEdits
      BY <3>1
    <3>5. crossed \in BOOLEAN
      BY <3>1
    <3>6. /\ ctx \in [Evaluations -> [Entities -> Values \cup {Missing}]]
          /\ hits \in [Entities \X Values -> Nat]
      BY DEF RuleInit
    <3> QED BY <3>1, <3>2, <3>3, <3>4, <3>5, <3>6
  <2>6. ASSUME NEW e \in Evaluations
        PROVE  /\ eval[e].next <= Len(eval[e].rules) + 1 /\ Len(eval[e].matched) < eval[e].next
               /\ Len(eval[e].heard) = eval[e].next - 1
    BY <2>4
  <2> QED BY <2>2, <2>3, <2>5, <2>6 DEF RuleShape
<1>2. VersionInv
  BY DEF VersionInv, Reloading, RuleInit, Idling, StaleNeedsOverlap, Version, Unloaded
<1>3. EvalInv
  BY DEF EvalInv, RuleInit, Idling, Tasks
<1> QED BY <1>1, <1>2, <1>3 DEF RuleInv

\* A commit leaves the earlier versions of the table.
LEMMA VersionStays ==
  ASSUME RuleShape, NEW R \in SUBSET Rules, table' = Append(table, R),
         NEW rows, NEW commit, IsVersion(rows, commit)
  PROVE  IsVersion(rows, commit)'
<1>1. /\ commit \in 0..Len(table) - 1 /\ Len(table) \in Nat /\ table \in Seq(SUBSET Rules)
      /\ Enumerates(rows, table[commit + 1])
  BY DEF RuleShape, IsVersion, Version
<1>2. Len(table') = Len(table) + 1 /\ table'[commit + 1] = table[commit + 1]
  BY <1>1
<1> QED BY <1>1, <1>2 DEF IsVersion, Version, Enumerates

\* A permutation of a set has each of its elements once.
LEMMA SeqsEnumerate ==
  ASSUME NEW R \in SUBSET Rules, IsFiniteSet(R), NEW rows \in SetToSeqs(R)
  PROVE  Enumerates(rows, R)
<1> DEFINE D == 1..Cardinality(R)
<1>1. Cardinality(R) \in Nat
  BY FS_CardinalityType
<1>2. rows \in [D -> R] /\ \A i, j \in D : i # j => rows[i] # rows[j]
  BY DEF SetToSeqs
<1>3. rows \in Injection(D, R)
  BY <1>2 DEF Injection, IsInjective
<1>4. IsFiniteSet(D) /\ Cardinality(D) = Cardinality(R)
  BY <1>1, FS_Interval
<1>5. rows \in Surjection(D, R)
  BY <1>3, <1>4, FS_Injection
<1>6. \A r \in R : \E i \in D : rows[i] = r
  BY <1>5 DEF Surjection
<1>7. rows \in Seq(Rules)
  BY <1>1, <1>2
<1> QED BY <1>2, <1>6, <1>7 DEF Enumerates

\* An edit makes nothing newer that was loaded.
LEMMA EditKeeps == ASSUME RuleAssumption, RuleInv, EditRules PROVE RuleInv'
<1>0. RuleShape /\ VersionInv /\ EvalInv
  BY DEF RuleInv
<1>1. PICK R \in SUBSET Rules : table' = Append(table, R)
  BY DEF EditRules
<1>2. UNCHANGED <<cached, loaded, task, eval, ctx, hits, floor, crossed>> /\ Version < MaxEdits
  BY DEF EditRules, reloading, velocityVars
<1>3. table \in Seq(SUBSET Rules) /\ Len(table) \in Nat /\ MaxEdits \in Nat
  BY <1>0 DEF RuleShape, RuleAssumption
<1>4. table' \in Seq(SUBSET Rules) /\ Len(table') = Len(table) + 1
  BY <1>1, <1>3
<1>5. RuleShape'
  BY <1>0, <1>2, <1>3, <1>4 DEF RuleShape, TaskShape, EvalShape, Version
<1>6. \A rows, commit : IsVersion(rows, commit) => IsVersion(rows, commit)'
  BY <1>0, <1>1, VersionStays
<1>7. VersionInv'
  BY <1>0, <1>2, <1>3, <1>4, <1>6 DEF VersionInv, Reloading, StaleNeedsOverlap, Version, RuleShape
<1>8. EvalInv'
  BY <1>0, <1>2, <1>6 DEF EvalInv, Explained, Hits
<1> QED BY <1>5, <1>7, <1>8 DEF RuleInv

\* A call moves on and the cache stays.
LEMMA TaskKeeps ==
  ASSUME RuleInv, NEW t \in Tasks, NEW k \in TaskShape, task' = [task EXCEPT ![t] = k],
         UNCHANGED <<table, cached, loaded, floor, crossed>>,
         Reloading(t)'
  PROVE  /\ task' \in [Tasks -> TaskShape] /\ VersionInv'
         /\ task'[t] = k /\ \A u \in Tasks \ {t} : task'[u] = task[u]
<1>1. /\ task' \in [Tasks -> TaskShape]
      /\ task'[t] = k /\ \A u \in Tasks \ {t} : task'[u] = task[u]
  BY DEF RuleInv, RuleShape
<1>2. ASSUME NEW u \in Tasks \ {t} PROVE Reloading(u)'
  BY <1>1 DEF RuleInv, VersionInv, Reloading, IsVersion, Enumerates, Version
<1>3. VersionInv'
  BY <1>2 DEF RuleInv, VersionInv, IsVersion, Enumerates, StaleNeedsOverlap, Version
<1> QED BY <1>1, <1>3

\* An evaluation that is not touched stays explained.
LEMMA EvalStays ==
  ASSUME NEW e \in Evaluations, Explained(e), eval'[e] = eval[e], UNCHANGED table,
         task'[e].at = "done" => task[e].at = "done" \/ eval[e].over \/ eval[e].next = Len(eval[e].rules) + 1
  PROVE  Explained(e)'
BY DEF Explained, IsVersion, Enumerates, Hits, Version

\* A reload begins at the present version.
LEMMA BeginKeeps == ASSUME RuleAssumption, RuleInv, NEW t \in Tasks, BeginReload(t) PROVE RuleInv'
<1> DEFINE k == [Idling EXCEPT !.at = "query", !.began = Version]
<1>0. RuleShape /\ VersionInv /\ EvalInv
  BY DEF RuleInv
<1>1. Version \in 0..MaxEdits
  BY <1>0 DEF RuleShape, Version, RuleAssumption
<1>2. /\ UNCHANGED <<table, cached, loaded, eval, ctx, hits, floor, crossed>>
      /\ task' = [task EXCEPT ![t] = k] /\ task[t].at = "idle"
  BY DEF BeginReload, velocityVars
<1>3. k = [at |-> "query", rows |-> <<>>, commit |-> 0, began |-> Version]
  <2> DEFINE v == Version
             x == [Idling EXCEPT !.at = "query"]
  <2>1. x = [at |-> "query", rows |-> <<>>, commit |-> 0, began |-> 0]
    BY DEF Idling
  <2>2. k = [x EXCEPT !.began = v]
    OBVIOUS
  <2> HIDE DEF k, x, v
  <2>3. k = [at |-> "query", rows |-> <<>>, commit |-> 0, began |-> v]
    BY <2>1, <2>2
  <2> QED BY <2>3 DEF v
<1> HIDE DEF k
<1>4. k \in TaskShape
  BY <1>1, <1>3 DEF TaskShape, RuleAssumption
<1>5. task'[t] = k
  BY <1>0, <1>2 DEF RuleShape
<1>6. Reloading(t)'
  BY <1>0, <1>1, <1>2, <1>3, <1>5 DEF Reloading, VersionInv, Version
<1>7. /\ task' \in [Tasks -> TaskShape] /\ VersionInv'
      /\ task'[t] = k /\ \A u \in Tasks \ {t} : task'[u] = task[u]
  BY <1>2, <1>4, <1>6, TaskKeeps
<1>8. RuleShape'
  BY <1>0, <1>2, <1>7 DEF RuleShape
<1>9. EvalInv'
  BY <1>0, <1>2, <1>3, <1>7, EvalStays DEF EvalInv, Tasks
<1> QED BY <1>7, <1>8, <1>9 DEF RuleInv

\* The SELECT answers the present version, in some order.
LEMMA QueryKeeps == ASSUME RuleAssumption, RuleInv, NEW t \in Tasks, Query(t) PROVE RuleInv'
<1>0. RuleShape /\ VersionInv /\ EvalInv
  BY DEF RuleInv
<1>1. Version \in 0..MaxEdits /\ table[Version + 1] \in SUBSET Rules
  BY <1>0 DEF RuleShape, Version, RuleAssumption
<1>2. PICK rows \in SetToSeqs(table[Version + 1]) :
        task' = [task EXCEPT ![t].at = "fetched", ![t].rows = rows, ![t].commit = Version]
  BY DEF Query
<1>3. /\ UNCHANGED <<table, cached, loaded, eval, ctx, hits, floor, crossed>> /\ task[t].at = "query"
  BY DEF Query, velocityVars
<1>4. IsFiniteSet(table[Version + 1])
  BY <1>1, FS_Subset DEF RuleAssumption
<1>5. Enumerates(rows, table[Version + 1])
  BY <1>1, <1>4, SeqsEnumerate
<1> DEFINE j == task[t]
           v == Version
           k == [at |-> "fetched", rows |-> rows, commit |-> v, began |-> j.began]
<1>6. j \in TaskShape /\ rows \in Seq(Rules) /\ v \in 0..MaxEdits
  BY <1>0, <1>1, <1>5 DEF RuleShape, Enumerates
<1>7. task' = [task EXCEPT ![t] = k]
  <2>1. task' = [task EXCEPT ![t] = [j EXCEPT !.at = "fetched", !.rows = rows, !.commit = v]]
    BY <1>2
  <2> HIDE DEF j, v
  <2> DEFINE x == [j EXCEPT !.at = "fetched"]
  <2>2. x = [at |-> "fetched", rows |-> j.rows, commit |-> j.commit, began |-> j.began]
    BY <1>6 DEF TaskShape
  <2>3. [j EXCEPT !.at = "fetched", !.rows = rows, !.commit = v] = [x EXCEPT !.rows = rows, !.commit = v]
    OBVIOUS
  <2> HIDE DEF x
  <2> DEFINE y == [x EXCEPT !.rows = rows]
  <2>4. y = [at |-> "fetched", rows |-> rows, commit |-> j.commit, began |-> j.began]
    BY <2>2
  <2>5. [x EXCEPT !.rows = rows, !.commit = v] = [y EXCEPT !.commit = v]
    OBVIOUS
  <2> HIDE DEF y
  <2>6. [y EXCEPT !.commit = v] = k
    BY <2>4
  <2> QED BY <2>1, <2>3, <2>5, <2>6
<1>8. k \in TaskShape
  BY <1>6 DEF TaskShape
<1>9. task'[t] = k
  BY <1>0, <1>7 DEF RuleShape
<1>10. Reloading(t)'
  BY <1>0, <1>1, <1>3, <1>5, <1>9 DEF Reloading, VersionInv, Version, IsVersion, Enumerates
<1>11. /\ task' \in [Tasks -> TaskShape] /\ VersionInv'
       /\ task'[t] = k /\ \A u \in Tasks \ {t} : task'[u] = task[u]
  BY <1>3, <1>7, <1>8, <1>10, TaskKeeps
<1>12. RuleShape'
  BY <1>0, <1>3, <1>11 DEF RuleShape
<1>13. EvalInv'
  BY <1>0, <1>3, <1>11, EvalStays DEF EvalInv, Tasks
<1> QED BY <1>11, <1>12, <1>13 DEF RuleInv

\* A call that is over keeps nothing of what it fetched.
LEMMA IdlingAt ==
  ASSUME RuleAssumption
  PROVE  \A w \in {"done", "evaluate", "failed"} :
           [Idling EXCEPT !.at = w] \in TaskShape /\ [Idling EXCEPT !.at = w].at = w
<1> SUFFICES ASSUME NEW w \in {"done", "evaluate", "failed"}
             PROVE  [Idling EXCEPT !.at = w] \in TaskShape /\ [Idling EXCEPT !.at = w].at = w
  OBVIOUS
<1> DEFINE none == <<>>
<1>1. Idling = [at |-> "idle", rows |-> none, commit |-> 0, began |-> 0]
  BY DEF Idling
<1>2. none \in Seq(Rules) /\ 0 \in 0..MaxEdits
  BY DEF RuleAssumption
<1> HIDE DEF none
<1>3. [Idling EXCEPT !.at = w] = [at |-> w, rows |-> none, commit |-> 0, began |-> 0]
  BY <1>1
<1> QED BY <1>2, <1>3 DEF TaskShape

\* A call that ends without touching the cache.
LEMMA RaisesKeeps ==
  ASSUME RuleAssumption, RuleInv, NEW t \in Tasks, QueryRaises(t) \/ (Return(t) /\ t \in Evaluations)
  PROVE  RuleInv'
<1>0. RuleShape /\ VersionInv /\ EvalInv
  BY DEF RuleInv
<1> DEFINE x == [Idling EXCEPT !.at = "failed"]
           y == [task[t] EXCEPT !.at = "done"]
<1>a. /\ x \in TaskShape /\ x.at = "failed"
      /\ y \in TaskShape /\ y.at = "done"
  BY <1>0, IdlingAt DEF RuleShape, TaskShape
<1>b. \/ task' = [task EXCEPT ![t] = x] /\ task[t].at = "query"
      \/ /\ task' = [task EXCEPT ![t] = y] /\ task[t].at = "evaluate"
         /\ t \in Evaluations /\ ~Evaluating(t)
  BY DEF QueryRaises, Return
<1> HIDE DEF x, y
<1>1. PICK k \in TaskShape :
        /\ task' = [task EXCEPT ![t] = k] /\ k.at \in {"failed", "done"}
        /\ k.at = "failed" => task[t].at = "query"
        /\ k.at = "done" => task[t].at = "evaluate" /\ t \in Evaluations /\ ~Evaluating(t)
  BY <1>a, <1>b
<1>2. UNCHANGED <<table, cached, loaded, eval, ctx, hits, floor, crossed>>
  BY DEF QueryRaises, Return, velocityVars
<1>5. task'[t] = k
  BY <1>0, <1>1 DEF RuleShape
<1>6. Reloading(t)'
  BY <1>1, <1>5 DEF Reloading
<1>7. /\ task' \in [Tasks -> TaskShape] /\ VersionInv'
      /\ task'[t] = k /\ \A u \in Tasks \ {t} : task'[u] = task[u]
  BY <1>1, <1>2, <1>6, TaskKeeps
<1>8. RuleShape'
  BY <1>0, <1>2, <1>7 DEF RuleShape
<1>9. EvalInv'
  <2> SUFFICES ASSUME NEW e \in Evaluations, task'[e].at \in {"evaluate", "done"}
               PROVE  Explained(e)'
    BY DEF EvalInv
  <2>1. CASE e # t
    BY <1>0, <1>2, <1>7, <2>1, EvalStays DEF EvalInv, Tasks
  <2>2. CASE e = t
    <3>1. k.at = "done" /\ task[e].at = "evaluate" /\ ~Evaluating(e)
      BY <1>1, <1>7, <2>2
    <3>2. /\ eval[e] \in EvalShape /\ eval[e].next <= Len(eval[e].rules) + 1
          /\ Explained(e)
      BY <1>0, <3>1 DEF RuleShape, EvalInv
    <3>3. eval[e].over \/ eval[e].next = Len(eval[e].rules) + 1
      BY <3>1, <3>2 DEF Evaluating, EvalShape
    <3> QED BY <1>2, <3>2, <3>3, EvalStays
  <2> QED BY <2>1, <2>2
<1> QED BY <1>7, <1>8, <1>9 DEF RuleInv

\* The fields of what an evaluation captures.
LEMMA CapturedIs ==
  ASSUME NEW rows, NEW commit
  PROVE  Captured(rows, commit) =
           [rules |-> rows, commit |-> commit, next |-> 1, matched |-> <<>>, over |-> FALSE,
            heard |-> <<>>]
<1> DEFINE none == <<>>
           no   == FALSE
           z    == Blank
           x    == [z EXCEPT !.rules = rows]
<1>0. z = [rules |-> none, commit |-> Unloaded, next |-> 1, matched |-> none, over |-> no, heard |-> none]
  BY DEF Blank
<1>1. Captured(rows, commit) = [z EXCEPT !.rules = rows, !.commit = commit]
  BY DEF Captured
<1>2. [z EXCEPT !.rules = rows, !.commit = commit] = [x EXCEPT !.commit = commit]
  OBVIOUS
<1> HIDE DEF z, none, no
<1>3. x = [rules |-> rows, commit |-> Unloaded, next |-> 1, matched |-> none, over |-> no, heard |-> none]
  BY <1>0
<1> HIDE DEF x
<1>4. [x EXCEPT !.commit = commit] =
        [rules |-> rows, commit |-> commit, next |-> 1, matched |-> none, over |-> no, heard |-> none]
  BY <1>3
<1>5. Captured(rows, commit) =
        [rules |-> rows, commit |-> commit, next |-> 1, matched |-> none, over |-> no, heard |-> none]
  BY <1>1, <1>2, <1>4
<1> QED BY <1>5 DEF none, no

\* What an evaluation starts with.
LEMMA CapturedStarts ==
  ASSUME RuleAssumption, NEW rows, NEW commit, NEW e \in Evaluations,
         eval'[e] = Captured(rows, commit), IsVersion(rows, commit)', task'[e].at = "evaluate"
  PROVE  Explained(e)'
<1>3. eval'[e] = [rules |-> rows, commit |-> commit, next |-> 1, matched |-> <<>>, over |-> FALSE,
            heard |-> <<>>]
  BY CapturedIs
<1>4. /\ eval'[e].rules = rows /\ eval'[e].commit = commit /\ eval'[e].next = 1
      /\ eval'[e].matched = <<>> /\ eval'[e].over = FALSE /\ eval'[e].heard = <<>>
  BY <1>3
<1>5. Hits(e)' = {}
  BY <1>4 DEF Hits
<1> QED BY <1>4, <1>5 DEF Explained

\* The same, as a record of the right shape.
LEMMA CapturedShape ==
  ASSUME NEW rows \in Seq(Rules), NEW commit \in -1..MaxEdits
  PROVE  /\ Captured(rows, commit) \in EvalShape
         /\ Captured(rows, commit).next = 1 /\ Captured(rows, commit).rules = rows
         /\ Captured(rows, commit).matched = <<>> /\ Captured(rows, commit).heard = <<>>
<1>3. Captured(rows, commit) = [rules |-> rows, commit |-> commit, next |-> 1, matched |-> <<>>, over |-> FALSE,
            heard |-> <<>>]
  BY CapturedIs
<1> QED BY <1>3 DEF EvalShape

\* An evaluation starts with the list that is in the cache.
LEMMA EvaluateKeeps == ASSUME RuleAssumption, RuleInv, NEW e \in Evaluations, Evaluate(e) PROVE RuleInv'
<1>0. RuleShape /\ VersionInv /\ EvalInv /\ e \in Tasks
  BY DEF RuleInv, Tasks
<1>1. /\ UNCHANGED <<table, cached, loaded, ctx, hits, floor, crossed>>
      /\ task' = [task EXCEPT ![e].at = "evaluate"] /\ task[e].at = "idle" /\ ~NeverLoaded
      /\ eval' = [eval EXCEPT ![e] = Captured(cached, loaded)]
  BY DEF Evaluate, velocityVars
<1> DEFINE k == [task[e] EXCEPT !.at = "evaluate"]
<1>2. k \in TaskShape /\ k.at = "evaluate"
  BY <1>0 DEF RuleShape, TaskShape
<1>3. task' = [task EXCEPT ![e] = k]
  BY <1>1
<1> HIDE DEF k
<1>4. task'[e] = k
  BY <1>0, <1>3 DEF RuleShape
<1>5. Reloading(e)'
  BY <1>2, <1>4 DEF Reloading
<1>6. /\ task' \in [Tasks -> TaskShape] /\ VersionInv'
      /\ task'[e] = k /\ \A u \in Tasks \ {e} : task'[u] = task[u]
  BY <1>0, <1>1, <1>2, <1>3, <1>5, TaskKeeps
<1>7. IsVersion(cached, loaded)'
  BY <1>0, <1>1 DEF NeverLoaded, VersionInv, IsVersion, Enumerates, Version
<1>8. /\ eval'[e] = Captured(cached, loaded) /\ \A f \in Evaluations \ {e} : eval'[f] = eval[f]
      /\ DOMAIN eval' = Evaluations /\ eval' = [f \in Evaluations |-> eval'[f]]
  BY <1>0, <1>1 DEF RuleShape
<1>9. /\ eval'[e] \in EvalShape /\ eval'[e].next = 1 /\ eval'[e].rules = cached /\ eval'[e].matched = <<>>
      /\ eval'[e].heard = <<>> /\ Len(cached) \in Nat
  BY <1>0, <1>8, CapturedShape DEF RuleShape
<1>10. RuleShape'
  <2>1. \A f \in Evaluations :
          /\ eval'[f] \in EvalShape /\ eval'[f].next <= Len(eval'[f].rules) + 1
          /\ Len(eval'[f].matched) < eval'[f].next /\ Len(eval'[f].heard) = eval'[f].next - 1
    BY <1>0, <1>8, <1>9 DEF RuleShape
  <2>2. eval' \in [Evaluations -> EvalShape]
    BY <1>8, <2>1
  <2> QED BY <1>0, <1>1, <1>6, <2>1, <2>2 DEF RuleShape
<1>11. EvalInv'
  <2> SUFFICES ASSUME NEW f \in Evaluations, task'[f].at \in {"evaluate", "done"}
               PROVE  Explained(f)'
    BY DEF EvalInv
  <2>1. CASE f # e
    BY <1>0, <1>1, <1>6, <1>8, <2>1, EvalStays DEF EvalInv, Tasks
  <2>2. CASE f = e
    BY <1>1, <1>2, <1>4, <1>7, <1>8, <2>2, CapturedStarts
  <2> QED BY <2>1, <2>2
<1> QED BY <1>6, <1>10, <1>11 DEF RuleInv

\* The reload that ends last decides what the cache holds.
LEMMA EndKeeps == ASSUME RuleAssumption, RuleInv, NEW t \in Tasks, EndReload(t) PROVE RuleInv'
<1>0. RuleShape /\ VersionInv /\ EvalInv
  BY DEF RuleInv
<1> DEFINE j == task[t]
           w == IF t \in Reloads THEN "done" ELSE "evaluate"
           k == [Idling EXCEPT !.at = w]
<1>1. /\ cached' = j.rows /\ loaded' = j.commit /\ UNCHANGED <<table, ctx, hits>>
      /\ eval' = [e \in Evaluations |-> IF e = t THEN Captured(j.rows, j.commit) ELSE eval[e]]
      /\ floor' = (IF j.began > floor THEN j.began ELSE floor)
      /\ crossed' = (crossed \/ \E u \in Tasks \ {t} : task[u].at \in {"query", "fetched"})
      /\ task' = [task EXCEPT ![t] = k] /\ j.at = "fetched"
  BY DEF EndReload, Completed, velocityVars
<1>2. j \in TaskShape /\ Reloading(t) /\ w \in {"done", "evaluate"}
  BY <1>0 DEF RuleShape, VersionInv
<1>3. /\ j.rows \in Seq(Rules) /\ j.commit \in 0..MaxEdits /\ j.began \in 0..Version
      /\ j.began <= j.commit /\ IsVersion(j.rows, j.commit) /\ j.began \in 0..MaxEdits
      /\ ~crossed => j.began >= floor
  BY <1>1, <1>2 DEF Reloading, TaskShape
<1>4. k \in TaskShape /\ k.at = w
  BY <1>2, IdlingAt
<1>5. task' = [task EXCEPT ![t] = k]
  BY <1>1
<1>6. t \notin Reloads => t \in Evaluations
  BY DEF Tasks
<1>7. t \in Evaluations => w = "evaluate"
  BY DEF RuleAssumption
<1> HIDE DEF k, w
<1>8. /\ task' \in [Tasks -> TaskShape] /\ task'[t] = k
      /\ \A u \in Tasks \ {t} : task'[u] = task[u]
  BY <1>0, <1>4, <1>5 DEF RuleShape
<1>9. floor \in -1..MaxEdits /\ crossed \in BOOLEAN /\ MaxEdits \in Nat /\ floor <= Version
  BY <1>0 DEF RuleShape, RuleAssumption, VersionInv
<1>10. /\ floor' \in -1..MaxEdits /\ crossed' \in BOOLEAN
       /\ floor' <= Version /\ loaded' \in 0..MaxEdits
       /\ loaded' >= floor' \/ crossed'
  <2> HIDE DEF j
  <2>1. CASE j.began > floor
    BY <1>1, <1>3, <1>9, <2>1
  <2>2. CASE ~(j.began > floor)
    BY <1>1, <1>3, <1>9, <2>2
  <2> QED BY <2>1, <2>2
<1>11. VersionInv'
  <2>1. floor' <= Version' /\ StaleNeedsOverlap'
    BY <1>1, <1>10 DEF Version, StaleNeedsOverlap
  <2>2. IsVersion(cached, loaded)' /\ loaded' # Unloaded
    BY <1>1, <1>3, <1>10 DEF IsVersion, Enumerates, Version, Unloaded
  <2>3. ASSUME NEW u \in Tasks PROVE Reloading(u)'
    <3>1. CASE u = t
      BY <1>2, <1>4, <1>8, <3>1 DEF Reloading
    <3>2. CASE u # t
      <4>1. task'[u] = task[u] /\ Reloading(u)
        BY <1>0, <1>8, <3>2 DEF VersionInv
      <4>2. task[u].at \in {"query", "fetched"} => crossed'
        BY <1>1, <3>2
      <4> QED BY <1>1, <4>1, <4>2 DEF Reloading, IsVersion, Enumerates, Version
    <3> QED BY <3>1, <3>2
  <2> QED BY <2>1, <2>2, <2>3 DEF VersionInv
<1>12. /\ \A e \in Evaluations \ {t} : eval'[e] = eval[e]
       /\ t \in Evaluations => eval'[t] = Captured(j.rows, j.commit)
       /\ eval' = [e \in Evaluations |-> eval'[e]]
  BY <1>1
<1>13. /\ Captured(j.rows, j.commit) \in EvalShape
       /\ Captured(j.rows, j.commit).next = 1 /\ Captured(j.rows, j.commit).rules = j.rows
       /\ Captured(j.rows, j.commit).matched = <<>> /\ Captured(j.rows, j.commit).heard = <<>>
  <2>1. j.commit \in -1..MaxEdits
    BY <1>3, <1>9
  <2> QED BY <1>3, <2>1, CapturedShape
<1> HIDE DEF j
<1>14. RuleShape'
  <2>1. ASSUME NEW e \in Evaluations
        PROVE  /\ eval'[e] \in EvalShape
               /\ eval'[e].next <= Len(eval'[e].rules) + 1 /\ Len(eval'[e].matched) < eval'[e].next
               /\ Len(eval'[e].heard) = eval'[e].next - 1
    <3>1. CASE e = t
      <4>1. Len(j.rows) \in Nat
        BY <1>3
      <4>2. /\ eval'[e].next = 1 /\ eval'[e].rules = j.rows /\ eval'[e].matched = <<>>
            /\ eval'[e] \in EvalShape /\ eval'[e].heard = <<>>
        BY <1>12, <1>13, <3>1
      <4> QED BY <4>1, <4>2
    <3>2. CASE e # t
      BY <1>0, <1>12, <3>2 DEF RuleShape
    <3> QED BY <3>1, <3>2
  <2>2. eval' \in [Evaluations -> EvalShape]
    BY <1>12, <2>1
  <2>3. cached' \in Seq(Rules) /\ loaded' \in -1..MaxEdits
    BY <1>1, <1>3, <1>9
  <2> QED BY <1>0, <1>1, <1>8, <1>10, <2>1, <2>2, <2>3 DEF RuleShape
<1>15. EvalInv'
  <2> SUFFICES ASSUME NEW e \in Evaluations, task'[e].at \in {"evaluate", "done"}
               PROVE  Explained(e)'
    BY DEF EvalInv
  <2>1. CASE e # t
    BY <1>0, <1>1, <1>8, <1>12, <2>1, EvalStays DEF EvalInv, Tasks
  <2>2. CASE e = t
    <3>1. task'[e].at = "evaluate" /\ eval'[e] = Captured(cached', loaded')
      BY <1>1, <1>4, <1>7, <1>8, <1>12, <2>2
    <3>3. IsVersion(cached, loaded)'
      BY <1>1, <1>3, <1>10 DEF IsVersion, Enumerates, Version
    <3> QED BY <3>1, <3>3, CapturedStarts
  <2> QED BY <2>1, <2>2
<1> QED BY <1>11, <1>14, <1>15 DEF RuleInv

\* What a turn of the loop that the rule answers with a leaves behind.
Turned(e, a) ==
  LET rule == eval[e].rules[eval[e].next] IN
  /\ Says(e, rule, a)
  /\ eval'[e].rules = eval[e].rules /\ eval'[e].commit = eval[e].commit
  /\ eval'[e].next = eval[e].next + 1
  /\ eval'[e].heard = Append(eval[e].heard, a)
  /\ eval'[e].matched = IF a = "match" THEN Append(eval[e].matched, rule) ELSE eval[e].matched
  /\ eval'[e].over = (a = "match" /\ rule.critical)
  /\ eval'[e] \in EvalShape
  /\ eval' \in [Evaluations -> EvalShape]
  /\ \A f \in Evaluations \ {e} : eval'[f] = eval[f]

\* One turn of the loop: the fields that change, one by one.
LEMMA TurnIs ==
  ASSUME RuleAssumption, RuleInv, NEW e \in Evaluations, EvaluateRule(e)
  PROVE  \E a \in Verdicts : Turned(e, a)
<1> DEFINE v    == eval[e]
           n    == v.next
           rule == v.rules[n]
<1>a. PICK a \in Verdicts : Says(e, rule, a) /\ eval' = [eval EXCEPT ![e] = Answered(v, rule, a)]
  BY DEF EvaluateRule
<1> DEFINE hit  == a = "match"
           m    == IF hit THEN Append(v.matched, rule) ELSE v.matched
           o    == a = "match" /\ rule.critical
           h    == Append(v.heard, a)
           x    == [v EXCEPT !.next = n + 1]
           y    == [x EXCEPT !.heard = h]
           w    == [y EXCEPT !.matched = m]
           z    == [w EXCEPT !.over = o]
<1>0. RuleShape
  BY DEF RuleInv
<1>2. v \in EvalShape /\ n \in 1..Len(v.rules) /\ rule \in Rules
  BY <1>0 DEF RuleShape, EvaluateRule, Evaluating, EvalShape
<1>3. v = [rules |-> v.rules, commit |-> v.commit, next |-> n, matched |-> v.matched, over |-> v.over,
           heard |-> v.heard]
  BY <1>2 DEF EvalShape
<1>1. eval' = [eval EXCEPT ![e] = z]
  <2>1. Answered(v, rule, a) = [v EXCEPT !.next = v.next + 1, !.heard = Append(v.heard, a),
             !.matched = IF a = "match" THEN Append(v.matched, rule) ELSE v.matched,
             !.over = o]
    BY <1>3 DEF Answered
  <2> HIDE DEF rule, v
  <2>2. Answered(v, rule, a) = z
    BY <2>1
  <2> HIDE DEF z
  <2> QED BY <1>a, <2>2
<1>4. m \in Seq(Rules) /\ o \in BOOLEAN /\ h \in Seq(Verdicts)
  BY <1>2 DEF EvalShape, RuleAssumption
<1> HIDE DEF v, m, o, n, h
<1>5. x = [rules |-> v.rules, commit |-> v.commit, next |-> n + 1, matched |-> v.matched, over |-> v.over,
           heard |-> v.heard]
  BY <1>3
<1> HIDE DEF x
<1>6. y = [rules |-> v.rules, commit |-> v.commit, next |-> n + 1, matched |-> v.matched, over |-> v.over,
           heard |-> h]
  BY <1>5
<1> HIDE DEF y
<1>7. w = [rules |-> v.rules, commit |-> v.commit, next |-> n + 1, matched |-> m, over |-> v.over,
           heard |-> h]
  BY <1>6
<1> HIDE DEF w
<1>8. z = [rules |-> v.rules, commit |-> v.commit, next |-> n + 1, matched |-> m, over |-> o,
           heard |-> h]
  BY <1>7
<1> HIDE DEF z
<1>9. z \in EvalShape
  BY <1>2, <1>4, <1>8 DEF EvalShape
<1>10. /\ eval'[e] = z /\ \A f \in Evaluations \ {e} : eval'[f] = eval[f]
       /\ eval' \in [Evaluations -> EvalShape]
  BY <1>0, <1>1, <1>9 DEF RuleShape
<1>11. /\ eval'[e].rules = v.rules /\ eval'[e].commit = v.commit /\ eval'[e].next = n + 1
       /\ eval'[e].matched = m /\ eval'[e].over = o /\ eval'[e].heard = h
  BY <1>8, <1>10
<1>12. eval'[e].over = (a = "match" /\ rule.critical)
  BY <1>11, Zenon DEF o
<1>13. Turned(e, a)
  BY <1>a, <1>9, <1>10, <1>11, <1>12 DEF Turned, m, n, v, h
<1> QED BY <1>13

\* A turn adds the rule it looks at, if it matches, and no other.
LEMMA TurnExplains ==
  ASSUME RuleAssumption, RuleInv, NEW e \in Evaluations, EvaluateRule(e), task' = task,
         NEW a \in Verdicts, Turned(e, a)
  PROVE  Explained(e)'
<1> DEFINE v    == eval[e]
           n    == v.next
           rule == v.rules[n]
           hit  == a = "match"
<1>0. /\ RuleShape /\ EvalInv /\ UNCHANGED table
      /\ task[e].at = "evaluate" /\ ~v.over /\ n <= Len(v.rules)
  BY DEF RuleInv, EvaluateRule, Evaluating
<1>1. Explained(e)
  BY <1>0 DEF EvalInv
<1>2. /\ v.rules \in Seq(Rules) /\ n \in 1..Len(v.rules) /\ rule \in Rules
      /\ v.matched \in Seq(Rules) /\ Len(v.matched) < n /\ DOMAIN v.rules = 1..Len(v.rules)
      /\ DOMAIN v.matched = 1..Len(v.matched) /\ Len(v.rules) \in Nat /\ Len(v.matched) \in Nat
      /\ v.heard \in Seq(Verdicts) /\ Len(v.heard) = n - 1
  BY <1>0 DEF RuleShape, EvalShape
<1>3. /\ eval'[e].rules = v.rules /\ eval'[e].commit = v.commit /\ eval'[e].next = n + 1
      /\ eval'[e].matched = (IF hit THEN Append(v.matched, rule) ELSE v.matched)
      /\ eval'[e].over = (hit /\ rule.critical) /\ eval'[e].heard = Append(v.heard, a)
  BY DEF Turned
<1>4. \A i, j \in DOMAIN v.rules : v.rules[i] = v.rules[j] => i = j
  BY <1>1 DEF Explained, IsVersion, Enumerates
<1>5. IsVersion(eval[e].rules, eval[e].commit)'
  BY <1>0, <1>1, <1>3 DEF Explained, IsVersion, Enumerates, Version
<1>6. /\ \A i, j \in DOMAIN v.matched : v.matched[i] = v.matched[j] => i = j
      /\ \A i \in DOMAIN v.matched : \E k \in Hits(e) : v.matched[i] = v.rules[k]
      /\ \A k \in Hits(e) : \E i \in DOMAIN v.matched : v.matched[i] = v.rules[k]
      /\ \A i \in DOMAIN v.matched : ~v.matched[i].critical
  BY <1>0, <1>1 DEF Explained
<1>7. /\ \A k : k \in Hits(e) => k \in 1..n - 1
      /\ \A k : k \in Hits(e)' <=> k \in Hits(e) \/ (k = n /\ hit)
  <2> DEFINE h == v.heard
             g == eval'[e].heard
             l == n + 1
  <2>1. /\ \A k : k \in Hits(e) <=> k \in 1..n - 1 /\ h[k] = "match"
        /\ \A k : k \in Hits(e)' <=> k \in 1..l - 1 /\ g[k] = "match"
    BY <1>3 DEF Hits
  <2> HIDE DEF h, g
  <2>2. g = Append(h, a) /\ h \in Seq(Verdicts) /\ Len(h) = n - 1 /\ n \in Nat \ {0}
    BY <1>2, <1>3 DEF h, g
  <2> HIDE DEF n
  <2>3. (\A k \in 1..n - 1 : g[k] = h[k]) /\ g[n] = a
    BY <2>2
  <2>4. \A k : k \in 1..l - 1 <=> k \in 1..n - 1 \/ k = n
    BY <2>2
  <2> QED BY <2>1, <2>3, <2>4
<1>8. \A i \in DOMAIN v.matched : v.matched[i] # rule
  <2> SUFFICES ASSUME NEW i \in DOMAIN v.matched, v.matched[i] = rule PROVE FALSE
    OBVIOUS
  <2>1. PICK k \in Hits(e) : v.matched[i] = v.rules[k]
    BY <1>6
  <2>2. k \in 1..n - 1
    BY <1>7
  <2> HIDE DEF v, n
  <2>3. k \in DOMAIN v.rules /\ n \in DOMAIN v.rules /\ k # n
    BY <1>2, <2>2
  <2> QED BY <1>4, <2>1, <2>3
<1>9. task'[e].at = "evaluate"
  BY <1>0
<1> HIDE DEF n
<1>10. CASE ~hit
  <2>1. eval'[e].matched = v.matched /\ ~eval'[e].over
    BY <1>3, <1>10
  <2>2. \A k : k \in Hits(e)' <=> k \in Hits(e)
    BY <1>7, <1>10
  <2>3. /\ \A i \in DOMAIN v.matched : \E k \in Hits(e)' : v.matched[i] = v.rules[k]
        /\ \A k \in Hits(e)' : \E i \in DOMAIN v.matched : v.matched[i] = v.rules[k]
    BY <1>6, <2>2
  <2> DEFINE m == eval'[e].matched
             o == eval'[e].over
  <2>4. eval'[e].rules = v.rules /\ m = v.matched /\ ~o
    BY <1>3, <2>1
  <2> HIDE DEF v, m, o
  <2>5. /\ \A i, j \in DOMAIN m : m[i] = m[j] => i = j
        /\ \A i \in DOMAIN m : \E k \in Hits(e)' : m[i] = v.rules[k]
        /\ \A k \in Hits(e)' : \E i \in DOMAIN m : m[i] = v.rules[k]
        /\ ~o => \A i \in DOMAIN m : ~m[i].critical
        /\ o => \E i \in DOMAIN m : \A j \in DOMAIN m : m[j].critical <=> j = i
    BY <1>6, <2>3, <2>4
  <2> QED BY <1>5, <1>9, <2>4, <2>5 DEF Explained, m, o
<1>11. CASE hit
  <2> DEFINE m == eval'[e].matched
             l == Len(v.matched) + 1
             o == eval'[e].over
  <2> HIDE DEF v
  <2>1. /\ m \in Seq(Rules) /\ DOMAIN m = DOMAIN v.matched \cup {l} /\ l \notin DOMAIN v.matched
        /\ \A i \in DOMAIN v.matched : m[i] = v.matched[i]
        /\ m[l] = rule
    <3> HIDE DEF rule, hit
    <3>1. m = Append(v.matched, rule)
      BY <1>3, <1>11
    <3> QED BY <1>2, <3>1
  <2>2. \A k : k \in Hits(e)' <=> k \in Hits(e) \/ k = n
    BY <1>7, <1>11
  <2>7. o = rule.critical
    <3> DEFINE c == rule.critical
    <3>1. o = (hit /\ c)
      BY <1>3
    <3>2. c \in BOOLEAN
      BY <1>2 DEF RuleAssumption
    <3> HIDE DEF c, o
    <3> QED BY <1>11, <3>1, <3>2, Zenon DEF c
  <2> HIDE DEF m, l, o
  <2>4. \A i, j \in DOMAIN m : m[i] = m[j] => i = j
    BY <1>6, <1>8, <2>1
  <2>5. \A i \in DOMAIN m : \E k \in Hits(e)' : m[i] = v.rules[k]
    <3> SUFFICES ASSUME NEW i \in DOMAIN m PROVE \E k \in Hits(e)' : m[i] = v.rules[k]
      OBVIOUS
    <3>1. CASE i = l
      BY <2>1, <2>2, <3>1 DEF rule
    <3>2. CASE i # l
      BY <1>6, <2>1, <2>2, <3>2
    <3> QED BY <3>1, <3>2
  <2>6. \A k \in Hits(e)' : \E i \in DOMAIN m : m[i] = v.rules[k]
    <3> SUFFICES ASSUME NEW k \in Hits(e)' PROVE \E i \in DOMAIN m : m[i] = v.rules[k]
      OBVIOUS
    <3>1. CASE k = n
      BY <2>1, <2>2, <3>1 DEF rule
    <3>2. CASE k # n
      BY <1>6, <2>1, <2>2, <3>2
    <3> QED BY <3>1, <3>2
  <2>8. ~o => \A i \in DOMAIN m : ~m[i].critical
    BY <1>6, <2>1, <2>7
  <2>9. o => \E i \in DOMAIN m : \A j \in DOMAIN m : m[j].critical <=> j = i
    <3> SUFFICES ASSUME o PROVE \A j \in DOMAIN m : m[j].critical <=> j = l
      BY <2>1
    <3> QED BY <1>6, <2>1, <2>7
  <2>10. eval'[e].rules = v.rules
    BY <1>3
  <2> QED BY <1>5, <1>9, <2>4, <2>5, <2>6, <2>8, <2>9, <2>10 DEF Explained, m, o
<1> QED BY <1>10, <1>11

\* Whatever a rule says, the counters stay counters.
LEMMA SaysTyped ==
  ASSUME RuleShape, NEW e \in Evaluations, NEW rule, NEW a, Says(e, rule, a)
  PROVE  hits' \in [Entities \X Values -> Nat]
<1>1. hits \in [Entities \X Values -> Nat]
  BY DEF RuleShape
<1>2. CASE UNCHANGED hits
  BY <1>1, <1>2
<1>3. CASE hits' = [hits EXCEPT ![Key(e, rule)] = @ + 1]
  <2> DEFINE k == Key(e, rule)
             S == Entities \X Values
  <2>1. hits \in [S -> Nat] /\ hits' = [hits EXCEPT ![k] = hits[k] + 1]
    BY <1>1, <1>3
  <2> HIDE DEF k, S
  <2>2. hits' = [x \in S |-> IF x = k THEN hits[k] + 1 ELSE hits[x]]
    BY <2>1
  <2>3. \A x \in S : (IF x = k THEN hits[k] + 1 ELSE hits[x]) \in Nat
    BY <2>1
  <2>4. hits' \in [S -> Nat]
    BY <2>2, <2>3
  <2> QED BY <2>4 DEF S
<1> QED BY <1>2, <1>3 DEF Says

\* A turn of the loop touches its own evaluation only.
LEMMA TurnKeeps ==
  ASSUME RuleAssumption, RuleInv, NEW e \in Evaluations, EvaluateRule(e) PROVE RuleInv'
<1>0. /\ RuleShape /\ VersionInv /\ EvalInv
      /\ UNCHANGED <<table, cached, loaded, task, ctx, floor, crossed>>
  BY DEF RuleInv, EvaluateRule, reloading
<1> DEFINE v == eval[e]
<1>a. PICK a \in Verdicts : Turned(e, a)
  BY TurnIs
<1>1. /\ eval'[e].next = v.next + 1 /\ eval'[e].rules = v.rules
      /\ eval'[e].matched = (IF a = "match" THEN Append(v.matched, v.rules[v.next]) ELSE v.matched)
      /\ eval'[e].heard = Append(v.heard, a)
      /\ eval' \in [Evaluations -> EvalShape]
      /\ \A f \in Evaluations \ {e} : eval'[f] = eval[f]
  BY <1>a DEF Turned
<1>2. /\ v \in EvalShape /\ v.next <= Len(v.rules) /\ Len(v.matched) < v.next
      /\ Len(v.heard) = v.next - 1
  BY <1>0 DEF EvaluateRule, Evaluating, RuleShape
<1>3. /\ eval'[e].next <= Len(eval'[e].rules) + 1 /\ Len(eval'[e].matched) < eval'[e].next
      /\ Len(eval'[e].heard) = eval'[e].next - 1
  <2>1. /\ v.rules \in Seq(Rules) /\ v.matched \in Seq(Rules) /\ v.next \in 1..Len(v.rules)
        /\ v.rules[v.next] \in Rules /\ Len(v.matched) \in Nat /\ Len(v.rules) \in Nat
        /\ v.heard \in Seq(Verdicts)
    BY <1>2 DEF EvalShape
  <2>2. Len(eval'[e].matched) <= Len(v.matched) + 1
    BY <1>1, <2>1
  <2>3. Len(eval'[e].matched) \in Nat
    BY <1>1 DEF EvalShape
  <2>4. Len(eval'[e].heard) = Len(v.heard) + 1
    BY <1>1, <2>1
  <2> HIDE DEF v
  <2> QED BY <1>1, <1>2, <2>1, <2>2, <2>3, <2>4
<1>4. RuleShape'
  <2>1. hits' \in [Entities \X Values -> Nat]
    BY <1>0, <1>a, SaysTyped DEF Turned
  <2>2. \A f \in Evaluations :
          /\ eval'[f].next <= Len(eval'[f].rules) + 1 /\ Len(eval'[f].matched) < eval'[f].next
          /\ Len(eval'[f].heard) = eval'[f].next - 1
    BY <1>0, <1>1, <1>3 DEF RuleShape
  <2> QED BY <1>0, <1>1, <2>1, <2>2 DEF RuleShape
<1>5. VersionInv'
  BY <1>0 DEF VersionInv, Reloading, IsVersion, Enumerates, StaleNeedsOverlap, Version
<1>6. EvalInv'
  <2> SUFFICES ASSUME NEW f \in Evaluations, task'[f].at \in {"evaluate", "done"}
               PROVE  Explained(f)'
    BY DEF EvalInv
  <2>1. CASE f = e
    BY <1>0, <1>a, <2>1, TurnExplains
  <2>2. CASE f # e
    BY <1>0, <1>1, <2>2, EvalStays DEF EvalInv
  <2> QED BY <2>1, <2>2
<1> QED BY <1>4, <1>5, <1>6 DEF RuleInv

\* A counter that is forgotten is none of this invariant's business.
LEMMA ForgetKeeps == ASSUME RuleInv, Forget PROVE RuleInv'
<1>1. UNCHANGED <<table, cached, loaded, task, eval, ctx, floor, crossed>>
  BY DEF Forget, reloading
<1>2. RuleShape'
  <2>1. hits \in [Entities \X Values -> Nat]
    BY DEF RuleInv, RuleShape
  <2>2. hits' \in [Entities \X Values -> Nat]
    BY <2>1 DEF Forget
  <2> QED BY <1>1, <2>2 DEF RuleInv, RuleShape
<1>3. VersionInv' /\ EvalInv'
  BY <1>1 DEF RuleInv, VersionInv, EvalInv, Reloading, Explained, Hits, IsVersion, Enumerates,
              StaleNeedsOverlap, Version
<1> QED BY <1>2, <1>3 DEF RuleInv

\* The invariant is inductive.
LEMMA RulePreserved == RuleAssumption /\ RuleInv /\ [RuleNext]_ruleVars => RuleInv'
<1> SUFFICES ASSUME RuleAssumption, RuleInv, [RuleNext]_ruleVars PROVE RuleInv'
  OBVIOUS
<1>1. CASE EditRules \/ Forget
  BY <1>1, EditKeeps, ForgetKeeps
<1>2. ASSUME NEW t \in Tasks, BeginReload(t) \/ Query(t) \/ QueryRaises(t) \/ EndReload(t)
      PROVE  RuleInv'
  BY <1>2, BeginKeeps, QueryKeeps, RaisesKeeps, EndKeeps
<1>3. ASSUME NEW e \in Evaluations, Evaluate(e) \/ EvaluateRule(e) \/ Return(e)
      PROVE  RuleInv'
  BY <1>3, EvaluateKeeps, TurnKeeps, RaisesKeeps DEF Tasks
<1>4. CASE UNCHANGED ruleVars
  BY <1>4 DEF ruleVars, reloading, velocityVars, RuleInv, RuleShape, VersionInv, EvalInv, Reloading, Explained, Hits,
              IsVersion, Enumerates, StaleNeedsOverlap, Version
<1> QED BY <1>1, <1>2, <1>3, <1>4 DEF RuleNext

\* It contains the properties.
LEMMA RuleSafe == RuleAssumption /\ RuleInv => RuleTypeOK /\ StaleNeedsOverlap
<1> SUFFICES ASSUME RuleAssumption, RuleInv PROVE RuleTypeOK
  BY DEF RuleInv, VersionInv
<1>0. RuleShape
  BY DEF RuleInv
<1>1. Version \in 0..MaxEdits
  <2>1. Len(table) \in 1..MaxEdits + 1
    BY <1>0 DEF RuleShape
  <2> QED BY <2>1 DEF Version, RuleAssumption
<1>2. \A q \in Seq(Rules) : ToSet(q) \subseteq Rules
  BY DEF ToSet
<1>3. \A t \in Tasks : /\ task[t].at \in {"idle", "query", "fetched", "evaluate", "done", "failed"}
                       /\ task[t].rows \in Seq(Rules) /\ task[t].commit \in 0..MaxEdits
  BY <1>0 DEF RuleShape, TaskShape
<1>4. \A e \in Evaluations :
        /\ eval[e].rules \in Seq(Rules)
        /\ eval[e].next \in 1..Len(eval[e].rules) + 1
        /\ Len(eval[e].matched) < eval[e].next
        /\ eval[e].heard \in Seq(Verdicts) /\ Len(eval[e].heard) = eval[e].next - 1
  BY <1>0 DEF RuleShape, EvalShape
<1> QED BY <1>0, <1>1, <1>2, <1>3, <1>4 DEF RuleTypeOK, RuleShape
\* The points of a set of rules are a fold of them.
LEMMA PointsOfSet ==
  ASSUME NEW T, IsFiniteSet(T), \A r \in T : r.points \in Int
  PROVE  \E f : SumsUp(T, [r \in T |-> r.points], f) /\ MapThenSumSet(LAMBDA r : r.points, T) = f[T]
<1> DEFINE w == [r \in T |-> r.points]
           Eq(f) == f = [s \in SUBSET T |-> IF s = {} THEN 0 ELSE First(s).points + f[s \ {First(s)}]]
           c == CHOOSE f : Eq(f)
<1>1. w \in [T -> Int]
  OBVIOUS
<1>2. ASSUME NEW f, IsFold(T, w, f) PROVE Eq(f)
  <2>1. \A s \in SUBSET T : s # {} => w[First(s)] = First(s).points
    BY FirstIn
  <2> QED BY <1>2, <2>1 DEF IsFold
<1>3. ASSUME NEW f, Eq(f) PROVE IsFold(T, w, f)
  <2>1. \A s \in SUBSET T : s # {} => w[First(s)] = First(s).points
    BY FirstIn
  <2> QED BY <1>3, <2>1 DEF IsFold
<1>4. \E f : Eq(f)
  <2>1. \E f : IsFold(T, w, f)
    BY <1>1, FoldExists
  <2> HIDE DEF Eq
  <2> QED BY <1>2, <2>1
<1>5. Eq(c)
  <2> HIDE DEF Eq
  <2> QED BY <1>4
<1>6. MapThenSumSet(LAMBDA r : r.points, T) = c[T]
  BY DEF MapThenSumSet, MapThenFoldSet, First
<1> HIDE DEF c
<1>7. SumsUp(T, w, c)
  <2>1. IsFold(T, w, c)
    BY <1>3, <1>5
  <2> HIDE DEF w
  <2> QED BY <1>1, <2>1, FoldValue
<1> QED BY <1>6, <1>7

\* The points of a sequence of rules are a fold over its indices.
LEMMA PointsOfSeq ==
  ASSUME NEW q \in Seq(Rules), \A r \in Rules : r.points \in Int
  PROVE  \E f : SumsUp(DOMAIN q, [i \in DOMAIN q |-> q[i].points], f)
                /\ FoldSeq(LAMBDA r, sum : sum + r.points, 0, q) = f[DOMAIN q]
<1> DEFINE D == DOMAIN q
           w == [i \in D |-> q[i].points]
           Eq(f) == f = [s \in SUBSET D |-> IF s = {} THEN 0
                                            ELSE f[s \ {First(s)}] + q[First(s)].points]
           c == CHOOSE f : Eq(f)
<1>0. IsFiniteSet(D) /\ D = 1..Len(q)
  BY FS_Interval
<1>1. w \in [D -> Int]
  OBVIOUS
<1>2. ASSUME NEW f, IsFold(D, w, f) PROVE Eq(f)
  <2>1. \A s \in SUBSET D : s # {} => First(s) \in D /\ w[First(s)] = q[First(s)].points
    BY FirstIn
  <2>2. SumsUp(D, w, f)
    <3> HIDE DEF w, D
    <3> QED BY <1>0, <1>1, <1>2, FoldValue
  <2>3. ASSUME NEW s \in SUBSET D, s # {}
        PROVE  w[First(s)] + f[s \ {First(s)}] = f[s \ {First(s)}] + q[First(s)].points
    <3>1. w[First(s)] = q[First(s)].points /\ w[First(s)] \in Int /\ f[s \ {First(s)}] \in Int
      BY <1>1, <2>1, <2>2, <2>3 DEF SumsUp
    <3> QED BY <3>1
  <2> HIDE DEF w, D
  <2>4. f = [s \in SUBSET D |-> IF s = {} THEN 0 ELSE w[First(s)] + f[s \ {First(s)}]]
    BY <1>2 DEF IsFold
  <2> QED BY <2>3, <2>4
<1>4. \E f : Eq(f)
  <2>1. \E f : IsFold(D, w, f)
    BY <1>0, <1>1, FoldExists
  <2> HIDE DEF Eq
  <2> QED BY <1>2, <2>1
<1>5. Eq(c)
  <2> HIDE DEF Eq
  <2> QED BY <1>4
<1>6. FoldSeq(LAMBDA r, sum : sum + r.points, 0, q) = c[D]
  BY DEF FoldSeq, FoldFunction, FoldFunctionOnSet, MapThenFoldSet, First
<1> HIDE DEF c
<1>9. \A s \in SUBSET D : s # {} => First(s) \in s /\ w[First(s)] = q[First(s)].points
                                    /\ w[First(s)] \in Int
  BY <1>1, FirstIn
<1> HIDE DEF w, D
<1> DEFINE P == {s \in SUBSET D : c[s] \in Int}
<1>10. ASSUME NEW s \in SUBSET D, \A t \in SUBSET s : t # s => t \in P PROVE s \in P
  <2>1. CASE s = {}
    <3>1. c[s] = 0
      BY <1>5, <2>1
    <3> QED BY <3>1
  <2>2. CASE s # {}
    <3> DEFINE x == First(s)
    <3>1. x \in s /\ q[x].points \in Int
      BY <1>9, <2>2
    <3>2. s \ {x} \in P
      BY <1>10, <3>1
    <3>3. c[s] = c[s \ {x}] + q[x].points
      BY <1>5, <2>2
    <3> QED BY <3>1, <3>2, <3>3
  <2> QED BY <2>1, <2>2
<1>11. \A s \in SUBSET D : c[s] \in Int
  <2> HIDE DEF P
  <2>1. IsFiniteSet(D)
    BY <1>0
  <2>2. \A s \in SUBSET D : (\A t \in SUBSET s : t # s => t \in P) => s \in P
    BY <1>10
  <2>3. SUBSET D \subseteq P
    BY <2>1, <2>2, SubsetInduction
  <2> QED BY <2>3 DEF P
<1>12. ASSUME NEW s \in SUBSET D, s # {}
       PROVE  c[s \ {First(s)}] + q[First(s)].points = w[First(s)] + c[s \ {First(s)}]
  <2>1. c[s \ {First(s)}] \in Int /\ w[First(s)] \in Int /\ w[First(s)] = q[First(s)].points
    BY <1>9, <1>11, <1>12
  <2> QED BY <2>1
<1>13. IsFold(D, w, c)
  <2>1. c = [s \in SUBSET D |-> IF s = {} THEN 0 ELSE w[First(s)] + c[s \ {First(s)}]]
    BY <1>5, <1>12
  <2> QED BY <2>1 DEF IsFold
<1>14. SumsUp(D, w, c)
  BY <1>0, <1>1, <1>13, FoldValue
<1>15. \E f : SumsUp(D, w, f) /\ FoldSeq(LAMBDA r, sum : sum + r.points, 0, q) = f[D]
  BY <1>6, <1>14
<1> QED BY <1>15 DEF w, D

CriticalOf(e) == {r \in Matching(e) : r.critical}

\* What an evaluation matched is what matched when it was asked.
LEMMA MatchedAre ==
  ASSUME RuleShape, NEW e \in Evaluations, Explained(e)
  PROVE  MatchesOf(e) = Matching(e)
<1> DEFINE v == eval[e]
           m == v.matched
<1>1. /\ \A i \in DOMAIN m : \E k \in Hits(e) : m[i] = v.rules[k]
      /\ \A k \in Hits(e) : \E i \in DOMAIN m : m[i] = v.rules[k]
  BY DEF Explained
<1>2. MatchesOf(e) = {m[i] : i \in DOMAIN m}
  BY DEF MatchesOf, ToSet
<1>3. Matching(e) = {v.rules[k] : k \in Hits(e)}
  BY DEF Matching, Hits
<1> HIDE DEF v, m
<1> QED BY <1>1, <1>2, <1>3

\* The rules a finished evaluation asked: all, or as far as a critical match.
LEMMA AskedAre ==
  ASSUME RuleShape, NEW e \in Evaluations, Explained(e), task[e].at = "done"
  PROVE  /\ Asked(e) \subseteq table[eval[e].commit + 1]
         /\ CriticalOf(e) = {} => Asked(e) = table[eval[e].commit + 1]
         /\ CriticalOf(e) # {} => \E r : CriticalOf(e) = {r}
<1> DEFINE v == eval[e]
           m == v.matched
           R == table[v.commit + 1]
           D == 1..v.next - 1
<1>1. v.rules \in Seq(Rules) /\ v.next \in Nat /\ v.next <= Len(v.rules) + 1
  BY DEF RuleShape, EvalShape
<1>2. /\ \A i \in DOMAIN v.rules : v.rules[i] \in R
      /\ \A r \in R : \E i \in DOMAIN v.rules : v.rules[i] = r
  BY DEF Explained, IsVersion, Enumerates
<1>3. /\ ~v.over => \A i \in DOMAIN m : ~m[i].critical
      /\ v.over => \E i \in DOMAIN m : \A j \in DOMAIN m : m[j].critical <=> j = i
      /\ v.over \/ v.next = Len(v.rules) + 1
  BY DEF Explained
<1>4. \A r : r \in CriticalOf(e) <=> r.critical /\ \E i \in DOMAIN m : m[i] = r
  BY MatchedAre DEF CriticalOf, MatchesOf, ToSet
<1>5. Asked(e) = {v.rules[i] : i \in D}
  BY DEF Asked
<1> HIDE DEF v, m, R
<1>6. D \subseteq DOMAIN v.rules /\ (v.next = Len(v.rules) + 1 => D = DOMAIN v.rules)
  BY <1>1
<1> HIDE DEF D
<1>7. Asked(e) \subseteq R
  BY <1>2, <1>5, <1>6
<1>8. v.next = Len(v.rules) + 1 => Asked(e) = R
  BY <1>2, <1>5, <1>6, <1>7
<1>9. CASE v.over
  <2>1. PICK i \in DOMAIN m : \A j \in DOMAIN m : m[j].critical <=> j = i
    BY <1>3, <1>9
  <2>2. CriticalOf(e) = {m[i]}
    BY <1>4, <2>1
  <2> QED BY <1>7, <2>2 DEF R, v
<1>10. CASE ~v.over
  <2>1. CriticalOf(e) = {}
    BY <1>3, <1>4, <1>10
  <2> QED BY <1>3, <1>8, <1>10, <2>1 DEF R, v
<1> QED BY <1>9, <1>10

\* A sequence without repetition has as many elements as places.
LEMMA CountOnce ==
  ASSUME NEW S, NEW q \in Seq(S), \A i, j \in DOMAIN q : q[i] = q[j] => i = j
  PROVE  Cardinality(ToSet(q)) = Len(q)
<1>1. Len(q) \in Nat /\ DOMAIN q = 1..Len(q)
  OBVIOUS
<1>2. q \in [1..Len(q) -> ToSet(q)] /\ \A x \in ToSet(q) : \E i \in 1..Len(q) : q[i] = x
  BY <1>1 DEF ToSet
<1>3. q \in Bijection(1..Len(q), ToSet(q))
  BY <1>1, <1>2 DEF Bijection, Injection, Surjection, IsInjective
<1>4. ExistsBijection(1..Len(q), ToSet(q))
  BY <1>3 DEF ExistsBijection
<1> QED BY <1>1, <1>4, FS_CountingElements

\* The scores agree when everything that matches was matched.
LEMMA ScoreIs ==
  ASSUME RuleAssumption, RuleShape, NEW e \in Evaluations, Explained(e),
         MatchesOf(e) = Matching(e)
  PROVE  FoldSeq(LAMBDA r, sum : sum + r.points, 0, eval[e].matched)
           = MapThenSumSet(LAMBDA r : r.points, Matching(e))
<1> DEFINE q == eval[e].matched
           D == DOMAIN q
           T == Matching(e)
           w == [i \in D |-> q[i].points]
           p == [r \in T |-> r.points]
<1>1. q \in Seq(Rules) /\ D = 1..Len(q) /\ Len(q) \in Nat
  BY DEF RuleShape, EvalShape
<1>2. \A r \in Rules : r.points \in Int
  BY DEF RuleAssumption
<1>3. T = {q[i] : i \in D}
  BY DEF MatchesOf, ToSet
<1>4. T \in SUBSET Rules
  BY <1>1, <1>3
<1>5. IsFiniteSet(T) /\ IsFiniteSet(D)
  BY <1>1, <1>4, FS_Subset, FS_Interval DEF RuleAssumption
<1>6. \A i, j \in D : q[i] = q[j] => i = j
  BY DEF Explained
<1> HIDE DEF T
<1>7. PICK g : SumsUp(T, p, g) /\ MapThenSumSet(LAMBDA r : r.points, T) = g[T]
  BY <1>2, <1>4, <1>5, PointsOfSet
<1> HIDE DEF q
<1>8. PICK f : SumsUp(D, w, f) /\ FoldSeq(LAMBDA r, sum : sum + r.points, 0, q) = f[D]
  BY <1>1, <1>2, PointsOfSeq
<1>9. w \in [D -> Int] /\ p \in [T -> Int] /\ q \in [D -> T] /\ \A i \in D : w[i] = p[q[i]]
  BY <1>1, <1>2, <1>3, <1>4
<1>10. \A x \in T : \E i \in D : q[i] = x
  BY <1>3
<1> HIDE DEF w, p, D
<1>11. f[D] = g[T]
  <2>1. IsFiniteSet(D) /\ w \in [D -> Int] /\ SumsUp(D, w, f)
    BY <1>5, <1>8, <1>9
  <2>2. IsFiniteSet(T) /\ p \in [T -> Int] /\ SumsUp(T, p, g)
    BY <1>5, <1>7, <1>9
  <2>3. q \in [D -> T] /\ (\A i \in D : w[i] = p[q[i]]) /\ \A i, j \in D : q[i] = q[j] => i = j
    BY <1>6, <1>9
  <2> QED BY <1>10, <2>1, <2>2, <2>3, SumsRename
<1> QED BY <1>7, <1>8, <1>11 DEF T, q

-----------------------------------------------------------------------------
\* What has been counted, besides RuleInv: an evaluation that has not begun asked
\* nothing; no counter is above the turns that can have incremented it; and what a
\* velocity rule matched on, it still could.
Told(e, i) == eval[e].heard[i] = "match" /\ eval[e].rules[i].entity \in Entities
Enough(e, i) == eval[e].rules[i].limit < Cardinality(Turns(Key(e, eval[e].rules[i])))
CountInv ==
  /\ \A e \in Evaluations : task[e].at \in {"idle", "query", "fetched"} => eval[e].next = 1
  /\ \A k \in Entities \X Values : hits[k] <= Cardinality(Turns(k))
  /\ \A e \in Evaluations : \A i \in 1..eval[e].next - 1 : Told(e, i) => Enough(e, i)

\* It holds at the start.
LEMMA CountInitial == RuleAssumption /\ RuleInit => CountInv
<1> SUFFICES ASSUME RuleAssumption, RuleInit PROVE CountInv
  OBVIOUS
<1>1. \A e \in Evaluations : eval[e].next = 1
  BY DEF RuleInit, Blank
<1>2. ASSUME NEW k \in Entities \X Values PROVE hits[k] <= Cardinality(Turns(k))
  <2>1. Turns(k) = {}
    BY <1>1 DEF Turns
  <2>2. hits[k] = 0
    BY DEF RuleInit
  <2> QED BY <2>1, <2>2, FS_EmptySet
<1> QED BY <1>1, <1>2 DEF CountInv

\* The turns about k of evaluations ev in contexts cx.
IsAbout(rule, values, k) ==
  rule.entity \in Entities /\ values[rule.entity] # Missing /\ <<rule.entity, values[rule.entity]>> = k
TurnsOf(ev, cx, k) ==
  UNION {{e} \X {i \in 1..ev[e].next - 1 : IsAbout(ev[e].rules[i], cx[e], k)} : e \in Evaluations}

\* They are the model's, now and after a step.
LEMMA TurnsAre ==
  ASSUME NEW k PROVE Turns(k) = TurnsOf(eval, ctx, k) /\ Turns(k)' = TurnsOf(eval', ctx', k)
BY DEF Turns, TurnsOf, HasKey, Key, IsAbout

\* One of them is a pair of an evaluation and a place.
LEMMA TurnIsPair ==
  ASSUME NEW ev, NEW cx, NEW k, NEW t
  PROVE  t \in TurnsOf(ev, cx, k) <=>
           \E d \in Evaluations : \E i \in 1..ev[d].next - 1 :
              t = <<d, i>> /\ IsAbout(ev[d].rules[i], cx[d], k)
<1> DEFINE I(e) == {i \in 1..ev[e].next - 1 : IsAbout(ev[e].rules[i], cx[e], k)}
<1>1. t \in TurnsOf(ev, cx, k) <=> \E d \in Evaluations : t \in {d} \X I(d)
  BY DEF TurnsOf
<1>2. \A d : t \in {d} \X I(d) <=> \E i \in I(d) : t = <<d, i>>
  <2> HIDE DEF I
  <2> QED OBVIOUS
<1> QED BY <1>1, <1>2

\* There are finitely many.
LEMMA TurnsFinite ==
  ASSUME RuleAssumption, NEW ev \in [Evaluations -> EvalShape], NEW cx, NEW k
  PROVE  IsFiniteSet(TurnsOf(ev, cx, k)) /\ Cardinality(TurnsOf(ev, cx, k)) \in Nat
<1> DEFINE I(e) == {i \in 1..ev[e].next - 1 : IsAbout(ev[e].rules[i], cx[e], k)}
           P(e) == {e} \X I(e)
           S == {P(e) : e \in Evaluations}
<1>1. ASSUME NEW e \in Evaluations PROVE IsFiniteSet(P(e))
  <2>1. ev[e].next \in Nat
    BY DEF EvalShape
  <2>2. IsFiniteSet(1..ev[e].next - 1)
    BY <2>1, FS_Interval
  <2>3. IsFiniteSet(I(e))
    BY <2>2, FS_Subset
  <2>4. IsFiniteSet({e})
    BY FS_Singleton
  <2> HIDE DEF I
  <2> QED BY <2>3, <2>4, FS_Product
<1>2. TurnsOf(ev, cx, k) = UNION S
  BY DEF TurnsOf
<1> HIDE DEF P
<1>3. IsFiniteSet(S)
  <2> DEFINE f == [e \in Evaluations |-> P(e)]
  <2>1. f \in Surjection(Evaluations, S)
    BY DEF Surjection
  <2> HIDE DEF f, S
  <2> QED BY <2>1, FS_Surjection DEF RuleAssumption
<1>4. \A s \in S : IsFiniteSet(s)
  BY <1>1
<1> HIDE DEF S
<1>5. IsFiniteSet(UNION S)
  BY <1>3, <1>4, FS_UNION
<1> QED BY <1>2, <1>5, FS_CardinalityType

\* What was asked and heard stays.
Recalls(e) ==
  \A i \in 1..eval[e].next - 1 :
    /\ i \in 1..eval'[e].next - 1
    /\ eval'[e].rules[i] = eval[e].rules[i] /\ eval'[e].heard[i] = eval[e].heard[i]

\* Where it does, no turn is lost.
LEMMA TurnsStay ==
  ASSUME RuleAssumption, RuleShape, RuleShape', UNCHANGED ctx, \A e \in Evaluations : Recalls(e),
         NEW k
  PROVE  /\ Turns(k) \subseteq Turns(k)' /\ Cardinality(Turns(k)) <= Cardinality(Turns(k)')
         /\ IsFiniteSet(Turns(k)) /\ IsFiniteSet(Turns(k)')
         /\ Cardinality(Turns(k)) \in Nat /\ Cardinality(Turns(k)') \in Nat
<1> DEFINE ev == eval'
<1>1. ASSUME NEW t \in TurnsOf(eval, ctx, k) PROVE t \in TurnsOf(ev, ctx, k)
  <2>0. PICK d \in Evaluations : \E i \in 1..eval[d].next - 1 :
               t = <<d, i>> /\ IsAbout(eval[d].rules[i], ctx[d], k)
    BY TurnIsPair
  <2>1. PICK i \in 1..eval[d].next - 1 : t = <<d, i>> /\ IsAbout(eval[d].rules[i], ctx[d], k)
    BY <2>0
  <2>2. i \in 1..ev[d].next - 1 /\ ev[d].rules[i] = eval[d].rules[i]
    BY <2>1 DEF Recalls
  <2> HIDE DEF ev
  <2> QED BY <2>1, <2>2, TurnIsPair
<1>2. Turns(k) = TurnsOf(eval, ctx, k) /\ Turns(k)' = TurnsOf(ev, ctx, k)
  BY TurnsAre
<1>3. eval \in [Evaluations -> EvalShape] /\ ev \in [Evaluations -> EvalShape]
  BY DEF RuleShape
<1> HIDE DEF ev
<1>4. /\ IsFiniteSet(TurnsOf(eval, ctx, k)) /\ Cardinality(TurnsOf(eval, ctx, k)) \in Nat
      /\ IsFiniteSet(TurnsOf(ev, ctx, k)) /\ Cardinality(TurnsOf(ev, ctx, k)) \in Nat
  BY <1>3, TurnsFinite
<1>5. TurnsOf(eval, ctx, k) \subseteq TurnsOf(ev, ctx, k)
  BY <1>1
<1>6. Cardinality(TurnsOf(eval, ctx, k)) <= Cardinality(TurnsOf(ev, ctx, k))
  BY <1>4, <1>5, FS_Subset
<1> QED BY <1>2, <1>4, <1>5, <1>6

\* What a velocity rule matched on lasts.
LEMMA EnoughStays ==
  ASSUME RuleAssumption, RuleShape, RuleShape', UNCHANGED ctx, \A e \in Evaluations : Recalls(e),
         CountInv, NEW e \in Evaluations, NEW i \in 1..eval[e].next - 1, Told(e, i)'
  PROVE  Enough(e, i)'
<1> DEFINE r == eval[e].rules[i]
<1>1. eval'[e].rules[i] = r /\ Told(e, i)
  BY DEF Recalls, Told
<1>2. Enough(e, i)
  BY <1>1 DEF CountInv
<1>3. r.limit \in Int
  <2>1. eval[e].rules \in Seq(Rules) /\ eval[e].next <= Len(eval[e].rules) + 1 /\ eval[e].next \in Nat
    BY DEF RuleShape, EvalShape
  <2>2. i \in 1..Len(eval[e].rules)
    BY <2>1
  <2>3. r \in Rules
    BY <2>1, <2>2
  <2> QED BY <2>3 DEF RuleAssumption
<1>4. PICK k : k = Key(e, r)
  OBVIOUS
<1>5. Key(e, eval[e].rules[i])' = k
  BY <1>1, <1>4 DEF Key
<1>6. /\ Cardinality(Turns(k)) <= Cardinality(Turns(k)')
      /\ Cardinality(Turns(k)) \in Nat /\ Cardinality(Turns(k)') \in Nat
  BY TurnsStay
<1>7. r.limit < Cardinality(Turns(k))
  BY <1>2, <1>4 DEF Enough
<1>8. r.limit < Cardinality(Turns(k)')
  <2> HIDE DEF r
  <2> QED BY <1>3, <1>6, <1>7
<1>9. Cardinality(Turns(k)') = Cardinality(Turns(Key(e, eval[e].rules[i])))'
  BY <1>5 DEF Turns
<1> QED BY <1>1, <1>8, <1>9 DEF Enough

\* The steps that ask no rule keep the counts.
LEMMA CountStays ==
  ASSUME RuleAssumption, RuleShape, RuleShape', CountInv, UNCHANGED ctx,
         \A k \in Entities \X Values : hits'[k] = hits[k] \/ hits'[k] = 0,
         \A e \in Evaluations : Recalls(e) /\ eval'[e].next <= eval[e].next
                                /\ (task'[e].at \in {"idle", "query", "fetched"} =>
                                      task[e].at \in {"idle", "query", "fetched"})
  PROVE  CountInv'
<1>1. ASSUME NEW e \in Evaluations, task'[e].at \in {"idle", "query", "fetched"}
      PROVE  eval'[e].next = 1
  <2>1. eval[e].next = 1
    BY <1>1 DEF CountInv
  <2>2. eval'[e].next \in Nat \ {0} /\ eval'[e].next <= eval[e].next
    BY DEF RuleShape, EvalShape
  <2> QED BY <2>1, <2>2
<1>2. ASSUME NEW k \in Entities \X Values PROVE hits'[k] <= Cardinality(Turns(k)')
  <2>1. /\ Cardinality(Turns(k)) <= Cardinality(Turns(k)')
        /\ Cardinality(Turns(k)) \in Nat /\ Cardinality(Turns(k)') \in Nat
    BY TurnsStay
  <2>2. hits[k] \in Nat /\ hits[k] <= Cardinality(Turns(k)) /\ (hits'[k] = hits[k] \/ hits'[k] = 0)
    BY DEF CountInv, RuleShape
  <2> QED BY <2>1, <2>2
<1>3. ASSUME NEW e \in Evaluations, NEW i \in 1..eval'[e].next - 1, Told(e, i)' PROVE Enough(e, i)'
  <2>1. eval'[e].next \in Nat /\ eval[e].next \in Nat /\ eval'[e].next <= eval[e].next
    BY DEF RuleShape, EvalShape
  <2>2. i \in 1..eval[e].next - 1
    BY <2>1
  <2> QED BY <1>3, <2>2, EnoughStays
<1> QED BY <1>1, <1>2, <1>3 DEF CountInv

\* A turn counts itself, and so may match.
LEMMA TurnCounts ==
  ASSUME RuleAssumption, RuleInv, CountInv, NEW e \in Evaluations, EvaluateRule(e), RuleShape'
  PROVE  CountInv'
<1>a. PICK a \in Verdicts : Turned(e, a)
  BY TurnIs
<1> DEFINE n == eval[e].next
           rule == eval[e].rules[n]
<1>0. /\ RuleShape /\ UNCHANGED <<ctx, task>> /\ task[e].at = "evaluate" /\ eval[e] \in EvalShape
      /\ n \in Nat \ {0} /\ Len(eval[e].heard) = n - 1 /\ eval[e].heard \in Seq(Verdicts)
      /\ rule \in Rules
  <2>1. RuleShape /\ UNCHANGED <<ctx, task>> /\ task[e].at = "evaluate" /\ n <= Len(eval[e].rules)
    BY DEF RuleInv, EvaluateRule, reloading, Evaluating
  <2>2. eval[e] \in EvalShape /\ Len(eval[e].heard) = n - 1
    BY <2>1 DEF RuleShape
  <2>3. n \in Nat \ {0} /\ eval[e].heard \in Seq(Verdicts) /\ eval[e].rules \in Seq(Rules)
    BY <2>2 DEF EvalShape
  <2>4. rule \in Rules
    <3> HIDE DEF n
    <3> QED BY <2>1, <2>3
  <2> QED BY <2>1, <2>2, <2>3, <2>4
<1>1. /\ eval'[e].next = n + 1 /\ eval'[e].rules = eval[e].rules
      /\ eval'[e].heard = Append(eval[e].heard, a) /\ Says(e, rule, a)
      /\ \A f \in Evaluations \ {e} : eval'[f] = eval[f]
  BY <1>a DEF Turned
<1> HIDE DEF n
<1>2. /\ \A i \in 1..n - 1 : eval'[e].heard[i] = eval[e].heard[i]
      /\ eval'[e].heard[n] = a /\ 1..n - 1 \subseteq 1..(n + 1) - 1 /\ n \in 1..(n + 1) - 1
      /\ \A i \in 1..(n + 1) - 1 : i \in 1..n - 1 \/ i = n
  <2> DEFINE h == eval[e].heard
             g == eval'[e].heard
  <2>1. h \in Seq(Verdicts) /\ Len(h) = n - 1 /\ n \in Nat \ {0} /\ g = Append(h, a)
    BY <1>0, <1>1
  <2> HIDE DEF h, g
  <2>2. (\A i \in 1..n - 1 : g[i] = h[i]) /\ g[n] = a
    BY <2>1
  <2>3. 1..n - 1 \subseteq 1..(n + 1) - 1 /\ n \in 1..(n + 1) - 1
        /\ \A i \in 1..(n + 1) - 1 : i \in 1..n - 1 \/ i = n
    BY <2>1
  <2> QED BY <2>2, <2>3 DEF h, g
<1>3. \A f \in Evaluations : Recalls(f)
  <2> SUFFICES ASSUME NEW f \in Evaluations PROVE Recalls(f)
    OBVIOUS
  <2>1. CASE f = e
    BY <1>1, <1>2, <2>1 DEF Recalls, n
  <2>2. CASE f # e
    BY <1>1, <2>2 DEF Recalls
  <2> QED BY <2>1, <2>2
<1>4. ASSUME NEW f \in Evaluations, task'[f].at \in {"idle", "query", "fetched"}
      PROVE  eval'[f].next = 1
  BY <1>0, <1>1, <1>4 DEF CountInv
<1> DEFINE k == Key(e, rule)
<1>5. \A c : /\ Cardinality(Turns(c)) <= Cardinality(Turns(c)') /\ Turns(c) \subseteq Turns(c)'
             /\ IsFiniteSet(Turns(c)) /\ IsFiniteSet(Turns(c)')
             /\ Cardinality(Turns(c)) \in Nat /\ Cardinality(Turns(c)') \in Nat
  BY <1>0, <1>3, TurnsStay
<1>6. ASSUME HasKey(e, rule), NEW c, c = Key(e, rule)
      PROVE  Cardinality(Turns(c)) + 1 <= Cardinality(Turns(c)')
  <2> DEFINE t == <<e, n>>
  <2>1. t \in Turns(c)'
    <3>1. IsAbout(rule, ctx[e], c)
      BY <1>6 DEF HasKey, Key, IsAbout
    <3>2. IsAbout(eval'[e].rules[n], ctx'[e], c) /\ n \in 1..eval'[e].next - 1
      BY <1>0, <1>1, <1>2, <3>1
    <3> QED BY <3>2, TurnIsPair, TurnsAre
  <2>2. t \notin Turns(c)
    <3> SUFFICES ASSUME t \in Turns(c) PROVE FALSE
      OBVIOUS
    <3>1. PICK d \in Evaluations : \E i \in 1..eval[d].next - 1 : t = <<d, i>>
      BY TurnIsPair, TurnsAre
    <3>2. n \in 1..n - 1
      BY <3>1 DEF n
    <3> QED BY <1>0, <3>2
  <2> HIDE DEF t
  <2>3. IsFiniteSet(Turns(c) \cup {t}) /\ Cardinality(Turns(c) \cup {t}) = Cardinality(Turns(c)) + 1
    BY <1>5, <2>2, FS_AddElement
  <2>4. Turns(c) \cup {t} \subseteq Turns(c)'
    BY <1>5, <2>1
  <2>5. Cardinality(Turns(c) \cup {t}) <= Cardinality(Turns(c)')
    BY <1>5, <2>4, FS_Subset
  <2> QED BY <2>3, <2>5
<1>7. HasKey(e, rule) => k \in Entities \X Values
  BY <1>0 DEF HasKey, Key, RuleShape
<1>8. ASSUME NEW c \in Entities \X Values PROVE hits'[c] <= Cardinality(Turns(c)')
  <2>1. /\ hits[c] \in Nat /\ hits[c] <= Cardinality(Turns(c))
        /\ Cardinality(Turns(c)) <= Cardinality(Turns(c)')
        /\ Cardinality(Turns(c)) \in Nat /\ Cardinality(Turns(c)') \in Nat
    BY <1>0, <1>5 DEF CountInv, RuleShape
  <2>2. CASE hits'[c] = hits[c]
    BY <2>1, <2>2
  <2>3. CASE HasKey(e, rule) /\ c = k /\ hits'[c] = hits[c] + 1
    <3>1. Cardinality(Turns(c)) + 1 <= Cardinality(Turns(c)')
      BY <1>6, <2>3
    <3> QED BY <2>1, <2>3, <3>1
  <2>4. hits'[c] = hits[c] \/ (HasKey(e, rule) /\ c = k /\ hits'[c] = hits[c] + 1)
    <3>1. hits \in [Entities \X Values -> Nat]
      BY <1>0 DEF RuleShape
    <3>2. UNCHANGED hits \/ (HasKey(e, rule) /\ hits' = [hits EXCEPT ![k] = hits[k] + 1])
      BY <1>1 DEF Says
    <3> QED BY <3>1, <3>2
  <2> QED BY <2>2, <2>3, <2>4
<1>9. ASSUME NEW f \in Evaluations, NEW i \in 1..eval'[f].next - 1, Told(f, i)' PROVE Enough(f, i)'
  <2>1. CASE i \in 1..eval[f].next - 1
    BY <1>0, <1>3, <1>9, <2>1, EnoughStays
  <2>2. CASE i \notin 1..eval[f].next - 1
    <3>1. f = e /\ i = n
      <4>1. f = e
        BY <1>1, <2>2
      <4> QED BY <1>1, <1>2, <2>2, <4>1 DEF n
    <3>2. a = "match" /\ rule.entity \in Entities /\ eval'[f].rules[i] = rule
      BY <1>1, <1>2, <1>9, <3>1 DEF Told
    <3>3. HasKey(e, rule) /\ hits' = [hits EXCEPT ![k] = hits[k] + 1] /\ hits'[k] > rule.limit
      BY <1>1, <3>2 DEF Says
    <3>4. k \in Entities \X Values /\ rule.limit \in Int
      BY <1>0, <1>7, <3>3 DEF RuleAssumption
    <3>5. PICK c \in Entities \X Values : c = k
      BY <3>4
    <3>6. hits'[c] <= Cardinality(Turns(c)') /\ Cardinality(Turns(c)') \in Nat /\ hits'[c] \in Nat
      BY <1>5, <1>8, RuleShape' DEF RuleShape
    <3>7. rule.limit < Cardinality(Turns(c)')
      <4> HIDE DEF rule, k
      <4> QED BY <3>3, <3>4, <3>5, <3>6
    <3>8. Key(f, eval[f].rules[i])' = c
      BY <1>0, <3>1, <3>2, <3>5 DEF Key
    <3>9. Cardinality(Turns(Key(f, eval[f].rules[i])))' = Cardinality(Turns(c)')
      BY <3>8 DEF Turns
    <3> QED BY <3>2, <3>7, <3>9 DEF Enough
  <2> QED BY <2>1, <2>2
<1> QED BY <1>4, <1>8, <1>9 DEF CountInv

\* It is inductive beside RuleInv.
LEMMA CountPreserved ==
  RuleAssumption /\ RuleInv /\ RuleInv' /\ CountInv /\ [RuleNext]_ruleVars => CountInv'
<1> SUFFICES ASSUME RuleAssumption, RuleInv, RuleInv', CountInv, [RuleNext]_ruleVars PROVE CountInv'
  OBVIOUS
<1> DEFINE Early == {"idle", "query", "fetched"}
           Rests0 == \A e \in Evaluations : Recalls(e) /\ eval'[e].next <= eval[e].next
                                /\ (task'[e].at \in Early => task[e].at \in Early)
<1>0. /\ RuleShape /\ RuleShape' /\ hits \in [Entities \X Values -> Nat]
      /\ task \in [Tasks -> TaskShape] /\ eval \in [Evaluations -> EvalShape] /\ Evaluations \subseteq Tasks
  BY DEF RuleInv, RuleShape, Tasks
<1>1. ASSUME Rests0, UNCHANGED velocityVars PROVE CountInv'
  BY <1>0, <1>1, CountStays DEF velocityVars
<1>a. ASSUME NEW e \in Evaluations, eval'[e] = eval[e]
      PROVE  Recalls(e) /\ eval'[e].next <= eval[e].next
  <2>1. eval[e].next \in Nat
    BY <1>0 DEF EvalShape
  <2> QED BY <1>a, <2>1 DEF Recalls
<1>2. CASE EditRules \/ UNCHANGED ruleVars
  BY <1>1, <1>2, <1>a DEF EditRules, ruleVars, reloading
<1>3. CASE Forget
  <2>1. \A k \in Entities \X Values : hits'[k] = hits[k] \/ hits'[k] = 0
    BY <1>0, <1>3 DEF Forget
  <2>2. UNCHANGED <<eval, task, ctx>>
    BY <1>3 DEF Forget, reloading
  <2> QED BY <1>0, <1>a, <2>1, <2>2, CountStays
<1>4. ASSUME NEW t \in Tasks, BeginReload(t) \/ Query(t) \/ QueryRaises(t) \/ (Return(t) /\ t \in Evaluations)
      PROVE  CountInv'
  <2>1. UNCHANGED <<eval, velocityVars>>
    BY <1>4 DEF BeginReload, Query, QueryRaises, Return
  <2>2. ASSUME NEW e \in Evaluations PROVE task'[e].at \in Early => task[e].at \in Early
    <3>1. (task[t].at \in Early \/ task'[t].at \notin Early) /\ \A u \in Tasks : u # t => task'[u] = task[u]
      <4>1. CASE ~Return(t)
        BY <1>0, <1>4, <4>1 DEF BeginReload, Query, QueryRaises
      <4>2. CASE Return(t)
        BY <1>0, <4>2 DEF Return, TaskShape
      <4> QED BY <4>1, <4>2
    <3> QED BY <1>0, <3>1
  <2> QED BY <1>1, <1>a, <2>1, <2>2
<1>5. ASSUME NEW t \in Tasks, NEW rows, NEW commit, task[t].at \in Early, UNCHANGED velocityVars,
             \A e \in Evaluations \ {t} : eval'[e] = eval[e],
             t \in Evaluations => eval'[t] = Captured(rows, commit),
             \A u \in Tasks \ {t} : task'[u] = task[u]
      PROVE  CountInv'
  <2>1. ASSUME NEW e \in Evaluations, e = t PROVE Recalls(e) /\ eval'[e].next <= eval[e].next
    <3>1. eval[e].next = 1
      BY <1>5, <2>1 DEF CountInv
    <3>2. eval'[e].next = 1
      BY <1>5, <2>1, CapturedIs
    <3> QED BY <3>1, <3>2 DEF Recalls
  <2>2. ASSUME NEW e \in Evaluations PROVE task'[e].at \in Early => task[e].at \in Early
    BY <1>0, <1>5
  <2> HIDE DEF Early
  <2> QED BY <1>1, <1>5, <1>a, <2>1, <2>2
<1>6. ASSUME NEW t \in Tasks, EndReload(t) PROVE CountInv'
  <2>1. /\ task[t].at \in Early /\ UNCHANGED velocityVars
        /\ \A e \in Evaluations \ {t} : eval'[e] = eval[e]
        /\ t \in Evaluations => eval'[t] = Captured(cached', loaded')
    BY <1>6 DEF EndReload
  <2>2. \A u \in Tasks \ {t} : task'[u] = task[u]
    BY <1>0, <1>6 DEF EndReload, Completed
  <2> QED BY <1>5, <2>1, <2>2
<1>7. ASSUME NEW e \in Evaluations, Evaluate(e) PROVE CountInv'
  <2>1. /\ task[e].at \in Early /\ UNCHANGED velocityVars
        /\ \A f \in Evaluations \ {e} : eval'[f] = eval[f]
        /\ eval'[e] = Captured(cached, loaded)
        /\ \A u \in Tasks \ {e} : task'[u] = task[u]
    BY <1>0, <1>7 DEF Evaluate
  <2> QED BY <1>0, <1>5, <2>1
<1>8. ASSUME NEW e \in Evaluations, EvaluateRule(e) PROVE CountInv'
  BY <1>0, <1>8, TurnCounts
<1> QED BY <1>0, <1>2, <1>3, <1>4, <1>6, <1>7, <1>8 DEF RuleNext

\* What the two say of a finished evaluation is ResultExplained.
LEMMA ResultFollows == ASSUME RuleAssumption, RuleInv, CountInv PROVE ResultExplained
<1> SUFFICES ASSUME NEW e \in Evaluations, task[e].at = "done"
             PROVE  /\ MatchesOf(e) = Matching(e)
                    /\ Cardinality(MatchesOf(e)) = Len(eval[e].matched)
                    /\ RuleScore(e) = AtMostOne(MapThenSumSet(LAMBDA r : r.points, Matching(e)))
                    /\ Asked(e) \subseteq table[eval[e].commit + 1]
                    /\ IF CriticalOf(e) = {} THEN Asked(e) = table[eval[e].commit + 1]
                                             ELSE Cardinality(CriticalOf(e)) = 1
                    /\ \A r \in Matching(e) :
                         r.entity \in Entities => r.limit < Cardinality(Turns(Key(e, r)))
  BY Zenon DEF ResultExplained, CriticalOf
<1>1. RuleShape /\ Explained(e)
  BY DEF RuleInv, EvalInv
<1>2. MatchesOf(e) = Matching(e)
  BY <1>1, MatchedAre
<1>3. Cardinality(MatchesOf(e)) = Len(eval[e].matched)
  <2>1. /\ eval[e].matched \in Seq(Rules)
        /\ \A i, j \in DOMAIN eval[e].matched : eval[e].matched[i] = eval[e].matched[j] => i = j
    BY <1>1 DEF RuleShape, EvalShape, Explained
  <2> QED BY <2>1, CountOnce DEF MatchesOf
<1>4. RuleScore(e) = AtMostOne(MapThenSumSet(LAMBDA r : r.points, Matching(e)))
  <2>1. FoldSeq(LAMBDA r, sum : sum + r.points, 0, eval[e].matched)
          = MapThenSumSet(LAMBDA r : r.points, Matching(e))
    BY <1>1, <1>2, ScoreIs
  <2> QED BY <2>1, Zenon DEF RuleScore
<1>5. /\ Asked(e) \subseteq table[eval[e].commit + 1]
      /\ CriticalOf(e) = {} => Asked(e) = table[eval[e].commit + 1]
      /\ CriticalOf(e) # {} => Cardinality(CriticalOf(e)) = 1
  BY <1>1, AskedAre, FS_Singleton
<1>6. ASSUME NEW r \in Matching(e), r.entity \in Entities
      PROVE  r.limit < Cardinality(Turns(Key(e, r)))
  <2>1. PICK i \in 1..eval[e].next - 1 : eval[e].heard[i] = "match" /\ r = eval[e].rules[i]
    BY DEF Matching
  <2>2. Told(e, i)
    BY <1>6, <2>1 DEF Told
  <2>3. Enough(e, i)
    BY <2>2 DEF CountInv
  <2> QED BY <2>1, <2>3 DEF Enough
<1> QED BY <1>2, <1>3, <1>4, <1>5, <1>6, Zenon
-----------------------------------------------------------------------------
(* GraphAnalysis *)
Ats == {"idle", "add", "sharing", "cluster", "ring", "done", "failed"}
Keys == Cards \cup Devices \cup IPs
CallShape ==
  [at : Ats, req : Requests, shared : SUBSET hasDevice, cluster : SUBSET hasIP,
   ring : SUBSET Keys, score : 0..10]
GraphShape ==
  /\ calls \in [Analyses -> CallShape] /\ IsFiniteSet(nodes)
  /\ \A n \in nodes : IsNode(n) /\ n.id \in Keys
  /\ \A e \in hasDevice : e \in nodes \X nodes /\ e[1].label = "card" /\ e[2].label = "device"
  /\ \A e \in hasIP : e \in nodes \X nodes /\ e[1].label = "device" /\ e[2].label = "ip"
  /\ merging = [a \in Analyses |-> merging[a]]
  /\ added \subseteq Analyses /\ collided \in BOOLEAN

IdFor(req, l) == IF l = "card" THEN req.card ELSE IF l = "device" THEN req.device ELSE req.ip
MergeInv ==
  \A a \in Analyses :
    /\ IsFiniteSet(merging[a])
    /\ \A n \in merging[a] : IsNode(n) /\ n.id = IdFor(calls[a].req, n.label)
    /\ calls[a].at = "add" => \A l \in Labels : Merged(a, l) # {}
    /\ calls[a].at # "add" => merging[a] = {}
EdgeInv ==
  /\ \A e \in hasDevice : \E b \in added :
       calls[b].req.card = e[1].id /\ calls[b].req.device = e[2].id
  /\ \A e \in hasIP : \E b \in added :
       calls[b].req.device = e[1].id /\ calls[b].req.ip = e[2].id
  /\ \A b \in added :
       /\ \E e \in hasDevice : calls[b].req.card = e[1].id /\ calls[b].req.device = e[2].id
       /\ \E e \in hasIP : calls[b].req.device = e[1].id /\ calls[b].req.ip = e[2].id
  /\ \A a \in Analyses : calls[a].at \in {"idle", "add"} => a \notin added
Twins(m, n) == m.label = n.label /\ m.id = n.id /\ m # n
UniqueInv ==
  ~collided =>
    /\ \A m, n \in nodes : ~Twins(m, n)
    /\ \A a \in Analyses : calls[a].at = "add" =>
         /\ \A m \in merging[a], n \in nodes \cup merging[a] : ~Twins(m, n)
         /\ \A b \in Analyses \ {a} : calls[b].at = "add" => ~Common(calls[a].req, calls[b].req)
\* Two transactions that were added differ in their card or device.
Differing ==
  \E b1, b2 \in added : \/ calls[b1].req.card # calls[b2].req.card
                        \/ calls[b1].req.device # calls[b2].req.device
\* What an analysis found.
Found(a) ==
  /\ \A e \in calls[a].shared : e \in hasDevice /\ e[2].id = calls[a].req.device
  /\ \A e \in calls[a].cluster : e \in hasIP /\ e[2].id = calls[a].req.ip
  /\ \A c \in calls[a].ring : Linked(calls[a].req.card, c)
  /\ calls[a].at \in {"cluster", "ring", "done"} /\ a \in added =>
       \E e \in calls[a].shared : e[1].id = calls[a].req.card
  /\ calls[a].at \in {"ring", "done"} /\ a \in added =>
       \E e \in calls[a].cluster : e[1].id = calls[a].req.device
  /\ ~collided => calls[a].req.card \notin calls[a].ring
  /\ ~collided /\ calls[a].score > 0 => Differing
FoundInv == \A a \in Analyses : Found(a)
GraphInv == GraphShape /\ MergeInv /\ EdgeInv /\ UniqueInv /\ FoundInv

\* The invariant of the graph holds at the start.
LEMMA GraphInitial == GraphAssumption /\ GraphInit => GraphInv
<1> SUFFICES ASSUME GraphAssumption, GraphInit PROVE GraphInv
  OBVIOUS
<1>0. PICK req \in [Analyses -> Requests] : calls = [a \in Analyses |-> Call(req[a])]
  BY DEF GraphInit
<1>f. IsFiniteSet({})
  BY FS_EmptySet
<1>1. GraphShape
  <2>1. \A a \in Analyses : Call(req[a]) \in CallShape
    BY DEF GraphInit, Call, CallShape, Ats
  <2>2. calls \in [Analyses -> CallShape]
    BY <1>0, <2>1
  <2> QED BY <1>f, <2>2 DEF GraphShape, GraphInit
<1>2. MergeInv
  BY <1>0, <1>f DEF MergeInv, GraphInit, Call
<1>3. EdgeInv
  BY <1>0 DEF EdgeInv, GraphInit, Call
<1>4. UniqueInv
  BY <1>0 DEF UniqueInv, GraphInit, Call
<1>5. FoundInv
  BY <1>0 DEF FoundInv, Found, GraphInit, Call
<1> QED BY <1>1, <1>2, <1>3, <1>4, <1>5 DEF GraphInv

\* The number of rows is the number of ids they name, unless two name one id.
LEMMA NamesCounted ==
  ASSUME NEW S, IsFiniteSet(S), \A e, f \in S : e[1].id = f[1].id => e = f
  PROVE  Cardinality(Named(S)) = Cardinality(S)
<1> DEFINE f == [e \in S |-> e[1].id]
<1>1. f \in Bijection(S, Named(S))
  BY DEF Bijection, Injection, Surjection, Named, IsInjective
<1>2. ExistsBijection(S, Named(S))
  BY <1>1 DEF ExistsBijection
<1> QED BY <1>2, FS_Bijection

\* Of more than one row, two differ.
LEMMA TwoRows ==
  ASSUME NEW S, IsFiniteSet(S), Cardinality(S) > 1 PROVE \E e, f \in S : e # f
<1> SUFFICES ASSUME \A e, f \in S : e = f PROVE FALSE
  OBVIOUS
<1>1. CASE S = {}
  BY <1>1, FS_EmptySet
<1>2. CASE S # {}
  <2>1. PICK e : S = {e}
    BY <1>2
  <2> QED BY <2>1, FS_Singleton
<1> QED BY <1>1, <1>2

\* The relationships are finitely many pairs, and unless two additions have
\* collided one of them is known by the ids of its ends.
LEMMA EdgesApart ==
  ASSUME GraphShape, UniqueInv
  PROVE  /\ IsFiniteSet(hasDevice) /\ IsFiniteSet(hasIP)
         /\ ~collided => /\ \A e, f \in hasDevice : e[1].id = f[1].id /\ e[2].id = f[2].id => e = f
                         /\ \A e, f \in hasIP : e[1].id = f[1].id /\ e[2].id = f[2].id => e = f
<1>1. IsFiniteSet(nodes \X nodes)
  BY FS_Product DEF GraphShape
<1>2. hasDevice \subseteq nodes \X nodes /\ hasIP \subseteq nodes \X nodes
  BY DEF GraphShape
<1>3. ASSUME ~collided, NEW e \in nodes \X nodes, NEW f \in nodes \X nodes,
             e[1].label = f[1].label, e[2].label = f[2].label, e[1].id = f[1].id, e[2].id = f[2].id
      PROVE  e = f
  <2>1. e[1] = f[1] /\ e[2] = f[2]
    BY <1>3 DEF UniqueInv, Twins
  <2> QED BY <2>1
<1>4. ASSUME ~collided, NEW e \in hasDevice, NEW f \in hasDevice, e[1].id = f[1].id, e[2].id = f[2].id
      PROVE  e = f
  BY <1>2, <1>3, <1>4 DEF GraphShape
<1>5. ASSUME ~collided, NEW e \in hasIP, NEW f \in hasIP, e[1].id = f[1].id, e[2].id = f[2].id
      PROVE  e = f
  BY <1>2, <1>3, <1>5 DEF GraphShape
<1> QED BY <1>1, <1>2, <1>4, <1>5, FS_Subset

\* The invariant explains what an analysis has found.
LEMMA GraphSafe == GraphInv => FindingsExplained /\ GraphTypeOK
<1> SUFFICES ASSUME GraphInv PROVE FindingsExplained /\ GraphTypeOK
  OBVIOUS
<1>0. GraphShape /\ MergeInv /\ EdgeInv /\ UniqueInv /\ FoundInv
  BY DEF GraphInv
<1>1. GraphTypeOK
  BY <1>0 DEF GraphTypeOK, GraphShape, MergeInv, CallShape, Ats
<1>2. ASSUME NEW a \in Analyses
      PROVE  LET req == calls[a].req IN
             /\ Named(calls[a].shared) \subseteq Used("card", req.device, "device")
             /\ Named(calls[a].cluster) \subseteq Used("device", req.ip, "ip")
  <2>1. \A b \in added : calls[b].req \in Requests
    BY <1>0 DEF GraphShape, CallShape
  <2>2. Found(a)
    BY <1>0 DEF FoundInv
  <2>3. ASSUME NEW e \in calls[a].shared
        PROVE  \E b \in added : calls[b].req.card = e[1].id /\ calls[b].req.device = calls[a].req.device
    BY <1>0, <2>2 DEF Found, EdgeInv
  <2>4. ASSUME NEW e \in calls[a].cluster
        PROVE  \E b \in added : calls[b].req.device = e[1].id /\ calls[b].req.ip = calls[a].req.ip
    BY <1>0, <2>2 DEF Found, EdgeInv
  <2> QED BY <2>1, <2>3, <2>4 DEF Named, Used, Requests
<1>3. ASSUME NEW a \in Analyses, ~collided
      PROVE  /\ Cardinality(Named(calls[a].shared)) = Cardinality(calls[a].shared)
             /\ Cardinality(Named(calls[a].cluster)) = Cardinality(calls[a].cluster)
  <2>0. Found(a)
    BY <1>0 DEF FoundInv
  <2>1. calls[a].shared \subseteq hasDevice /\ calls[a].cluster \subseteq hasIP
    BY <2>0 DEF Found
  <2>2. IsFiniteSet(calls[a].shared) /\ IsFiniteSet(calls[a].cluster)
    BY <1>0, <2>1, EdgesApart, FS_Subset
  <2>3. \A e, f \in calls[a].shared : e[1].id = f[1].id => e = f
    BY <1>0, <1>3, <2>0, EdgesApart DEF Found
  <2>4. \A e, f \in calls[a].cluster : e[1].id = f[1].id => e = f
    BY <1>0, <1>3, <2>0, EdgesApart DEF Found
  <2> QED BY <2>2, <2>3, <2>4, NamesCounted
<1>4. FindingsExplained
  <2>1. ASSUME NEW a \in Analyses
        PROVE  LET req == calls[a].req IN
          /\ \A c \in calls[a].ring : Linked(req.card, c)
          /\ calls[a].at \in {"cluster", "ring", "done"} /\ a \in added =>
               req.card \in Named(calls[a].shared)
          /\ calls[a].at \in {"ring", "done"} /\ a \in added => req.device \in Named(calls[a].cluster)
          /\ ~collided => /\ req.card \notin calls[a].ring
                          /\ calls[a].score > 0 => Differing
    BY <1>0 DEF FoundInv, Found, Named
  <2> QED BY <1>2, <1>3, <2>1 DEF FindingsExplained, Differing
<1> QED BY <1>1, <1>4

\* The transactions a ring goes over stay.
LEMMA LinkedKept ==
  ASSUME NEW a, \A c \in calls[a].ring : Linked(calls[a].req.card, c),
         calls'[a].ring = calls[a].ring, calls'[a].req = calls[a].req, collided => collided',
         \A c \in added : c \in added' /\ calls'[c].req = calls[c].req
  PROVE  \A c \in calls'[a].ring : Linked(calls[a].req.card, c)'
<1> SUFFICES ASSUME NEW c \in calls[a].ring PROVE Linked(calls[a].req.card, c)'
  OBVIOUS
<1>1. Linked(calls[a].req.card, c)
  OBVIOUS
<1>2. PICK b1 \in added, b2 \in added, b3 \in added, b4 \in added :
        /\ calls[b1].req.card = calls[a].req.card /\ calls[b1].req.device = calls[b2].req.device
        /\ calls[b2].req.ip = calls[b3].req.ip /\ calls[b3].req.device = calls[b4].req.device
        /\ calls[b4].req.card = c /\ (calls[b1].req.device # calls[b4].req.device \/ collided)
  BY <1>1 DEF Linked
<1>3. /\ b1 \in added' /\ b2 \in added' /\ b3 \in added' /\ b4 \in added'
      /\ calls'[b1].req = calls[b1].req /\ calls'[b2].req = calls[b2].req
      /\ calls'[b3].req = calls[b3].req /\ calls'[b4].req = calls[b4].req
  OBVIOUS
<1> QED BY <1>2, <1>3 DEF Linked

\* So do two that differ.
LEMMA DifferingKept ==
  ASSUME Differing, \A c \in added : c \in added' /\ calls'[c].req = calls[c].req
  PROVE  Differing'
<1>1. PICK b1 \in added, b2 \in added : \/ calls[b1].req.card # calls[b2].req.card
                                        \/ calls[b1].req.device # calls[b2].req.device
  BY DEF Differing
<1>2. /\ b1 \in added' /\ b2 \in added'
      /\ calls'[b1].req = calls[b1].req /\ calls'[b2].req = calls[b2].req
  OBVIOUS
<1> QED BY <1>1, <1>2 DEF Differing

\* What an analysis found, it keeps while it makes no query.
LEMMA FoundKept ==
  ASSUME NEW a \in Analyses, Found(a), collided => collided',
         calls'[a].req = calls[a].req, calls'[a].shared = calls[a].shared,
         calls'[a].cluster = calls[a].cluster, calls'[a].ring = calls[a].ring,
         calls'[a].score \in {0, calls[a].score},
         hasDevice \subseteq hasDevice', hasIP \subseteq hasIP',
         \A c \in added : c \in added' /\ calls'[c].req = calls[c].req,
         calls'[a].at \in {"cluster", "ring", "done"} =>
           calls'[a].at = calls[a].at /\ (a \in added' => a \in added)
  PROVE  Found(a)'
<1>1. \A c \in calls'[a].ring : Linked(calls[a].req.card, c)'
  BY LinkedKept DEF Found
<1>2. Differing => Differing'
  BY DifferingKept
<1>3. ~collided' /\ calls'[a].score > 0 => Differing'
  BY <1>2 DEF Found
<1> HIDE DEF Differing
<1> QED BY <1>1, <1>3 DEF Found

\* Edges and ids survive an addition.
LEMMA EdgesKept ==
  ASSUME EdgeInv, UNCHANGED <<hasDevice, hasIP, added>>,
         \A b \in added : calls'[b].req = calls[b].req,
         \A b \in Analyses : calls'[b].at \in {"idle", "add"} => calls[b].at \in {"idle", "add"}
  PROVE  EdgeInv'
<1>0. hasDevice' = hasDevice /\ hasIP' = hasIP /\ added' = added
  OBVIOUS
<1>1. ASSUME NEW e \in hasDevice
      PROVE  \E b \in added : calls'[b].req.card = e[1].id /\ calls'[b].req.device = e[2].id
  <2>1. PICK b \in added : calls[b].req.card = e[1].id /\ calls[b].req.device = e[2].id
    BY DEF EdgeInv
  <2> QED BY <2>1
<1>2. ASSUME NEW e \in hasIP
      PROVE  \E b \in added : calls'[b].req.device = e[1].id /\ calls'[b].req.ip = e[2].id
  <2>1. PICK b \in added : calls[b].req.device = e[1].id /\ calls[b].req.ip = e[2].id
    BY DEF EdgeInv
  <2> QED BY <2>1
<1>3. ASSUME NEW b \in added
      PROVE  /\ \E e \in hasDevice : calls'[b].req.card = e[1].id /\ calls'[b].req.device = e[2].id
             /\ \E e \in hasIP : calls'[b].req.device = e[1].id /\ calls'[b].req.ip = e[2].id
  <2>1. calls'[b].req = calls[b].req
    OBVIOUS
  <2> QED BY <2>1 DEF EdgeInv
<1>4. ASSUME NEW b \in Analyses, calls'[b].at \in {"idle", "add"}
      PROVE  b \notin added
  BY <1>4 DEF EdgeInv
<1> QED BY <1>0, <1>1, <1>2, <1>3, <1>4 DEF EdgeInv

\* A MERGE that begins sees the graph it will write to.
LEMMA BeginMergeKeeps ==
  ASSUME GraphAssumption, GraphInv, NEW a \in Analyses, BeginAdd(a) PROVE GraphInv'
<1> DEFINE r == calls[a].req
<1>0. GraphShape /\ MergeInv /\ EdgeInv /\ UniqueInv /\ FoundInv
  BY DEF GraphInv
<1>1. /\ calls[a].at = "idle" /\ UNCHANGED <<nodes, hasDevice, hasIP, added>>
      /\ calls' = [calls EXCEPT ![a].at = "add"]
      /\ merging' = [merging EXCEPT ![a] = Merge(a, "card", r.card)
                   \cup Merge(a, "device", r.device) \cup Merge(a, "ip", r.ip)]
      /\ collided' = (collided \/ \E b \in Analyses \ {a} :
                                calls[b].at = "add" /\ Common(calls[b].req, r))
  BY DEF BeginAdd
<1>2. calls' \in [Analyses -> CallShape] /\ UNCHANGED CallShape
  BY <1>0, <1>1 DEF GraphShape, CallShape, Ats
<1>3. /\ calls'[a].at = "add" /\ \A b \in Analyses \ {a} : calls'[b].at = calls[b].at
      /\ \A b \in Analyses :
           /\ calls'[b].req = calls[b].req /\ calls'[b].shared = calls[b].shared
           /\ calls'[b].cluster = calls[b].cluster /\ calls'[b].ring = calls[b].ring
           /\ calls'[b].score = calls[b].score
      /\ r \in Requests
  BY <1>0, <1>1 DEF GraphShape, CallShape
<1>a. added \subseteq Analyses
  BY <1>0 DEF GraphShape
<1> DEFINE N == Merge(a, "card", r.card) \cup Merge(a, "device", r.device) \cup Merge(a, "ip", r.ip)
<1>4. ASSUME NEW l \in Labels, NEW id
      PROVE  /\ Merge(a, l, id) # {} /\ IsFiniteSet(Merge(a, l, id))
             /\ \A n \in Merge(a, l, id) :
                  /\ IsNode(n) /\ n.label = l /\ n.id = id
                  /\ n \in nodes \/ n = [label |-> l, id |-> id, by |-> a]
             /\ \A n \in nodes : n.label = l /\ n.id = id => n \in Merge(a, l, id) /\ Merge(a, l, id) \subseteq nodes
             /\ Merge(a, l, id) \subseteq nodes \/ \E n : Merge(a, l, id) = {n}
  <2> DEFINE found == {n \in nodes : n.label = l /\ n.id = id}
             new == [label |-> l, id |-> id, by |-> a]
  <2>1. IsFiniteSet(found) /\ IsFiniteSet({new})
    BY <1>0, FS_Subset, FS_Singleton DEF GraphShape
  <2>2. Merge(a, l, id) = IF found # {} THEN found ELSE {new}
    BY DEF Merge
  <2>3. IsNode(new) /\ new.label = l /\ new.id = id
    BY DEF IsNode
  <2>4. \A n \in nodes : IsNode(n)
    BY <1>0 DEF GraphShape
  <2>5. CASE found # {}
    BY <2>1, <2>2, <2>4, <2>5
  <2>6. CASE found = {}
    <3>1. Merge(a, l, id) = {new} /\ \A n \in nodes : ~(n.label = l /\ n.id = id)
      BY <2>2, <2>6
    <3> HIDE DEF found, new
    <3> QED BY <2>1, <2>3, <3>1 DEF new
  <2> QED BY <2>5, <2>6
<1>5. /\ \A n \in N : IsNode(n) /\ n.id = IdFor(r, n.label)
      /\ \A l \in Labels : {n \in N : n.label = l} # {} /\ IsFiniteSet(N)
  <2> "card" \in Labels /\ "device" \in Labels /\ "ip" \in Labels
    BY DEF Labels
  <2>1. /\ IsFiniteSet(Merge(a, "card", r.card)) /\ IsFiniteSet(Merge(a, "device", r.device))
        /\ IsFiniteSet(Merge(a, "ip", r.ip))
    BY <1>4
  <2>2. IsFiniteSet(N)
    BY <2>1, FS_Union
  <2>3. \A n \in N : IsNode(n) /\ n.id = IdFor(r, n.label)
    BY <1>4 DEF IdFor
  <2>4. \A l \in Labels : {n \in N : n.label = l} # {}
    BY <1>4 DEF Labels
  <2> QED BY <2>2, <2>3, <2>4
<1>6. MergeInv'
  <2>1. /\ merging'[a] = N /\ \A b \in Analyses \ {a} : merging'[b] = merging[b]
    BY <1>0, <1>1 DEF GraphShape
  <2> HIDE DEF N, r
  <2> SUFFICES ASSUME NEW b \in Analyses
               PROVE  /\ IsFiniteSet(merging'[b])
                      /\ \A n \in merging'[b] : IsNode(n) /\ n.id = IdFor(calls'[b].req, n.label)
                      /\ calls'[b].at = "add" => \A l \in Labels : {n \in merging'[b] : n.label = l} # {}
                      /\ calls'[b].at # "add" => merging'[b] = {}
    BY DEF MergeInv, Merged
  <2>2. CASE b = a
    <3>1. IsFiniteSet(N) /\ calls'[a].req = r
      BY <1>3, <1>5 DEF Labels, r
    <3> QED BY <1>3, <1>5, <2>1, <2>2, <3>1
  <2>3. CASE b # a
    BY <1>0, <1>3, <2>1, <2>3 DEF MergeInv, Merged
  <2> QED BY <2>2, <2>3
<1>7. GraphShape'
  <2>1. merging' = [b \in Analyses |-> merging'[b]]
    BY <1>0, <1>1 DEF GraphShape
  <2>2. collided' \in BOOLEAN
    BY <1>0, <1>1 DEF GraphShape
  <2> QED BY <1>0, <1>1, <1>2, <2>1, <2>2 DEF GraphShape
<1>8. EdgeInv'
  <2>1. \A b \in Analyses : calls'[b].at \in {"idle", "add"} => calls[b].at \in {"idle", "add"}
    BY <1>1, <1>3
  <2>2. \A b \in added : calls'[b].req = calls[b].req
    BY <1>3, <1>a
  <2> QED BY <1>0, <1>1, <2>1, <2>2 DEF EdgeInv
<1>9. UniqueInv'
  <2> SUFFICES ASSUME ~collided' PROVE UniqueInv'
    BY DEF UniqueInv
  <2>1. ~collided /\ \A b \in Analyses \ {a} : calls[b].at = "add" => ~Common(calls[b].req, r)
    BY <1>1
  <2>2. /\ merging'[a] = N /\ \A b \in Analyses \ {a} : merging'[b] = merging[b]
    BY <1>0, <1>1 DEF GraphShape
  <2>3. ASSUME NEW l \in Labels, NEW id
        PROVE  \A m \in Merge(a, l, id), n \in nodes \cup Merge(a, l, id) : ~Twins(m, n)
    BY <1>0, <1>4, <2>1 DEF UniqueInv, Twins
  <2>4. \A m \in N, n \in nodes \cup N : ~Twins(m, n)
    <3> SUFFICES ASSUME NEW m \in N, NEW n \in nodes \cup N PROVE ~Twins(m, n)
      OBVIOUS
    <3> "card" \in Labels /\ "device" \in Labels /\ "ip" \in Labels
      BY DEF Labels
    <3>1. CASE m \in Merge(a, "card", r.card)
      BY <1>4, <2>3, <3>1 DEF Twins
    <3>2. CASE m \in Merge(a, "device", r.device)
      BY <1>4, <2>3, <3>2 DEF Twins
    <3>3. CASE m \in Merge(a, "ip", r.ip)
      BY <1>4, <2>3, <3>3 DEF Twins
    <3> QED BY <3>1, <3>2, <3>3
  <2>5. \A p, q : Common(p, q) <=> Common(q, p)
    BY DEF Common
  <2>6. ASSUME NEW b \in Analyses, calls'[b].at = "add"
        PROVE  /\ \A m \in merging'[b], n \in nodes \cup merging'[b] : ~Twins(m, n)
               /\ \A c \in Analyses \ {b} : calls'[c].at = "add" =>
                    ~Common(calls'[b].req, calls'[c].req)
    <3> HIDE DEF N
    <3>1. CASE b = a
      BY <1>0, <1>3, <2>1, <2>2, <2>4, <2>5, <3>1 DEF UniqueInv
    <3>2. CASE b # a
      BY <1>0, <1>3, <2>1, <2>2, <2>6, <3>2 DEF UniqueInv
    <3> QED BY <3>1, <3>2
  <2> QED BY <1>0, <1>1, <2>1, <2>6 DEF UniqueInv
<1>10. FoundInv'
  <2> SUFFICES ASSUME NEW b \in Analyses PROVE Found(b)'
    BY DEF FoundInv
  <2>1. Found(b) /\ (collided => collided')
    BY <1>0, <1>1 DEF FoundInv
  <2>2. calls'[b].at \in {"cluster", "ring", "done"} => b # a
    BY <1>3
  <2>3. \A c \in added : c \in added' /\ calls'[c].req = calls[c].req
    BY <1>1, <1>3, <1>a
  <2>4. /\ calls'[b].req = calls[b].req /\ calls'[b].shared = calls[b].shared
        /\ calls'[b].cluster = calls[b].cluster /\ calls'[b].ring = calls[b].ring
        /\ calls'[b].score \in {0, calls[b].score}
        /\ hasDevice \subseteq hasDevice' /\ hasIP \subseteq hasIP'
    BY <1>1, <1>3
  <2>5. calls'[b].at \in {"cluster", "ring", "done"} =>
          calls'[b].at = calls[b].at /\ (b \in added' => b \in added)
    BY <1>1, <1>3, <2>2
  <2> QED BY <2>1, <2>3, <2>4, <2>5, FoundKept
<1> QED BY <1>6, <1>7, <1>8, <1>9, <1>10 DEF GraphInv

\* A MERGE that commits adds nodes for ids that were missing when it began.
LEMMA CommitMergeKeeps ==
  ASSUME GraphAssumption, GraphInv, NEW a \in Analyses, CommitAdd(a) PROVE GraphInv'
<1> DEFINE r == calls[a].req
           C == Merged(a, "card")
           D == Merged(a, "device")
           I == Merged(a, "ip")
<1>0. GraphShape /\ MergeInv /\ EdgeInv /\ UniqueInv /\ FoundInv
  BY DEF GraphInv
<1>1. /\ calls[a].at = "add" /\ nodes' = nodes \cup merging[a]
      /\ hasDevice' = hasDevice \cup (C \X D)
      /\ hasIP' = hasIP \cup (D \X I)
      /\ merging' = [merging EXCEPT ![a] = {}]
      /\ added' = added \cup {a} /\ collided' = collided
      /\ calls' = [calls EXCEPT ![a].at = "sharing"]
  BY DEF CommitAdd
<1>a. added \subseteq Analyses
  BY <1>0 DEF GraphShape
<1>2. calls' \in [Analyses -> CallShape']
  <2> DEFINE c == [calls[a] EXCEPT !.at = "sharing"]
  <2>1. \A b \in Analyses : calls[b] \in CallShape'
    <3> HIDE DEF C, D, I
    <3> QED BY <1>0, <1>1 DEF GraphShape, CallShape
  <2>2. c \in CallShape'
    BY <2>1 DEF CallShape, Ats
  <2>3. calls' = [calls EXCEPT ![a] = c]
    BY <1>1
  <2> HIDE DEF c, C, D, I
  <2> QED BY <1>0, <2>1, <2>2, <2>3 DEF GraphShape
<1>3. /\ calls'[a].at = "sharing" /\ \A b \in Analyses \ {a} : calls'[b].at = calls[b].at
      /\ \A b \in Analyses :
           /\ calls'[b].req = calls[b].req /\ calls'[b].shared = calls[b].shared
           /\ calls'[b].cluster = calls[b].cluster /\ calls'[b].ring = calls[b].ring
           /\ calls'[b].score = calls[b].score
      /\ r \in Requests /\ r.card \in Cards /\ r.device \in Devices /\ r.ip \in IPs
  BY <1>0, <1>1 DEF GraphShape, CallShape, Requests
<1>4. /\ merging'[a] = {} /\ \A b \in Analyses \ {a} : merging'[b] = merging[b]
      /\ merging' = [b \in Analyses |-> merging'[b]]
  BY <1>0, <1>1 DEF GraphShape
<1>5. /\ IsFiniteSet(merging[a])
      /\ \A n \in merging[a] : IsNode(n) /\ n.id = IdFor(r, n.label)
      /\ C # {} /\ D # {} /\ I # {}
  BY <1>0, <1>1 DEF MergeInv, Labels
<1>6. /\ \A n \in C : n \in merging[a] /\ n.label = "card" /\ n.id = r.card
      /\ \A n \in D : n \in merging[a] /\ n.label = "device" /\ n.id = r.device
      /\ \A n \in I : n \in merging[a] /\ n.label = "ip" /\ n.id = r.ip
  BY <1>5 DEF Merged, IdFor
<1>7. GraphShape'
  <2>1. IsFiniteSet(nodes')
    BY <1>0, <1>1, <1>5, FS_Union DEF GraphShape
  <2>2. \A n \in nodes' : IsNode(n) /\ n.id \in Keys
    BY <1>0, <1>1, <1>3, <1>5 DEF GraphShape, IdFor, Keys
  <2> HIDE DEF C, D, I
  <2>3. \A e \in hasDevice' : e \in nodes' \X nodes' /\ e[1].label = "card" /\ e[2].label = "device"
    BY <1>0, <1>1, <1>6 DEF GraphShape
  <2>4. \A e \in hasIP' : e \in nodes' \X nodes' /\ e[1].label = "device" /\ e[2].label = "ip"
    BY <1>0, <1>1, <1>6 DEF GraphShape
  <2> QED BY <1>0, <1>1, <1>2, <1>4, <2>1, <2>2, <2>3, <2>4 DEF GraphShape
<1>8. MergeInv'
  <2>1. IsFiniteSet({})
    BY FS_EmptySet
  <2> SUFFICES ASSUME NEW b \in Analyses
               PROVE  /\ IsFiniteSet(merging'[b])
                      /\ \A n \in merging'[b] : IsNode(n) /\ n.id = IdFor(calls'[b].req, n.label)
                      /\ calls'[b].at = "add" => \A l \in Labels : {n \in merging'[b] : n.label = l} # {}
                      /\ calls'[b].at # "add" => merging'[b] = {}
    BY DEF MergeInv, Merged
  <2>2. CASE b = a
    BY <1>3, <1>4, <2>1, <2>2
  <2>3. CASE b # a
    BY <1>0, <1>3, <1>4, <2>3 DEF MergeInv, Merged
  <2> QED BY <2>2, <2>3
<1>9. EdgeInv'
  <2>1. \A b \in Analyses : calls'[b].at \in {"idle", "add"} => calls[b].at \in {"idle", "add"} /\ b # a
    BY <1>1, <1>3
  <2>2. \A b \in added' : b \in Analyses /\ calls'[b].req = calls[b].req /\ (b \in added \/ b = a)
    BY <1>1, <1>3, <1>a
  <2> HIDE DEF C, D, I
  <2>3. \A e \in hasDevice' : e \in hasDevice \/ (e[1].id = r.card /\ e[2].id = r.device)
    BY <1>1, <1>6
  <2>4. \A e \in hasIP' : e \in hasIP \/ (e[1].id = r.device /\ e[2].id = r.ip)
    BY <1>1, <1>6
  <2>5. /\ \E e \in hasDevice' : e[1].id = r.card /\ e[2].id = r.device
        /\ \E e \in hasIP' : e[1].id = r.device /\ e[2].id = r.ip
    <3>1. PICK m \in C, n \in D, k \in I : TRUE
      BY <1>5
    <3>2. <<m, n>> \in hasDevice' /\ <<n, k>> \in hasIP'
      BY <1>1
    <3> QED BY <1>6, <3>2
  <2>6. /\ a \in added' /\ \A b \in added : b \in added'
        /\ \A e \in hasDevice : e \in hasDevice' 
        /\ \A e \in hasIP : e \in hasIP'
    BY <1>1
  <2>7. /\ \A e \in hasDevice' : \E b \in added' :
             calls'[b].req.card = e[1].id /\ calls'[b].req.device = e[2].id
        /\ \A e \in hasIP' : \E b \in added' :
             calls'[b].req.device = e[1].id /\ calls'[b].req.ip = e[2].id
    <3>1. a \in added' /\ calls'[a].req = r
      BY <2>2, <2>6
    <3>2. ASSUME NEW e \in hasDevice'
          PROVE  \E b \in added' : calls'[b].req.card = e[1].id /\ calls'[b].req.device = e[2].id
      <4>1. CASE e \in hasDevice
        BY <1>0, <2>2, <2>6, <4>1 DEF EdgeInv
      <4>2. CASE e \notin hasDevice
        BY <2>3, <3>1, <4>2
      <4> QED BY <4>1, <4>2
    <3>3. ASSUME NEW e \in hasIP'
          PROVE  \E b \in added' : calls'[b].req.device = e[1].id /\ calls'[b].req.ip = e[2].id
      <4>1. CASE e \in hasIP
        BY <1>0, <2>2, <2>6, <4>1 DEF EdgeInv
      <4>2. CASE e \notin hasIP
        BY <2>4, <3>1, <4>2
      <4> QED BY <4>1, <4>2
    <3> QED BY <3>2, <3>3
  <2>8. \A b \in added' :
       /\ \E e \in hasDevice' : calls'[b].req.card = e[1].id /\ calls'[b].req.device = e[2].id
       /\ \E e \in hasIP' : calls'[b].req.device = e[1].id /\ calls'[b].req.ip = e[2].id
    BY <1>0, <2>2, <2>5, <2>6 DEF EdgeInv
  <2>9. \A b \in Analyses : calls'[b].at \in {"idle", "add"} => b \notin added'
    BY <1>0, <1>1, <2>1 DEF EdgeInv
  <2> QED BY <2>7, <2>8, <2>9 DEF EdgeInv
<1>10. UniqueInv'
  <2> SUFFICES ASSUME ~collided PROVE UniqueInv'
    BY <1>1 DEF UniqueInv
  <2>1. \A m, n \in nodes' : ~Twins(m, n)
    BY <1>0, <1>1 DEF UniqueInv, Twins
  <2>2. ASSUME NEW b \in Analyses, calls'[b].at = "add"
        PROVE  /\ \A m \in merging'[b], n \in nodes' \cup merging'[b] : ~Twins(m, n)
               /\ \A c \in Analyses \ {b} : calls'[c].at = "add" =>
                    ~Common(calls'[b].req, calls'[c].req)
    <3>1. b # a /\ calls[b].at = "add" /\ merging'[b] = merging[b]
      BY <1>3, <1>4, <2>2
    <3>2. ~Common(calls[b].req, r)
      BY <1>0, <1>1, <3>1 DEF UniqueInv
    <3>3. \A m \in merging[b], n \in merging[a] : ~Twins(m, n)
      <4> SUFFICES ASSUME NEW m \in merging[b], NEW n \in merging[a], Twins(m, n) PROVE FALSE
        OBVIOUS
      <4>1. m.label = n.label /\ m.id = n.id /\ m.id = IdFor(calls[b].req, m.label) /\ n.id = IdFor(r, n.label)
            /\ m.label \in Labels
        BY <1>0 DEF MergeInv, Twins, IsNode
      <4> QED BY <3>2, <4>1 DEF IdFor, Common, Labels
    <3>4. \A m \in merging[b], n \in nodes \cup merging[b] : ~Twins(m, n)
      BY <1>0, <3>1 DEF UniqueInv
    <3>5. \A c \in Analyses \ {b} : calls'[c].at = "add" => ~Common(calls'[b].req, calls'[c].req)
      <4> SUFFICES ASSUME NEW c \in Analyses \ {b}, calls'[c].at = "add"
                   PROVE  ~Common(calls'[b].req, calls'[c].req)
        OBVIOUS
      <4>1. c # a /\ calls[c].at = "add" /\ calls'[c].req = calls[c].req /\ calls'[b].req = calls[b].req
        BY <1>3
      <4> QED BY <1>0, <3>1, <4>1 DEF UniqueInv
    <3> QED BY <1>1, <3>1, <3>3, <3>4, <3>5
  <2> QED BY <2>1, <2>2 DEF UniqueInv
<1>11. FoundInv'
  <2> SUFFICES ASSUME NEW b \in Analyses PROVE Found(b)'
    BY DEF FoundInv
  <2>1. /\ Found(b) /\ \A c \in added : c \in added' /\ calls'[c].req = calls[c].req
    BY <1>0, <1>1, <1>3, <1>a DEF FoundInv
  <2>2. calls'[b].at \in {"cluster", "ring", "done"} => b # a
    BY <1>3
  <2> HIDE DEF C, D, I
  <2>3. /\ calls'[b].req = calls[b].req /\ calls'[b].shared = calls[b].shared
        /\ calls'[b].cluster = calls[b].cluster /\ calls'[b].ring = calls[b].ring
        /\ calls'[b].score \in {0, calls[b].score}
        /\ hasDevice \subseteq hasDevice' /\ hasIP \subseteq hasIP' /\ (collided => collided')
    BY <1>1, <1>3
  <2>4. calls'[b].at \in {"cluster", "ring", "done"} =>
          calls'[b].at = calls[b].at /\ (b \in added' => b \in added)
    BY <1>1, <1>3, <2>2
  <2> QED BY <2>1, <2>3, <2>4, FoundKept
<1> QED BY <1>7, <1>8, <1>9, <1>10, <1>11 DEF GraphInv

\* The steps that leave the graph and the calls that are adding alone.
LEMMA FindingKeeps ==
  ASSUME GraphInv, NEW a \in Analyses, UNCHANGED <<nodes, hasDevice, hasIP, added, collided>>,
         calls' \in [Analyses -> CallShape], calls'[a].req = calls[a].req,
         \A b \in Analyses \ {a} : calls'[b] = calls[b],
         calls'[a].at \notin {"idle", "add"},
         merging' = [merging EXCEPT ![a] = {}],
         calls[a].at # "idle",
         Found(a)'
  PROVE  GraphInv'
<1>0. GraphShape /\ MergeInv /\ EdgeInv /\ UniqueInv /\ FoundInv
  BY DEF GraphInv
<1>1. /\ merging'[a] = {} /\ \A b \in Analyses \ {a} : merging'[b] = merging[b]
      /\ merging' = [b \in Analyses |-> merging'[b]] /\ IsFiniteSet({})
  BY <1>0, FS_EmptySet DEF GraphShape
<1>2. /\ added \subseteq Analyses /\ \A b \in Analyses : calls'[b].req = calls[b].req
      /\ \A b \in Analyses : calls'[b].at \in {"idle", "add"} => b # a /\ calls'[b] = calls[b]
  BY <1>0 DEF GraphShape
<1>3. GraphShape'
  BY <1>0, <1>1 DEF GraphShape, CallShape
<1>4. MergeInv'
  BY <1>0, <1>1, <1>2 DEF MergeInv, Merged
<1>5. EdgeInv'
  BY <1>0, <1>2, EdgesKept
<1>6. UniqueInv'
  BY <1>0, <1>1, <1>2 DEF UniqueInv
<1>7. \A b \in Analyses \ {a} : Found(b)'
  <2> SUFFICES ASSUME NEW b \in Analyses \ {a} PROVE Found(b)'
    OBVIOUS
  <2>1. Found(b) /\ calls'[b] = calls[b]
    BY <1>0 DEF FoundInv
  <2>2. \A c \in added : c \in added' /\ calls'[c].req = calls[c].req
    BY <1>2
  <2> QED BY <2>1, <2>2, FoundKept
<1>8. FoundInv'
  BY <1>7 DEF FoundInv
<1> QED BY <1>3, <1>4, <1>5, <1>6, <1>8 DEF GraphInv

\* What the queries return.
LEMMA FailureKeeps ==
  ASSUME GraphInv, NEW a \in Analyses, AddFails(a) \/ QueryFails(a) PROVE GraphInv'
<1>0. GraphShape /\ MergeInv /\ FoundInv
  BY DEF GraphInv
<1>1. UNCHANGED <<nodes, hasDevice, hasIP, added, collided>> /\ UNCHANGED CallShape
  BY DEF AddFails, QueryFails, CallShape
<1>2. /\ calls[a].at # "idle" /\ merging' = [merging EXCEPT ![a] = {}]
      /\ calls'[a].at \in {"failed", "sharing"}
      /\ calls'[a].req = calls[a].req /\ calls'[a].shared = calls[a].shared
      /\ calls'[a].cluster = calls[a].cluster /\ calls'[a].ring = calls[a].ring
      /\ calls'[a].score \in {0, calls[a].score}
      /\ \A b \in Analyses \ {a} : calls'[b] = calls[b]
      /\ calls' \in [Analyses -> CallShape]
  <2>1. CASE AddFails(a)
    <3>1. PICK w \in {"failed", "sharing"} : calls' = [calls EXCEPT ![a].at = w]
      BY <2>1 DEF AddFails
    <3>2. calls' \in [Analyses -> CallShape] /\ calls'[a] = [calls[a] EXCEPT !.at = w]
          /\ \A b \in Analyses \ {a} : calls'[b] = calls[b]
      BY <1>0, <3>1 DEF GraphShape, CallShape, Ats
    <3>3. calls[a] \in CallShape
      BY <1>0 DEF GraphShape
    <3> QED BY <2>1, <3>2, <3>3 DEF AddFails, CallShape
  <2>2. CASE QueryFails(a)
    <3> DEFINE c == [calls[a] EXCEPT !.at = "failed", !.score = 0]
    <3>1. calls[a] \in CallShape
      BY <1>0 DEF GraphShape
    <3>2. /\ c \in CallShape /\ c.at = "failed" /\ c.req = calls[a].req /\ c.shared = calls[a].shared
          /\ c.cluster = calls[a].cluster /\ c.ring = calls[a].ring /\ c.score = 0
      <4> DEFINE d == [calls[a] EXCEPT !.at = "failed"]
      <4>1. /\ d \in CallShape /\ d.at = "failed" /\ d.req = calls[a].req /\ d.shared = calls[a].shared
            /\ d.cluster = calls[a].cluster /\ d.ring = calls[a].ring
        BY <3>1 DEF CallShape, Ats
      <4>2. c = [d EXCEPT !.score = 0]
        OBVIOUS
      <4> HIDE DEF c, d
      <4> QED BY <4>1, <4>2 DEF CallShape, Ats
    <3>3. calls' = [calls EXCEPT ![a] = c]
      BY <2>2 DEF QueryFails
    <3> HIDE DEF c
    <3>4. calls'[a] = c /\ calls' \in [Analyses -> CallShape] /\ \A b \in Analyses \ {a} : calls'[b] = calls[b]
      BY <1>0, <3>2, <3>3 DEF GraphShape
    <3>5. merging' = [merging EXCEPT ![a] = {}] /\ calls[a].at # "idle"
      BY <1>0, <2>2 DEF QueryFails, GraphShape, MergeInv
    <3> QED BY <3>2, <3>4, <3>5
  <2> QED BY <2>1, <2>2
<1>3. \A b \in Analyses : calls'[b].req = calls[b].req
  BY <1>2
<1>4. Found(a)'
  <2>1. Found(a) /\ added \subseteq Analyses
    BY <1>0 DEF FoundInv, GraphShape
  <2>2. \A c \in added : c \in added' /\ calls'[c].req = calls[c].req
    BY <1>1, <1>3, <2>1
  <2> QED BY <1>1, <1>2, <2>1, <2>2, FoundKept
<1> QED BY <1>1, <1>2, <1>4, FindingKeeps

\* The rows of a device.
LEMMA SharingKeeps ==
  ASSUME GraphInv, NEW a \in Analyses, CheckDeviceSharing(a) PROVE GraphInv'
<1> DEFINE rows == {e \in hasDevice : e[2].id = calls[a].req.device}
           k == IF Cardinality(rows) > 1 THEN Finds(a, 4) ELSE calls[a].score
           c == [calls[a] EXCEPT !.at = "cluster", !.shared = rows, !.score = k]
<1>0. GraphShape /\ MergeInv /\ FoundInv /\ EdgeInv /\ UniqueInv
  BY DEF GraphInv
<1>1. UNCHANGED <<nodes, hasDevice, hasIP, added, collided, merging>> /\ UNCHANGED CallShape
      /\ calls[a].at = "sharing"
  BY DEF CheckDeviceSharing, CallShape
<1>2. calls[a] \in CallShape
  BY <1>0 DEF GraphShape
<1>3. k \in 0..10
  BY <1>2 DEF CallShape, Finds
<1>4. rows \subseteq hasDevice /\ \A e \in rows : e[2].id = calls[a].req.device
  OBVIOUS
<1>5. \A e \in hasDevice : e[2].id = calls[a].req.device => e \in rows
  OBVIOUS
<1>6. calls' = [calls EXCEPT ![a] = c]
  BY DEF CheckDeviceSharing
<1>7. ~collided /\ k > 0 => Differing
  <2> SUFFICES ASSUME ~collided, k > 0 PROVE Differing
    OBVIOUS
  <2>1. CASE Cardinality(rows) > 1
    <3>1. IsFiniteSet(rows)
      BY <1>0, <1>4, EdgesApart, FS_Subset
    <3> HIDE DEF rows
    <3>2. PICK e \in rows, f \in rows : e # f
      BY <2>1, <3>1, TwoRows
    <3>3. e[1].id # f[1].id
      BY <1>0, <1>4, <3>2, EdgesApart
    <3>4. PICK b1 \in added : calls[b1].req.card = e[1].id
      BY <1>0, <1>4 DEF EdgeInv
    <3>5. PICK b2 \in added : calls[b2].req.card = f[1].id
      BY <1>0, <1>4 DEF EdgeInv
    <3> QED BY <3>3, <3>4, <3>5 DEF Differing
  <2>2. CASE ~(Cardinality(rows) > 1)
    BY <1>0, <2>2 DEF FoundInv, Found
  <2> QED BY <2>1, <2>2
<1> HIDE DEF rows, k
<1>8. /\ c \in CallShape /\ c.at = "cluster" /\ c.req = calls[a].req /\ c.shared = rows
      /\ c.cluster = calls[a].cluster /\ c.ring = calls[a].ring /\ c.score = k
  BY <1>2, <1>3, <1>4 DEF CallShape, Ats
<1> HIDE DEF c
<1>9. calls'[a] = c /\ calls' \in [Analyses -> CallShape] /\ \A b \in Analyses \ {a} : calls'[b] = calls[b]
  BY <1>0, <1>6, <1>8 DEF GraphShape
<1>10. merging' = [merging EXCEPT ![a] = {}]
  BY <1>0, <1>1 DEF GraphShape, MergeInv
<1>11. /\ \A b \in Analyses : calls'[b].req = calls[b].req
       /\ added \subseteq Analyses
       /\ \A b \in added : b \in added' /\ calls'[b].req = calls[b].req
  BY <1>0, <1>1, <1>8, <1>9 DEF GraphShape
<1>12. Found(a)'
  <2>1. Found(a)
    BY <1>0 DEF FoundInv
  <2>2. a \in added => \E e \in rows : e[1].id = calls[a].req.card
    BY <1>0, <1>5 DEF EdgeInv
  <2>3. \A x \in calls'[a].ring : Linked(calls[a].req.card, x)'
    BY <1>1, <1>8, <1>9, <1>11, <2>1, LinkedKept DEF Found
  <2>4. ~collided' /\ calls'[a].score > 0 => Differing'
    BY <1>1, <1>7, <1>8, <1>9, <1>11, DifferingKept
  <2> QED BY <1>1, <1>4, <1>8, <1>9, <1>11, <2>1, <2>2, <2>3, <2>4 DEF Found
<1> QED BY <1>1, <1>8, <1>9, <1>10, <1>12, FindingKeeps

\* The rows of an address.
LEMMA ClusterKeeps ==
  ASSUME GraphInv, NEW a \in Analyses, CheckIpCluster(a) PROVE GraphInv'
<1> DEFINE rows == {e \in hasIP : e[2].id = calls[a].req.ip}
           k == IF Cardinality(rows) > 1 THEN Finds(a, 3) ELSE calls[a].score
           c == [calls[a] EXCEPT !.at = "ring", !.cluster = rows, !.score = k]
<1>0. GraphShape /\ MergeInv /\ FoundInv /\ EdgeInv /\ UniqueInv
  BY DEF GraphInv
<1>1. UNCHANGED <<nodes, hasDevice, hasIP, added, collided, merging>> /\ UNCHANGED CallShape
      /\ calls[a].at = "cluster"
  BY DEF CheckIpCluster, CallShape
<1>2. calls[a] \in CallShape
  BY <1>0 DEF GraphShape
<1>3. k \in 0..10
  BY <1>2 DEF CallShape, Finds
<1>4. rows \subseteq hasIP /\ \A e \in rows : e[2].id = calls[a].req.ip
  OBVIOUS
<1>5. \A e \in hasIP : e[2].id = calls[a].req.ip => e \in rows
  OBVIOUS
<1>6. calls' = [calls EXCEPT ![a] = c]
  BY DEF CheckIpCluster
<1>7. ~collided /\ k > 0 => Differing
  <2> SUFFICES ASSUME ~collided, k > 0 PROVE Differing
    OBVIOUS
  <2>1. CASE Cardinality(rows) > 1
    <3>1. IsFiniteSet(rows)
      BY <1>0, <1>4, EdgesApart, FS_Subset
    <3> HIDE DEF rows
    <3>2. PICK e \in rows, f \in rows : e # f
      BY <2>1, <3>1, TwoRows
    <3>3. e[1].id # f[1].id
      BY <1>0, <1>4, <3>2, EdgesApart
    <3>4. PICK b1 \in added : calls[b1].req.device = e[1].id
      BY <1>0, <1>4 DEF EdgeInv
    <3>5. PICK b2 \in added : calls[b2].req.device = f[1].id
      BY <1>0, <1>4 DEF EdgeInv
    <3> QED BY <3>3, <3>4, <3>5 DEF Differing
  <2>2. CASE ~(Cardinality(rows) > 1)
    BY <1>0, <2>2 DEF FoundInv, Found
  <2> QED BY <2>1, <2>2
<1> HIDE DEF rows, k
<1>8. /\ c \in CallShape /\ c.at = "ring" /\ c.req = calls[a].req /\ c.cluster = rows
      /\ c.shared = calls[a].shared /\ c.ring = calls[a].ring /\ c.score = k
  BY <1>2, <1>3, <1>4 DEF CallShape, Ats
<1> HIDE DEF c
<1>9. calls'[a] = c /\ calls' \in [Analyses -> CallShape] /\ \A b \in Analyses \ {a} : calls'[b] = calls[b]
  BY <1>0, <1>6, <1>8 DEF GraphShape
<1>10. merging' = [merging EXCEPT ![a] = {}]
  BY <1>0, <1>1 DEF GraphShape, MergeInv
<1>11. /\ \A b \in Analyses : calls'[b].req = calls[b].req
       /\ added \subseteq Analyses
       /\ \A b \in added : b \in added' /\ calls'[b].req = calls[b].req
  BY <1>0, <1>1, <1>8, <1>9 DEF GraphShape
<1>12. Found(a)'
  <2>1. Found(a)
    BY <1>0 DEF FoundInv
  <2>2. a \in added => \E e \in rows : e[1].id = calls[a].req.device
    BY <1>0, <1>5 DEF EdgeInv
  <2>3. \A x \in calls'[a].ring : Linked(calls[a].req.card, x)'
    BY <1>1, <1>8, <1>9, <1>11, <2>1, LinkedKept DEF Found
  <2>4. ~collided' /\ calls'[a].score > 0 => Differing'
    BY <1>1, <1>7, <1>8, <1>9, <1>11, DifferingKept
  <2> QED BY <1>1, <1>4, <1>8, <1>9, <1>11, <2>1, <2>2, <2>3, <2>4 DEF Found
<1> QED BY <1>1, <1>8, <1>9, <1>10, <1>12, FindingKeeps

\* Two devices of one address.
LEMMA RingKeeps ==
  ASSUME GraphInv, NEW a \in Analyses, DetectFraudRing(a) PROVE GraphInv'
<1> DEFINE linked == {e \in hasDevice :
                   \E f \in hasDevice, g \in hasIP :
                     /\ f[1].id = calls[a].req.card /\ f[1] # e[1] /\ f[2] # e[2]
                     /\ g[1] = f[2] /\ <<e[2], g[2]>> \in hasIP}
           ids == {e[1].id : e \in linked}
           k == IF linked # {} THEN Finds(a, 5) ELSE calls[a].score
           c == [calls[a] EXCEPT !.at = "done", !.ring = ids, !.score = k]
<1>0. GraphShape /\ MergeInv /\ FoundInv /\ EdgeInv /\ UniqueInv
  BY DEF GraphInv
<1>1. UNCHANGED <<nodes, hasDevice, hasIP, added, collided, merging>> /\ UNCHANGED CallShape
      /\ calls[a].at = "ring"
  BY DEF DetectFraudRing, CallShape
<1>2. calls[a] \in CallShape
  BY <1>0 DEF GraphShape
<1>3. k \in 0..10
  <2> HIDE DEF linked
  <2> QED BY <1>2 DEF CallShape, Finds
<1>4. \A x \in ids : \E e \in hasDevice, f \in hasDevice, g \in hasIP :
        /\ x = e[1].id /\ f[1].id = calls[a].req.card /\ f[1] # e[1] /\ f[2] # e[2]
        /\ g[1] = f[2] /\ <<e[2], g[2]>> \in hasIP
  OBVIOUS
<1>5. linked # {} => \E e, f \in hasDevice : f[2] # e[2]
  OBVIOUS
<1>6. calls' = [calls EXCEPT ![a] = c]
  BY DEF DetectFraudRing
<1>7. ids \subseteq Keys
  BY <1>0, <1>4 DEF GraphShape
<1> HIDE DEF linked, ids, k
<1>8. /\ c \in CallShape /\ c.at = "done" /\ c.req = calls[a].req /\ c.shared = calls[a].shared
      /\ c.cluster = calls[a].cluster /\ c.ring = ids /\ c.score = k
  BY <1>2, <1>3, <1>7 DEF CallShape, Ats
<1> HIDE DEF c
<1>9. calls'[a] = c /\ calls' \in [Analyses -> CallShape] /\ \A b \in Analyses \ {a} : calls'[b] = calls[b]
  BY <1>0, <1>6, <1>8 DEF GraphShape
<1>10. merging' = [merging EXCEPT ![a] = {}]
  BY <1>0, <1>1 DEF GraphShape, MergeInv
<1>11. /\ \A b \in Analyses : calls'[b].req = calls[b].req
       /\ added \subseteq Analyses
  BY <1>0, <1>8, <1>9 DEF GraphShape
<1>e. \A e \in hasDevice : e[1] \in nodes /\ e[2] \in nodes /\ e[1].label = "card" /\ e[2].label = "device"
  BY <1>0 DEF GraphShape
<1>r. calls[a].score > 0 /\ ~collided => Differing
  BY <1>0 DEF FoundInv, Found
<1>12. Found(a)'
  <2>1. Found(a)
    BY <1>0 DEF FoundInv
  <2>2. ASSUME NEW x \in ids
        PROVE  Linked(calls[a].req.card, x) /\ (~collided => x # calls[a].req.card)
    <3>1. PICK e \in hasDevice, f \in hasDevice, g \in hasIP :
            /\ x = e[1].id /\ f[1].id = calls[a].req.card /\ f[1] # e[1] /\ f[2] # e[2]
            /\ g[1] = f[2] /\ <<e[2], g[2]>> \in hasIP
      BY <1>4
    <3>2. PICK b1 \in added : calls[b1].req.card = f[1].id /\ calls[b1].req.device = f[2].id
      BY <1>0 DEF EdgeInv
    <3>3. PICK b2 \in added : calls[b2].req.device = g[1].id /\ calls[b2].req.ip = g[2].id
      BY <1>0 DEF EdgeInv
    <3> DEFINE h == <<e[2], g[2]>>
    <3>4. h \in hasIP /\ h[1] = e[2] /\ h[2] = g[2]
      BY <3>1
    <3> HIDE DEF h
    <3>5. PICK b3 \in added : calls[b3].req.device = h[1].id /\ calls[b3].req.ip = h[2].id
      BY <1>0, <3>4 DEF EdgeInv
    <3>6. PICK b4 \in added : calls[b4].req.card = e[1].id /\ calls[b4].req.device = e[2].id
      BY <1>0 DEF EdgeInv
    <3>7. ~collided => f[2].id # e[2].id /\ f[1].id # e[1].id
      BY <1>0, <1>e, <3>1 DEF UniqueInv, Twins
    <3>8. /\ calls[b1].req.card = calls[a].req.card /\ calls[b1].req.device = calls[b2].req.device
          /\ calls[b2].req.ip = calls[b3].req.ip /\ calls[b3].req.device = calls[b4].req.device
          /\ calls[b4].req.card = x /\ (calls[b1].req.device # calls[b4].req.device \/ collided)
      BY <3>1, <3>2, <3>3, <3>4, <3>5, <3>6, <3>7
    <3>9. Linked(calls[a].req.card, x)
      BY <3>8 DEF Linked
    <3> QED BY <3>1, <3>7, <3>9
  <2>3. ~collided /\ k > 0 => Differing
    <3>1. CASE linked # {} /\ ~collided
      <4>1. PICK e \in hasDevice, f \in hasDevice : f[2] # e[2]
        BY <1>5, <3>1
      <4>2. f[2].id # e[2].id
        BY <1>0, <1>e, <3>1, <4>1 DEF UniqueInv, Twins
      <4>3. PICK b1 \in added : calls[b1].req.device = f[2].id
        BY <1>0 DEF EdgeInv
      <4>4. PICK b2 \in added : calls[b2].req.device = e[2].id
        BY <1>0 DEF EdgeInv
      <4> QED BY <4>2, <4>3, <4>4 DEF Differing
    <3>2. CASE linked = {}
      BY <1>r, <3>2 DEF k
    <3> QED BY <3>1, <3>2
  <2>4. \A x \in ids : Linked(calls[a].req.card, x)'
    <3> SUFFICES ASSUME NEW x \in ids PROVE Linked(calls[a].req.card, x)'
      OBVIOUS
    <3>1. Linked(calls[a].req.card, x)
      BY <2>2
    <3>2. PICK b1 \in added, b2 \in added, b3 \in added, b4 \in added :
            /\ calls[b1].req.card = calls[a].req.card /\ calls[b1].req.device = calls[b2].req.device
            /\ calls[b2].req.ip = calls[b3].req.ip /\ calls[b3].req.device = calls[b4].req.device
            /\ calls[b4].req.card = x /\ (calls[b1].req.device # calls[b4].req.device \/ collided)
      BY <3>1 DEF Linked
    <3>3. /\ calls'[b1].req = calls[b1].req /\ calls'[b2].req = calls[b2].req
          /\ calls'[b3].req = calls[b3].req /\ calls'[b4].req = calls[b4].req
          /\ calls'[a].req = calls[a].req /\ added' = added /\ collided' = collided
      BY <1>1, <1>11
    <3> QED BY <3>2, <3>3 DEF Linked
  <2>5. ~collided' /\ calls'[a].score > 0 => Differing'
    BY <1>1, <1>8, <1>9, <1>11, <2>3, DifferingKept
  <2> QED BY <1>1, <1>8, <1>9, <1>11, <2>1, <2>2, <2>4, <2>5 DEF Found
<1> QED BY <1>1, <1>8, <1>9, <1>10, <1>12, FindingKeeps

\* The invariant is inductive.
LEMMA GraphPreserved ==
  GraphAssumption /\ GraphInv /\ [GraphNext]_graphVars => GraphInv'
<1> SUFFICES ASSUME GraphAssumption, GraphInv, [GraphNext]_graphVars PROVE GraphInv'
  OBVIOUS
<1>1. CASE UNCHANGED graphVars
  BY <1>1 DEF graphVars, GraphInv, GraphShape, CallShape, MergeInv, Merged, EdgeInv, UniqueInv,
     FoundInv, Found, Linked, Differing
<1> QED
  BY <1>1, BeginMergeKeeps, CommitMergeKeeps, FailureKeeps, SharingKeeps, ClusterKeeps, RingKeeps DEF GraphNext
-----------------------------------------------------------------------------
(* AlertCases *)
Works == {"insert", "escalate", "publish"}
AlertRow == [status : {"NEW", "ESCALATED"}, from : Nat]
CaseRow == [status : Statuses, assigned : Analysts \cup {Nobody}, from : Nat]
Place == [at : {"off", "idle"} \cup Works, position : Nat, committed : Nat]
Update == [at : {"new", "read", "done", "failed"}, case : Nat,
           status : Statuses, assigned : Analysts \cup {Nobody}, read : Held]

CaseShape ==
  /\ created \in Seq(Scores) /\ opened \in Seq(Nat) /\ notes \in Seq(Nat)
  /\ alerts \in Seq(AlertRow) /\ cases \in Seq(CaseRow)
  /\ reader \in [Readers -> Place] /\ patch \in [Patches -> Update]
  /\ cut \in [Readers -> SUBSET Nat] /\ reread \in [Readers -> SUBSET Nat]

\* What reader r has not stored yet has no row, unless it comes back.
Once(r, rows, topic) ==
  /\ reader[r].position <= Len(topic)
  /\ reader[r].at = "off" => reader[r].committed + 1..reader[r].position \subseteq reread[r]
  /\ \A i \in DOMAIN rows :
       /\ rows[i].from > reader[r].position => rows[i].from \in reread[r]
       /\ reader[r].at = "insert" /\ rows[i].from = reader[r].position =>
            reader[r].position \in reread[r]
  /\ \A i, j \in DOMAIN rows :
       rows[i].from = rows[j].from /\ rows[i].from # ByHand /\ i # j =>
         rows[i].from \in reread[r]

\* The row of the record the alert reader is at.
IsLatest(a) ==
  /\ a \in DOMAIN alerts /\ alerts[a].from # ByHand
  /\ \A b \in DOMAIN alerts : alerts[b].from # ByHand => b <= a
InHand ==
  /\ reader["alerts"].at \in Works => reader["alerts"].position \in DOMAIN created
  /\ reader["alerts"].at \in {"escalate", "publish"} =>
       \E a \in DOMAIN alerts :
         /\ IsLatest(a) /\ alerts[a].from = reader["alerts"].position
         /\ \A e \in DOMAIN opened :
              \/ opened[e] < a
              \/ opened[e] = a /\ reader["alerts"].at = "publish" /\ a \in unacked
         /\ reader["alerts"].at = "publish" => alerts[a].status = "ESCALATED"
Announced ==
  /\ \A e \in DOMAIN opened :
       /\ opened[e] \in DOMAIN alerts /\ alerts[opened[e]].from # ByHand
       /\ alerts[opened[e]].status = "ESCALATED"
  /\ \A e, f \in DOMAIN opened : opened[e] = opened[f] => e = f \/ opened[e] \in unacked
FollowedUp ==
  \A o \in Passed("alerts") \ cut["alerts"] :
    created[o] = "high" =>
      \E a \in RowsFrom(alerts, o), e \in DOMAIN opened : opened[e] = a
AlertsInv == Once("alerts", alerts, created) /\ InHand /\ Announced /\ FollowedUp
CasesInv ==
  /\ Once("cases", cases, opened)
  /\ reader["cases"].at \in {"off", "idle", "insert"}
  /\ reader["cases"].at = "insert" => reader["cases"].position \in DOMAIN opened
  /\ \A e \in Passed("cases") \ cut["cases"] : RowsFrom(cases, e) # {}
DeskInv == \A p \in Patches : patch[p].at = "read" => patch[p].case \in DOMAIN cases
CaseInv == CaseTypeOK /\ CaseShape /\ AlertsInv /\ CasesInv /\ DeskInv

\* The invariant of the consumers and of the desk holds at the start.
LEMMA CaseInitial == CaseAssumption /\ CaseInit => CaseInv
<1> SUFFICES ASSUME CaseAssumption, CaseInit PROVE CaseInv
  OBVIOUS
<1>1. CaseTypeOK
  BY DEF CaseTypeOK, CaseInit, CaseAssumption, Readers, Unsent, Held
<1>2. CaseShape
  BY DEF CaseShape, CaseInit, CaseAssumption, Readers, Unsent, Held, Place, Update
<1>3. AlertsInv
  BY DEF AlertsInv, InHand, Announced, FollowedUp, Once, CaseInit, Works, Readers, Passed
<1>4. CasesInv
  BY DEF CasesInv, Once, CaseInit, Works, Readers, Passed
<1>5. DeskInv
  BY DEF DeskInv, CaseInit, Unsent
<1> QED BY <1>1, <1>2, <1>3, <1>4, <1>5 DEF CaseInv

\* Latest is the row that IsLatest describes.
LEMMA LatestIs == ASSUME CaseShape, NEW a, IsLatest(a) PROVE Latest = a
<1>1. \A b : IsLatest(b) => b = a
  BY DEF IsLatest, CaseShape
<1>2. Latest = CHOOSE b : IsLatest(b)
  BY DEF Latest, IsLatest
<1> QED BY <1>1, <1>2

Moves(r, w, n, c) ==
  /\ reader' \in [Readers -> Place]
  /\ reader'[r] = [at |-> w, position |-> n, committed |-> c]
  /\ \A s \in Readers \ {r} : reader'[s] = reader[s]

ReadersOK ==
  /\ reader \in [Readers -> Place]
  /\ \A r \in Readers :
       /\ reader[r].at \in {"off", "idle", "insert", "escalate", "publish"}
       /\ reader[r].committed <= reader[r].position

\* Moving one reader leaves the readers well-formed and the other where it was.
LEMMA MovesKeep ==
  ASSUME CaseShape, CaseTypeOK, NEW r \in Readers, NEW w, NEW n, NEW c, Moves(r, w, n, c), c <= n
  PROVE  ReadersOK'
<1>1. /\ reader'[r].at \in {"off", "idle", "insert", "escalate", "publish"}
      /\ reader'[r].committed <= reader'[r].position
  BY DEF Moves, Place, Works
<1>2. ASSUME NEW s \in Readers
      PROVE  /\ reader'[s].at \in {"off", "idle", "insert", "escalate", "publish"}
             /\ reader'[s].committed <= reader'[s].position
  BY <1>1 DEF Moves, CaseTypeOK
<1> QED BY <1>2 DEF Moves, ReadersOK

\* A reader that starts or restarts drops what it had in hand.
LEMMA StartMoves == ASSUME CaseShape, NEW r \in Readers, StartReader(r)
  PROVE Moves(r, "idle", reader[r].committed, reader[r].committed)
BY DEF StartReader, CaseShape, Place, Moves

\* A commit of the offsets moves no row.
LEMMA CommitMoves == ASSUME CaseShape, NEW r \in Readers, AutoCommit(r)
  PROVE Moves(r, reader[r].at, reader[r].position, reader[r].position)
BY DEF AutoCommit, CaseShape, Place, Moves

\* A reader that takes the next step keeps the record in hand.
LEMMA GotoMoves == ASSUME CaseShape, NEW r \in Readers, NEW w \in {"off", "idle"} \cup Works, Goto(r, w)
  PROVE Moves(r, w, reader[r].position, reader[r].committed)
BY DEF CaseShape, Place, Moves, Goto

\* A reader takes the next record in hand.
LEMMA ReadMoves == ASSUME NEW r \in Readers, Read(r), CaseShape PROVE
   Moves(r, IF Incomplete(r, reader[r].position + 1) THEN "idle" ELSE "insert", reader[r].position + 1, reader[r].committed)
<1> DEFINE o == reader[r].position + 1
           w == IF Incomplete(r, o) THEN "idle" ELSE "insert"
<1>1. reader' = [reader EXCEPT ![r].position = o, ![r].at = w]
  BY DEF Read
<1>2. o \in Nat /\ w \in {"off", "idle"} \cup Works
  BY DEF Works, CaseShape, Place
<1> HIDE DEF o, w
<1>3. Moves(r, w, o, reader[r].committed)
  BY <1>1, <1>2 DEF CaseShape, Moves, Place
<1> QED BY <1>3 DEF o, w

\* A reader that ends, and the record it left behind.
LEMMA EndMoves == ASSUME NEW r \in Readers, EndReader(r), CaseShape PROVE
  \E n \in {reader[r].committed, reader[r].position} :
   /\ Moves(r, "off", reader[r].position, n)
       /\ reread' = [reread EXCEPT ![r] = @ \cup (n + 1..reader[r].position)]
<1>1. PICK n \in {reader[r].committed, reader[r].position} :
      /\ reader' = [reader EXCEPT ![r].at = "off", ![r].committed = n]
      /\ reread' = [reread EXCEPT ![r] = @ \cup (n + 1..reader[r].position)]
  BY DEF EndReader
<1>2. n \in Nat
  BY DEF CaseShape, Place
<1>3. Moves(r, "off", reader[r].position, n)
  BY <1>1, <1>2 DEF CaseShape, Moves, Place
<1> QED BY <1>1, <1>3

\* UPDATE of a row, field by field.
LEMMA RowUpdate == ASSUME NEW q \in CaseRow, NEW s \in Statuses, NEW a \in Analysts \cup {Nobody} PROVE [q EXCEPT !.status = s, !.assigned = a] = [status |-> s, assigned |-> a, from |-> q.from]
<1> DEFINE x == [q EXCEPT !.status = s]
<1>1. x = [status |-> s, assigned |-> q.assigned, from |-> q.from] 
  BY DEF CaseRow
<1>2. [q EXCEPT !.status = s, !.assigned = a] = [x EXCEPT !.assigned = a]
  OBVIOUS
<1> HIDE DEF x
<1> QED BY <1>1, <1>2

Patched(c, s, a) ==
  /\ cases' \in Seq(CaseRow) /\ Len(cases') = Len(cases) /\ c \in DOMAIN cases
  /\ cases'[c] = [status |-> s, assigned |-> a, from |-> cases[c].from]
  /\ \A d \in DOMAIN cases \ {c} : cases'[d] = cases[d]

\* The row of a case after the UPDATE of a PATCH.
LEMMA PatchRow ==
  ASSUME CaseShape, NEW p \in Patches, CommitPatch(p), patch[p].case \in DOMAIN cases
  PROVE  \E s, a :
           /\ Patched(patch[p].case, s, a)
           /\ s = IF patch[p].status = patch[p].read.status THEN cases[patch[p].case].status
                  ELSE patch[p].status
           /\ a = IF patch[p].assigned \in {Nobody, patch[p].read.assigned}
                  THEN cases[patch[p].case].assigned ELSE patch[p].assigned
<1> DEFINE c == patch[p].case
           s == IF patch[p].status = patch[p].read.status THEN cases[c].status ELSE patch[p].status
           a == IF patch[p].assigned \in {Nobody, patch[p].read.assigned} THEN cases[c].assigned ELSE patch[p].assigned
           row == [status |-> s, assigned |-> a, from |-> cases[c].from]
<1>1. c \in 1..Len(cases) /\ cases[c] \in CaseRow /\ cases \in Seq(CaseRow)
  BY DEF CaseShape
<1>2. s \in Statuses /\ a \in Analysts \cup {Nobody}
  BY <1>1 DEF CaseShape, Update, CaseRow
<1>3. cases' = [cases EXCEPT ![c].status = s, ![c].assigned = a]
  BY <1>1 DEF CommitPatch
<1> HIDE DEF s, a, c
<1>4. row \in CaseRow
  BY <1>1, <1>2 DEF CaseRow
<1>5. cases' = [cases EXCEPT ![c] = row]
  <2> DEFINE q == cases[c]
  <2>1. cases' = [cases EXCEPT ![c] = [q EXCEPT !.status = s, !.assigned = a]]
    BY <1>1, <1>3
  <2> HIDE DEF q
  <2>2. [q EXCEPT !.status = s, !.assigned = a] = [status |-> s, assigned |-> a, from |-> q.from]
    BY <1>1, <1>2, RowUpdate DEF q
  <2> QED BY <2>1, <2>2 DEF q
<1> HIDE DEF row
<1>6. /\ [cases EXCEPT ![c] = row] \in Seq(CaseRow)
      /\ Len([cases EXCEPT ![c] = row]) = Len(cases)
      /\ \A j \in 1 .. Len(cases) : [cases EXCEPT ![c] = row][j] = IF j=c THEN row ELSE cases[j]
  BY <1>1, <1>4, ExceptSeq
<1>7. Patched(c, s, a)
  BY <1>1, <1>5, <1>6 DEF row, Patched
<1> QED BY <1>7 DEF c, s, a

\* The row of an alert after _escalate.
LEMMA EscalateRow == ASSUME Escalate, CaseShape, Latest \in DOMAIN alerts  PROVE
   /\ alerts' \in Seq(AlertRow) /\ Len(alerts') = Len(alerts)
   /\ alerts'[Latest] = [status |-> "ESCALATED", from |-> alerts[Latest].from]
   /\ \A d \in DOMAIN alerts \ {Latest} : alerts'[d] = alerts[d]
<1> DEFINE c == Latest
           q == alerts[c]
           row == [q EXCEPT !.status = "ESCALATED"]
<1>1. c \in 1..Len(alerts) /\ q \in AlertRow /\ alerts \in Seq(AlertRow)
  BY DEF CaseShape
<1>2. c = Latest OBVIOUS
<1>5. alerts' = [alerts EXCEPT ![c] = row]
  BY DEF Escalate
<1>3. q = alerts[c] OBVIOUS
<1> HIDE DEF q, c
<1>4. row = [status |-> "ESCALATED", from |-> q.from] /\ row \in AlertRow
  BY <1>1 DEF AlertRow
<1> HIDE DEF row
<1>6. /\ [alerts EXCEPT ![c] = row] \in Seq(AlertRow)
      /\ Len([alerts EXCEPT ![c] = row]) = Len(alerts)
      /\ \A j \in 1 .. Len(alerts) : [alerts EXCEPT ![c] = row][j] = IF j=c THEN row ELSE alerts[j]
  BY <1>1, <1>4, ExceptSeq
<1> QED BY <1>1, <1>2, <1>3, <1>4, <1>5, <1>6

\* Whoever escalates has inserted the row.
LEMMA HasLatest ==
  ASSUME CaseShape, AlertsInv, reader["alerts"].at \in {"escalate", "publish"}
  PROVE  /\ Latest \in DOMAIN alerts /\ IsLatest(Latest)
         /\ alerts[Latest].from = reader["alerts"].position
         /\ \A e \in DOMAIN opened :
              \/ opened[e] < Latest
              \/ opened[e] = Latest /\ reader["alerts"].at = "publish" /\ Latest \in unacked
         /\ reader["alerts"].at = "publish" => alerts[Latest].status = "ESCALATED"
BY LatestIs DEF AlertsInv, InHand

\* One step per action.
LEMMA CaseShapePreserved ==
  ASSUME CaseAssumption, CaseInv, [CaseNext]_caseVars
  PROVE  CaseShape' /\ CaseTypeOK'
<1> USE CaseAssumption DEF CaseAssumption, Readers, ByHand
<1>0. CaseShape /\ CaseTypeOK
  BY DEF CaseInv
<1>1. CASE PublishAlert
  BY <1>0, <1>1 DEF PublishAlert, CaseShape, CaseTypeOK, tables
<1>2. ASSUME NEW r \in Readers, StartReader(r) PROVE CaseShape' /\ CaseTypeOK'
  <2>1. ReadersOK'
    <3>1. Moves(r, "idle", reader[r].committed, reader[r].committed)
      BY <1>0, <1>2, StartMoves
    <3>2. reader[r].committed <= reader[r].committed
      BY <1>0 DEF CaseShape, Place
    <3> QED BY <1>0, <3>1, <3>2, MovesKeep
  <2>2. UNCHANGED <<created, opened, alerts, cases, notes, patch, posted, faults, cut, reread, unacked>>
    BY <1>2 DEF StartReader, tables, topics
  <2> QED BY <1>0, <2>1, <2>2 DEF ReadersOK, CaseShape, CaseTypeOK
<1>3. ASSUME NEW r \in Readers, Read(r) PROVE CaseShape' /\ CaseTypeOK'
  <2>1. ReadersOK'
    <3> DEFINE o == reader[r].position + 1
               w == IF Incomplete(r, o) THEN "idle" ELSE "insert"
    <3>1. Moves(r, w, o, reader[r].committed)
      BY <1>0, <1>3, ReadMoves
    <3>2. reader[r].committed <= o
      BY <1>0 DEF CaseShape, CaseTypeOK, Place
    <3> HIDE DEF o, w
    <3> QED BY <1>0, <3>1, <3>2, MovesKeep
  <2> QED BY <1>0, <1>3, <2>1 DEF Read, ReadersOK, CaseShape, CaseTypeOK, tables, topics
<1>4. ASSUME NEW r \in Readers, AutoCommit(r) PROVE CaseShape' /\ CaseTypeOK'
  <2>1. ReadersOK'
    <3>1. Moves(r, reader[r].at, reader[r].position, reader[r].position)
      BY <1>0, <1>4, CommitMoves
    <3>2. reader[r].position <= reader[r].position
      BY <1>0 DEF CaseShape, Place
    <3> QED BY <1>0, <3>1, <3>2, MovesKeep
  <2> QED BY <1>0, <1>4, <2>1 DEF AutoCommit, ReadersOK, CaseShape, CaseTypeOK, tables, topics
<1>5. ASSUME NEW r \in Readers, EndReader(r) PROVE CaseShape' /\ CaseTypeOK'
  <2>1. PICK n \in {reader[r].committed, reader[r].position} :
          /\ Moves(r, "off", reader[r].position, n)
          /\ reread' = [reread EXCEPT ![r] = @ \cup (n + 1..reader[r].position)]
    BY <1>0, <1>5, EndMoves
  <2>2. /\ reader[r].committed <= reader[r].position
        /\ reader[r].committed \in Nat /\ reader[r].position \in Nat
    BY <1>0 DEF CaseTypeOK, CaseShape, Place
  <2>3. ReadersOK'
    BY <1>0, <2>1, <2>2, MovesKeep
  <2>4. cut' \in [Readers -> SUBSET Nat] /\ reread' \in [Readers -> SUBSET Nat]
    BY <1>0, <1>5, <2>1, <2>2 DEF EndReader, CaseShape
  <2>5. /\ UNCHANGED <<created, opened, alerts, cases, notes, patch, posted, unacked>>
        /\ faults' \in 0..MaxFaults
    BY <1>0, <1>5 DEF EndReader, CaseTypeOK, topics, tables
  <2> QED BY <1>0, <2>3, <2>4, <2>5 DEF ReadersOK, CaseShape, CaseTypeOK, tables, topics
<1>6. CASE InsertAlert
  <2> DEFINE w == IF created[reader["alerts"].position] = "high" THEN "escalate" ELSE "idle"
  <2>1. w \in {"idle", "escalate"} /\ Goto("alerts", w)
    BY <1>6 DEF InsertAlert
  <2>2. Moves("alerts", w, reader["alerts"].position, reader["alerts"].committed)
    BY <1>0, <2>1, GotoMoves DEF Works
  <2>3. reader["alerts"].position \in 1..Len(created)
    BY <1>0, <1>6 DEF CaseInv, AlertsInv, InHand, InsertAlert, Works, CaseShape
  <2> HIDE DEF w
  <2>r. ReadersOK'
    BY <1>0, <2>2, MovesKeep DEF CaseShape, CaseTypeOK, Place
  <2>4. CaseShape'
    BY <1>0, <1>6, <2>1, <2>2 DEF InsertAlert, CaseShape, CaseTypeOK, tables, topics, Place, Works, Moves, AlertRow
  <2>5. \A a \in DOMAIN alerts' : alerts'[a].status \in {"NEW", "ESCALATED"} /\ alerts'[a].from \in 0..Len(created)
    BY <1>0, <1>6, <2>3 DEF InsertAlert, CaseShape, CaseTypeOK, AlertRow
  <2>6. DOMAIN alerts \subseteq DOMAIN alerts'
    BY <1>0, <1>6 DEF InsertAlert, CaseShape
  <2>7. UNCHANGED <<created, opened, cases, notes, patch, posted, faults, cut, reread, unacked>>
    BY <1>6 DEF InsertAlert, topics
  <2> QED BY <1>0, <2>r, <2>4, <2>5, <2>6, <2>7 DEF ReadersOK, CaseTypeOK
<1>7. CASE Escalate
  <2>1. Moves("alerts", "publish", reader["alerts"].position, reader["alerts"].committed)
    BY <1>0, <1>7, GotoMoves DEF Escalate, Works
  <2>2. ReadersOK'
    BY <1>0, <2>1, MovesKeep DEF CaseShape, CaseTypeOK, Place
  <2>3. /\ alerts' \in Seq(AlertRow) /\ Len(alerts') = Len(alerts)
        /\ Latest \in DOMAIN alerts
        /\ alerts'[Latest] = [status |-> "ESCALATED", from |-> alerts[Latest].from]
        /\ \A d \in DOMAIN alerts \ {Latest} : alerts'[d] = alerts[d]
    BY <1>0, <1>7, HasLatest, EscalateRow DEF CaseInv, Escalate
  <2>4. \A a \in DOMAIN alerts' : alerts'[a].status \in {"NEW", "ESCALATED"} /\ alerts'[a].from \in 0..Len(created)
    <3>1. /\ DOMAIN alerts' = DOMAIN alerts
          /\ \A a \in DOMAIN alerts : alerts[a].status \in {"NEW", "ESCALATED"} /\ alerts[a].from \in 0..Len(created)
      BY <1>0, <2>3 DEF CaseTypeOK, CaseShape
    <3>2. alerts'[Latest].status = "ESCALATED" /\ alerts'[Latest].from \in 0..Len(created)
      BY <2>3, <3>1
    <3>3. ASSUME NEW a \in DOMAIN alerts PROVE alerts'[a].status \in {"NEW", "ESCALATED"} /\ alerts'[a].from \in 0..Len(created)
      <4>1. CASE a = Latest
        BY <4>1, <3>2
      <4>2. CASE a # Latest
        BY <4>2, <3>1, <2>3
      <4> QED BY <4>1, <4>2
    <3> QED BY <3>1, <3>3
  <2> QED BY <1>0, <1>7, <2>2, <2>3, <2>4 DEF Escalate, ReadersOK, CaseShape, CaseTypeOK, tables, topics
<1>8. CASE PublishCase
  <2>1. Moves("alerts", "idle", reader["alerts"].position, reader["alerts"].committed)
    BY <1>0, <1>8, GotoMoves DEF PublishCase, Works
  <2>2. ReadersOK'
    BY <1>0, <2>1, MovesKeep DEF CaseShape, CaseTypeOK, Place
  <2>3. Latest \in 1..Len(alerts)
    BY <1>0, <1>8, HasLatest DEF CaseInv, PublishCase, CaseShape
  <2>4. CaseShape'
    BY <1>0, <1>8, <2>2, <2>3 DEF PublishCase, ReadersOK, CaseShape, CaseTypeOK, tables, topics
  <2>5. \A e \in DOMAIN opened' : opened'[e] \in DOMAIN alerts
    BY <1>0, <1>8, <2>3 DEF PublishCase, ReadersOK, CaseShape, CaseTypeOK, tables, topics
  <2>6. \A c \in DOMAIN cases : cases[c].from \in 0..Len(opened')
    <3>1. Len(opened') = Len(opened) + 1 /\ Len(opened) \in Nat
      BY <1>0, <1>8, <2>3 DEF PublishCase, CaseShape
    <3>2. \A c \in DOMAIN cases : cases[c].from \in 0..Len(opened)
      BY <1>0 DEF CaseTypeOK
    <3> QED BY <3>1, <3>2
  <2> QED BY <1>0, <1>8, <2>2, <2>4, <2>5, <2>6 DEF PublishCase, ReadersOK, CaseShape, CaseTypeOK, tables, topics
<1>9. CASE InsertCase
  <2>1. Moves("cases", "idle", reader["cases"].position, reader["cases"].committed)
    BY <1>0, <1>9, GotoMoves DEF InsertCase, Works
  <2>2. ReadersOK'
    BY <1>0, <2>1, MovesKeep DEF CaseShape, CaseTypeOK, Place
  <2> DEFINE row == [status |-> "OPEN", assigned |-> Nobody, from |-> reader["cases"].position]
  <2>3. row \in CaseRow /\ reader["cases"].position \in 1..Len(opened)
    BY <1>0, <1>9 DEF CaseInv, CasesInv, InsertCase, CaseShape, CaseRow
  <2>4. CaseShape'
    BY <1>0, <1>9, <2>2, <2>3 DEF InsertCase, ReadersOK, CaseShape, CaseTypeOK, tables, topics
  <2>5. \A c \in DOMAIN cases' : [status |-> cases'[c].status, assigned |-> cases'[c].assigned] \in Held /\ cases'[c].from \in 0..Len(opened)
    BY <1>0, <1>9, <2>3 DEF InsertCase, ReadersOK, CaseShape, CaseTypeOK, tables, topics, CaseRow, Held
  <2>6. Len(cases') = Len(cases) + 1 /\ DOMAIN cases \subseteq DOMAIN cases'
    BY <1>0, <1>9 DEF InsertCase, CaseShape
  <2> QED BY <1>0, <1>9, <2>2, <2>4, <2>5, <2>6 DEF InsertCase, ReadersOK, CaseShape, CaseTypeOK, tables, topics
<1>10. CASE CreateAlert
  BY <1>0, <1>10 DEF CreateAlert, CaseShape, CaseTypeOK, topics, Post, AlertRow
<1>11. CASE CreateCase
  <2>1. PICK given \in Held, titled \in BOOLEAN :
          /\ cases' = Append(cases, [status |-> given.status, assigned |-> given.assigned, from |-> ByHand])
          /\ notes' = IF titled THEN Append(notes, Len(cases')) ELSE notes
    BY <1>11 DEF CreateCase
  <2> DEFINE row == [status |-> given.status, assigned |-> given.assigned, from |-> ByHand]
  <2>2. row \in CaseRow
    BY DEF CaseRow, Held
  <2>3. cases' \in Seq(CaseRow) /\ Len(cases') = Len(cases) + 1 /\ cases \in Seq(CaseRow)
    BY <1>0, <2>1, <2>2 DEF CaseShape
  <2>4. \A c \in DOMAIN cases' : [status |-> cases'[c].status, assigned |-> cases'[c].assigned] \in Held /\ cases'[c].from \in 0..Len(opened)
    BY <1>0, <2>1, <2>2 DEF ReadersOK, CaseShape, CaseTypeOK, tables, topics, CaseRow, Held
  <2>5. notes' \in Seq(Nat) /\ \A n \in DOMAIN notes' : notes'[n] \in DOMAIN cases'
    <3>1. /\ notes \in Seq(Nat) /\ \A n \in DOMAIN notes : notes[n] \in DOMAIN cases
          /\ DOMAIN cases \subseteq DOMAIN cases' /\ Len(cases') \in Nat /\ Len(cases') \in DOMAIN cases'
      BY <1>0, <2>3 DEF CaseShape, CaseTypeOK
    <3>2. CASE titled
      <4>1. notes' = Append(notes, Len(cases'))
        BY <2>1, <3>2
      <4> DEFINE k == Len(cases')
      <4> HIDE DEF k
      <4> QED BY <3>1, <4>1 DEF k
    <3>3. CASE ~titled
      BY <2>1, <3>1, <3>3
    <3> QED BY <3>2, <3>3
  <2>6. /\ UNCHANGED <<created, opened, reader, alerts, patch, faults, cut, reread, unacked>>
        /\ posted' \in 0..MaxPosted
    BY <1>0, <1>11 DEF CreateCase, Post, CaseTypeOK, topics
  <2> QED BY <1>0, <2>3, <2>4, <2>5, <2>6 DEF CaseShape, CaseTypeOK
<1>12. CASE AddNote
  BY <1>0, <1>12 DEF AddNote, CaseShape, CaseTypeOK, topics, Post
<1>13. ASSUME NEW p \in Patches, BeginPatch(p) PROVE CaseShape' /\ CaseTypeOK'
  BY <1>0, <1>13 DEF BeginPatch, CaseShape, CaseTypeOK, topics, tables, Held, Update, CaseRow
<1>14. ASSUME NEW p \in Patches, CommitPatch(p) PROVE CaseShape' /\ CaseTypeOK'
  <2>1. PICK s, a : Patched(patch[p].case, s, a)
    BY <1>0, <1>14, PatchRow DEF CaseInv, DeskInv, CommitPatch
  <2>2. \A c \in DOMAIN cases' : [status |-> cases'[c].status, assigned |-> cases'[c].assigned] \in Held /\ cases'[c].from \in 0..Len(opened)
    <3>1. /\ cases' \in Seq(CaseRow) /\ DOMAIN cases' = DOMAIN cases
          /\ \A c \in DOMAIN cases : cases[c].from \in 0..Len(opened)
      <4>1. cases' \in Seq(CaseRow) /\ cases \in Seq(CaseRow) /\ Len(cases') = Len(cases)
        BY <1>0, <2>1 DEF CaseShape, Patched
      <4>2. DOMAIN cases' = DOMAIN cases
        BY <4>1
      <4> QED BY <1>0, <4>1, <4>2 DEF CaseTypeOK
    <3>2. \A c \in DOMAIN cases' : cases'[c].from \in 0..Len(opened)
      BY <2>1, <3>1 DEF Patched
    <3>3. \A c \in DOMAIN cases' : cases'[c] \in CaseRow
      BY <3>1
    <3> QED BY <3>2, <3>3 DEF CaseRow, Held
  <2>3. /\ patch' \in [Patches -> Update]
        /\ \A q \in Patches : patch'[q].at \in {"new", "read", "done", "failed"}
    BY <1>0, <1>14 DEF CommitPatch, Finish, CaseShape, Update, Held, Unsent
  <2> QED BY <1>0, <1>14, <2>1, <2>2, <2>3 DEF CommitPatch, Patched, ReadersOK, CaseShape, CaseTypeOK, tables, topics
<1>15. ASSUME NEW p \in Patches, PatchRaises(p) PROVE CaseShape' /\ CaseTypeOK'
  BY <1>0, <1>15 DEF PatchRaises, Finish, CaseShape, CaseTypeOK, topics, tables, Held, Update, Unsent
<1>16. CASE UNCHANGED caseVars
  BY <1>0, <1>16 DEF caseVars, topics, tables, CaseShape, CaseTypeOK
<1>17. CASE StoreUnacked
  <2>1. Latest \in 1..Len(alerts)
    BY <1>0, <1>17, HasLatest DEF CaseInv, StoreUnacked, CaseShape
  <2>2. CaseShape'
    BY <1>0, <1>17, <2>1 DEF StoreUnacked, CaseShape, tables
  <2>3. \A e \in DOMAIN opened' : opened'[e] \in DOMAIN alerts
    BY <1>0, <1>17, <2>1 DEF StoreUnacked, CaseShape, CaseTypeOK
  <2>4. \A c \in DOMAIN cases : cases[c].from \in 0..Len(opened')
    <3>1. Len(opened') = Len(opened) + 1 /\ Len(opened) \in Nat
      BY <1>0, <1>17, <2>1 DEF StoreUnacked, CaseShape
    <3>2. \A c \in DOMAIN cases : cases[c].from \in 0..Len(opened)
      BY <1>0 DEF CaseTypeOK
    <3> QED BY <3>1, <3>2
  <2>5. unacked' \subseteq DOMAIN alerts /\ faults' \in 0..MaxFaults
    BY <1>0, <1>17, <2>1 DEF StoreUnacked, CaseShape, CaseTypeOK
  <2>6. UNCHANGED <<created, reader, alerts, cases, notes, patch, posted>>
    BY <1>17 DEF StoreUnacked, tables
  <2> QED BY <1>0, <2>2, <2>3, <2>4, <2>5, <2>6 DEF CaseTypeOK
<1> QED
  BY <1>1, <1>2, <1>3, <1>4, <1>5, <1>6, <1>7, <1>8, <1>9, <1>10, <1>11, <1>12, <1>13,
     <1>14, <1>15, <1>16, <1>17 DEF CaseNext, PipelineNext, DeskNext

\* Deduction: only a commit finishes a PATCH.
LEMMA DeskPreserved ==
  ASSUME CaseAssumption, CaseInv, [CaseNext]_caseVars
  PROVE  /\ DeskInv'
         /\ \A p \in Patches : Commits(p) => CommitPatch(p)
<1>0. CaseShape /\ DeskInv
  BY DEF CaseInv
<1>1. /\ \A c \in DOMAIN cases : c \in DOMAIN cases'
      /\ patch' = patch \/ \E p \in Patches : BeginPatch(p) \/ CommitPatch(p) \/ PatchRaises(p)
  <2>1. \A p \in Patches : CommitPatch(p) => \E s, a : Patched(patch[p].case, s, a)
    <3> SUFFICES ASSUME NEW p \in Patches, CommitPatch(p)
                 PROVE  \E s, a : Patched(patch[p].case, s, a)
      OBVIOUS
    <3>1. patch[p].case \in DOMAIN cases
      BY <1>0 DEF DeskInv, CommitPatch
    <3> QED BY <1>0, <3>1, PatchRow
  <2>2. cases' = cases \/ (\E c, s, a : Patched(c, s, a)) \/ \E row : cases' = Append(cases, row)
    BY <2>1 DEF CaseNext, PipelineNext, DeskNext, caseVars, tables, topics, PublishAlert, StartReader, Read,
       AutoCommit, EndReader, InsertAlert, Escalate, StoreUnacked, PublishCase, InsertCase, CreateAlert,
       CreateCase, AddNote, BeginPatch, PatchRaises
  <2>3. \A c \in DOMAIN cases : c \in DOMAIN cases'
    <3>1. ASSUME NEW row, cases' = Append(cases, row)
          PROVE  \A c \in DOMAIN cases : c \in DOMAIN cases'
      <4> DEFINE S == CaseRow \cup {row}
      <4>1. cases \in Seq(S) /\ row \in S
        BY <1>0 DEF CaseShape
      <4> HIDE DEF S
      <4> QED BY <3>1, <4>1
    <3>2. ASSUME NEW c, NEW s, NEW a, Patched(c, s, a)
          PROVE  \A d \in DOMAIN cases : d \in DOMAIN cases'
      <4>1. cases \in Seq(CaseRow) /\ cases' \in Seq(CaseRow) /\ Len(cases') = Len(cases)
        BY <1>0, <3>2 DEF CaseShape, Patched
      <4> QED BY <4>1
    <3> QED BY <2>2, <3>1, <3>2
  <2>4. patch' = patch \/ \E p \in Patches : BeginPatch(p) \/ CommitPatch(p) \/ PatchRaises(p)
    BY DEF CaseNext, PipelineNext, DeskNext, caseVars, PublishAlert, StartReader, Read,
       AutoCommit, EndReader, InsertAlert, Escalate, StoreUnacked, PublishCase, InsertCase, CreateAlert,
       CreateCase, AddNote
  <2> QED BY <2>3, <2>4
<1>2. CASE patch' = patch
  BY <1>0, <1>1, <1>2 DEF DeskInv, Commits
<1>3. ASSUME NEW p \in Patches, BeginPatch(p) PROVE DeskInv' /\ \A q \in Patches : ~Commits(q)
  <2>1. PICK c \in DOMAIN cases, asked \in Held :
          patch' = [patch EXCEPT ![p] =
            [at |-> "read", case |-> c, status |-> asked.status, assigned |-> asked.assigned,
             read |-> [status |-> cases[c].status, assigned |-> cases[c].assigned]]]
    BY <1>3 DEF BeginPatch
  <2> QED BY <1>0, <1>1, <1>3, <2>1 DEF BeginPatch, DeskInv, CaseShape, Commits
<1>4. ASSUME NEW p \in Patches, CommitPatch(p) PROVE DeskInv' /\ \A q \in Patches : Commits(q) => q = p
  BY <1>0, <1>1, <1>4 DEF CommitPatch, Finish, Unsent, DeskInv, CaseShape, Commits
<1>5. ASSUME NEW p \in Patches, PatchRaises(p) PROVE DeskInv' /\ \A q \in Patches : ~Commits(q)
  BY <1>0, <1>1, <1>5 DEF PatchRaises, Finish, Unsent, DeskInv, CaseShape, Commits
<1> QED BY <1>1, <1>2, <1>3, <1>4, <1>5

\* What a PATCH that commits does to the case.
LEMMA Composes ==
  ASSUME CaseAssumption, CaseInv, [CaseNext]_caseVars, NEW p \in Patches, Commits(p)
  PROVE  LET q == patch[p] now == cases'[q.case] was == cases[q.case] IN
         /\ q.assigned = Nobody => now.assigned = was.assigned
         /\ now.status # q.status => was.status # q.read.status
         /\ now.assigned # q.assigned /\ q.assigned # Nobody => was.assigned # q.read.assigned
<1> DEFINE q == patch[p]
<1>1. CommitPatch(p) /\ q.case \in DOMAIN cases
  BY DeskPreserved DEF CaseInv, DeskInv, CommitPatch
<1>2. PICK s, a :
        /\ Patched(q.case, s, a)
        /\ s = IF q.status = q.read.status THEN cases[q.case].status ELSE q.status
        /\ a = IF q.assigned \in {Nobody, q.read.assigned}
               THEN cases[q.case].assigned ELSE q.assigned
  BY <1>1, PatchRow DEF CaseInv
<1>3. cases'[q.case].status = s /\ cases'[q.case].assigned = a
  BY <1>2 DEF Patched
<1> QED BY <1>2, <1>3

\* An action of one reader leaves the other where it is.
AlertsSame ==
  /\ UNCHANGED <<created, opened, alerts, unacked>> /\ reader'["alerts"] = reader["alerts"]
  /\ cut'["alerts"] = cut["alerts"] /\ reread'["alerts"] = reread["alerts"]
CasesSame ==
  /\ UNCHANGED <<opened, cases>> /\ reader'["cases"] = reader["cases"]
  /\ cut'["cases"] = cut["cases"] /\ reread'["cases"] = reread["cases"]

\* The alerts are explained as long as nothing that explains them changes.
LEMMA AlertsKept == ASSUME AlertsInv, AlertsSame PROVE AlertsInv'
BY DEF AlertsInv, InHand, Announced, FollowedUp, AlertsSame, Once, IsLatest, Passed, RowsFrom
\* So are the cases.
LEMMA CasesKept == ASSUME CasesInv, CasesSame PROVE CasesInv'
BY DEF CasesInv, CasesSame, Once, Passed, RowsFrom

\* Every step keeps the alerts explained.
LEMMA AlertsPreserved ==
  ASSUME CaseAssumption, CaseInv, CaseShape', [CaseNext]_caseVars
  PROVE  AlertsInv'
<1> USE DEF ByHand
<1>0. CaseShape /\ CaseTypeOK /\ AlertsInv /\ "alerts" \in Readers /\ "cases" \in Readers
  BY DEF CaseInv, Readers
<1> DEFINE A == "alerts"
           at == reader[A].at
           n == reader[A].position
           m == reader[A].committed
<1>n. /\ n \in Nat /\ m \in Nat /\ m <= n /\ Len(created) \in Nat /\ n <= Len(created)
      /\ DOMAIN created = 1..Len(created)
  BY <1>0 DEF CaseShape, CaseTypeOK, Place, AlertsInv, Once
<1>r. /\ DOMAIN alerts = 1..Len(alerts) /\ Len(alerts) \in Nat
      /\ \A i \in DOMAIN alerts : alerts[i].from \in Nat
      /\ DOMAIN opened = 1..Len(opened) /\ Len(opened) \in Nat
      /\ \A e \in DOMAIN opened : opened[e] \in Nat
  <2>1. \A i \in DOMAIN alerts : alerts[i] \in AlertRow
    BY <1>0 DEF CaseShape
  <2> QED BY <1>0, <2>1 DEF CaseShape, AlertRow
<1>i. Once(A, alerts, created) /\ InHand /\ Announced /\ FollowedUp
  BY <1>0 DEF AlertsInv
<1>m. ASSUME NEW w, NEW p, NEW c, Moves(A, w, p, c)
      PROVE  reader'[A].at = w /\ reader'[A].position = p /\ reader'[A].committed = c
  BY <1>m DEF Moves
<1>1. CASE PublishAlert
  <2>1. PICK score \in Scores : created' = Append(created, score)
    BY <1>1 DEF PublishAlert
  <2>2. UNCHANGED <<opened, reader, alerts, cut, reread, unacked>>
    BY <1>1 DEF PublishAlert, tables
  <2>3. /\ Len(created') = Len(created) + 1 /\ DOMAIN created' = 1..(Len(created) + 1)
        /\ \A i \in DOMAIN created : created'[i] = created[i] /\ i \in DOMAIN created'
    BY <1>0, <2>1 DEF CaseShape
  <2>a. Once(A, alerts, created)'
    BY <1>n, <1>r, <1>i, <2>2, <2>3 DEF Once
  <2>b. InHand'
    BY <1>n, <1>r, <1>i, <2>2, <2>3 DEF InHand, IsLatest, Works
  <2>c. Announced'
    BY <1>n, <1>r, <1>i, <2>2, <2>3 DEF Announced, InHand
  <2>d. FollowedUp'
    BY <1>n, <1>r, <1>i, <2>2, <2>3 DEF FollowedUp, Passed, RowsFrom
  <2> QED BY <2>a, <2>b, <2>c, <2>d DEF AlertsInv
<1>2. CASE StartReader(A)
  <2>m. Moves(A, "idle", m, m)
    BY <1>0, <1>2, StartMoves
  <2>1. /\ reader'[A].at = "idle" /\ reader'[A].position = m /\ reader'[A].committed = m
    BY <1>m, <2>m
  <2>2. UNCHANGED <<created, opened, alerts, cut, reread, unacked>> /\ at = "off"
    BY <1>2 DEF StartReader, topics, tables
  <2>a. Once(A, alerts, created)'
    BY <1>n, <1>r, <1>i, <2>1, <2>2 DEF Once
  <2>b. InHand'
    BY <1>n, <1>r, <1>i, <2>1, <2>2 DEF InHand, IsLatest, Works
  <2>c. Announced'
    BY <1>n, <1>r, <1>i, <2>1, <2>2 DEF Announced, InHand
  <2>d. FollowedUp'
    BY <1>n, <1>r, <1>i, <2>1, <2>2 DEF FollowedUp, Passed, RowsFrom
  <2> QED BY <2>a, <2>b, <2>c, <2>d DEF AlertsInv
<1>3. CASE Read(A)
  <2> DEFINE w == IF Incomplete(A, n + 1) THEN "idle" ELSE "insert"
  <2>m. Moves(A, w, n + 1, m)
    BY <1>0, <1>3, ReadMoves
  <2>1. /\ reader'[A].at = w /\ reader'[A].position = n + 1 /\ reader'[A].committed = m
    BY <1>m, <2>m
  <2>2. UNCHANGED <<created, opened, alerts, cut, reread, unacked>> /\ at = "idle" /\ n < Len(created)
    BY <1>3 DEF Read, topics, tables, Topic
  <2>3. (w = "idle" /\ created[n + 1] # "high") \/ w = "insert"
    BY DEF Incomplete
  <2> HIDE DEF w
  <2>a. Once(A, alerts, created)'
    BY <1>n, <1>r, <1>i, <2>1, <2>2, <2>3 DEF Once
  <2>b. InHand'
    BY <1>n, <1>r, <1>i, <2>1, <2>2, <2>3 DEF InHand, IsLatest, Works
  <2>c. Announced'
    BY <1>n, <1>r, <1>i, <2>1, <2>2, <2>3 DEF Announced, InHand
  <2>d. FollowedUp'
    BY <1>n, <1>r, <1>i, <2>1, <2>2, <2>3 DEF FollowedUp, Passed, RowsFrom
  <2> QED BY <2>a, <2>b, <2>c, <2>d DEF AlertsInv
<1>4. CASE AutoCommit(A)
  <2>m. Moves(A, at, n, n)
    BY <1>0, <1>4, CommitMoves
  <2>1. /\ reader'[A].at = at /\ reader'[A].position = n /\ reader'[A].committed = n
    BY <1>m, <2>m
  <2>2. UNCHANGED <<created, opened, alerts, cut, reread, unacked>> /\ at # "off"
    BY <1>4 DEF AutoCommit, topics, tables
  <2>a. Once(A, alerts, created)'
    BY <1>n, <1>r, <1>i, <2>1, <2>2 DEF Once
  <2>b. InHand'
    BY <1>n, <1>r, <1>i, <2>1, <2>2 DEF InHand, IsLatest, Works
  <2>c. Announced'
    BY <1>n, <1>r, <1>i, <2>1, <2>2 DEF Announced, InHand
  <2>d. FollowedUp'
    BY <1>n, <1>r, <1>i, <2>1, <2>2 DEF FollowedUp, Passed, RowsFrom
  <2> QED BY <2>a, <2>b, <2>c, <2>d DEF AlertsInv
<1>5. CASE EndReader(A)
  <2>1. PICK c \in {m, n} :
          /\ Moves(A, "off", n, c)
          /\ reread' = [reread EXCEPT ![A] = @ \cup (c + 1..n)]
    BY <1>0, <1>5, EndMoves
  <2>2. UNCHANGED <<created, opened, alerts, unacked>> /\ at # "off"
        /\ cut' = [cut EXCEPT ![A] = IF at = "idle" THEN @ ELSE @ \cup {n}]
    BY <1>5 DEF EndReader, topics, tables
  <2>3. /\ reader'[A].at = "off" /\ reader'[A].position = n /\ reader'[A].committed = c
        /\ reread'[A] = reread[A] \cup (c + 1..n)
        /\ cut'[A] = IF at = "idle" THEN cut[A] ELSE cut[A] \cup {n}
    BY <1>0, <1>m, <2>1, <2>2 DEF CaseShape
  <2>4. UNCHANGED <<created, opened, alerts, unacked>> /\ at # "off" /\ c \in {m, n}
    BY <2>1, <2>2
  <2>a. Once(A, alerts, created)'
    BY <1>n, <1>r, <1>i, <2>3, <2>4 DEF Once
  <2>b. InHand'
    BY <1>n, <1>r, <1>i, <2>3, <2>4 DEF InHand, IsLatest, Works
  <2>c. Announced'
    BY <1>n, <1>r, <1>i, <2>3, <2>4 DEF Announced, InHand
  <2>d. FollowedUp'
    BY <1>n, <1>r, <1>i, <2>3, <2>4 DEF FollowedUp, Passed, RowsFrom
  <2> QED BY <2>a, <2>b, <2>c, <2>d DEF AlertsInv
<1>6. CASE InsertAlert
  <2> DEFINE w == IF created[n] = "high" THEN "escalate" ELSE "idle"
             l == Len(alerts) + 1
  <2>m. Moves(A, w, n, m) /\ at = "insert"
    BY <1>0, <1>6, GotoMoves DEF InsertAlert, Works
  <2>1. /\ reader'[A].at = w /\ reader'[A].position = n /\ reader'[A].committed = m
        /\ at = "insert"
    BY <1>m, <2>m
  <2>2. UNCHANGED <<created, opened, cut, reread, unacked>>
    BY <1>6 DEF InsertAlert, topics
  <2>3. /\ \A i \in DOMAIN alerts' : i \in DOMAIN alerts \/ i = l
        /\ \A i \in DOMAIN alerts :
             i # l /\ i < l /\ i \in DOMAIN alerts' /\ i \in Nat /\ alerts'[i] = alerts[i]
        /\ l \in DOMAIN alerts' /\ l \in Nat
        /\ alerts'[l].from = n /\ n # 0 /\ n \in DOMAIN created
    BY <1>0, <1>6, <1>n, <2>1 DEF InsertAlert, CaseShape, AlertRow, AlertsInv, InHand, Works
  <2>4. w \in {"escalate", "idle"} /\ (w = "idle" => created[n] # "high")
    OBVIOUS
  <2> HIDE DEF w, l
  <2>a. Once(A, alerts, created)'
    BY <1>n, <1>r, <1>i, <2>1, <2>2, <2>3, <2>4 DEF Once
  <2>b. InHand'
    BY <1>n, <1>r, <1>i, <2>1, <2>2, <2>3, <2>4 DEF InHand, Announced, IsLatest, Works
  <2>c. Announced'
    BY <1>n, <1>r, <1>i, <2>1, <2>2, <2>3, <2>4 DEF Announced, InHand
  <2>d. FollowedUp'
    BY <1>n, <1>r, <1>i, <2>1, <2>2, <2>3, <2>4 DEF FollowedUp, Passed, RowsFrom
  <2> QED BY <2>a, <2>b, <2>c, <2>d DEF AlertsInv
<1>7. CASE Escalate
  <2>m. Moves(A, "publish", n, m) /\ at = "escalate"
    BY <1>0, <1>7, GotoMoves DEF Escalate, Works
  <2>1. /\ reader'[A].at = "publish" /\ reader'[A].position = n /\ reader'[A].committed = m
        /\ at = "escalate"
    BY <1>m, <2>m
  <2>2. UNCHANGED <<created, opened, cut, reread, unacked>>
    BY <1>7 DEF Escalate, topics
  <2> DEFINE l == Latest
  <2>3. /\ l \in DOMAIN alerts /\ IsLatest(l) /\ alerts[l].from = n
        /\ \A e \in DOMAIN opened : opened[e] < l
    BY <1>0, <2>1, HasLatest
  <2>4. /\ alerts' \in Seq(AlertRow) /\ Len(alerts') = Len(alerts) /\ alerts \in Seq(AlertRow)
        /\ alerts'[l] = [status |-> "ESCALATED", from |-> n]
        /\ \A d \in DOMAIN alerts \ {l} : alerts'[d] = alerts[d]
    BY <1>0, <1>7, <2>3, EscalateRow DEF CaseShape
  <2> HIDE DEF l
  <2>5. /\ DOMAIN alerts' = DOMAIN alerts /\ alerts'[l].status = "ESCALATED"
        /\ \A a \in DOMAIN alerts :
             /\ alerts'[a].from = alerts[a].from
             /\ a # l => alerts'[a].status = alerts[a].status
    BY <2>3, <2>4
  <2>a. Once(A, alerts, created)'
    BY <1>n, <1>r, <1>i, <2>1, <2>2, <2>3, <2>5 DEF Once
  <2>b. InHand'
    BY <1>n, <1>r, <1>i, <2>1, <2>2, <2>3, <2>5 DEF InHand, IsLatest, Works
  <2>c. Announced'
    BY <1>n, <1>r, <1>i, <2>1, <2>2, <2>3, <2>5 DEF Announced
  <2>d. FollowedUp'
    BY <1>n, <1>r, <1>i, <2>1, <2>2, <2>3, <2>5 DEF FollowedUp, Passed, RowsFrom
  <2> QED BY <2>a, <2>b, <2>c, <2>d DEF AlertsInv
<1>8. CASE PublishCase
  <2>m. Moves(A, "idle", n, m) /\ at = "publish"
    BY <1>0, <1>8, GotoMoves DEF PublishCase, Works
  <2>1. /\ reader'[A].at = "idle" /\ reader'[A].position = n /\ reader'[A].committed = m
        /\ at = "publish"
    BY <1>m, <2>m
  <2>2. UNCHANGED <<created, alerts, cut, reread, unacked>>
    BY <1>8 DEF PublishCase, tables
  <2> DEFINE l == Latest
             k == Len(opened) + 1
  <2>3. /\ l \in DOMAIN alerts /\ IsLatest(l) /\ alerts[l].from = n
        /\ \A e \in DOMAIN opened : opened[e] < l \/ (opened[e] = l /\ l \in unacked)
        /\ alerts[l].status = "ESCALATED"
    BY <1>0, <2>1, HasLatest
  <2>4. /\ \A e \in DOMAIN opened' : e \in DOMAIN opened \/ e = k
        /\ \A e \in DOMAIN opened :
             e # k /\ e \in DOMAIN opened' /\ opened'[e] = opened[e] /\ opened[e] \in Nat
        /\ k \in DOMAIN opened' /\ opened'[k] = l
    BY <1>0, <1>8, <2>3 DEF PublishCase, CaseShape
  <2> HIDE DEF l, k
  <2>a. Once(A, alerts, created)'
    BY <1>n, <1>r, <1>i, <2>1, <2>2, <2>3, <2>4 DEF Once
  <2>b. InHand'
    BY <1>n, <1>r, <1>i, <2>1, <2>2, <2>3, <2>4 DEF InHand, IsLatest, Works
  <2>c. Announced'
    BY <1>n, <1>r, <1>i, <2>1, <2>2, <2>3, <2>4 DEF Announced, InHand, IsLatest
  <2>d. FollowedUp'
    BY <1>n, <1>r, <1>i, <2>1, <2>2, <2>3, <2>4 DEF FollowedUp, Passed, RowsFrom
  <2> QED BY <2>a, <2>b, <2>c, <2>d DEF AlertsInv
<1>9. CASE InsertCase
  <2>1. AlertsSame
    BY <1>0, <1>9 DEF InsertCase, AlertsSame, Goto, CaseShape, topics
  <2> QED BY <1>0, <2>1, AlertsKept
<1>10. CASE CreateAlert
  <2>2. UNCHANGED <<created, opened, reader, cut, reread, unacked>>
    BY <1>10 DEF CreateAlert, topics
  <2> DEFINE l == Len(alerts) + 1
  <2>3. /\ \A i \in DOMAIN alerts' : i \in DOMAIN alerts \/ i = l
        /\ \A i \in DOMAIN alerts :
             i # l /\ i < l /\ i \in DOMAIN alerts' /\ i \in Nat /\ alerts'[i] = alerts[i]
        /\ l \in DOMAIN alerts' /\ l \in Nat
        /\ alerts'[l].from = 0
    BY <1>0, <1>10 DEF CreateAlert, CaseShape, AlertRow
  <2> HIDE DEF l
  <2>a. Once(A, alerts, created)'
    <3>1. at = "insert" => n # 0
      BY <1>n, <1>i DEF InHand, Works
    <3>2. Once(A, alerts, created) /\ 0 <= n
      BY <1>n, <1>i
    <3>3. ASSUME NEW i \in DOMAIN alerts'
          PROVE  /\ alerts'[i].from > n => alerts'[i].from \in reread[A]
                 /\ at = "insert" /\ alerts'[i].from = n => n \in reread[A]
      BY <1>n, <2>3, <3>1, <3>2 DEF Once
    <3>4. ASSUME NEW i \in DOMAIN alerts', NEW j \in DOMAIN alerts',
                 alerts'[i].from = alerts'[j].from /\ alerts'[i].from # 0 /\ i # j
          PROVE  alerts'[i].from \in reread[A]
      BY <2>3, <3>2, <3>4 DEF Once
    <3> QED BY <2>2, <3>2, <3>3, <3>4 DEF Once
  <2>b. InHand'
    BY <1>n, <1>r, <1>i, <2>2, <2>3 DEF InHand, IsLatest, Works
  <2>c. Announced'
    BY <1>n, <1>r, <1>i, <2>2, <2>3 DEF Announced, InHand
  <2>d. FollowedUp'
    <3>1. Passed("alerts")' = Passed("alerts")
      BY <2>2 DEF Passed
    <3>2. \A o : RowsFrom(alerts, o) \subseteq RowsFrom(alerts', o)
      BY <2>3 DEF RowsFrom
    <3>3. FollowedUp
      BY <1>i
    <3> SUFFICES ASSUME NEW o \in Passed("alerts") \ cut["alerts"], created[o] = "high"
                 PROVE  \E a \in RowsFrom(alerts', o), e \in DOMAIN opened : opened[e] = a
      BY <2>2, <3>1 DEF FollowedUp, RowsFrom
    <3> QED BY <3>2, <3>3 DEF FollowedUp
  <2> QED BY <2>a, <2>b, <2>c, <2>d DEF AlertsInv
<1>11. ASSUME StartReader("cases") \/ Read("cases") \/ AutoCommit("cases") \/ EndReader("cases")
       PROVE AlertsInv'
  <2>1. AlertsSame
    BY <1>0, <1>11 DEF StartReader, Read, AutoCommit, EndReader, AlertsSame, CaseShape, topics, tables
  <2> QED BY <1>0, <2>1, AlertsKept
<1>12. CASE UNCHANGED <<created, opened, reader, alerts, cut, reread, unacked>>
  BY <1>0, <1>12, AlertsKept DEF AlertsSame
<1>13. ASSUME NEW p \in Patches, BeginPatch(p) \/ CommitPatch(p) \/ PatchRaises(p)
       PROVE UNCHANGED <<created, opened, reader, alerts, cut, reread, unacked>>
  BY <1>13 DEF BeginPatch, CommitPatch, PatchRaises, topics, tables
<1>14. ASSUME CreateCase \/ AddNote \/ UNCHANGED caseVars
       PROVE UNCHANGED <<created, opened, reader, alerts, cut, reread, unacked>>
  BY <1>14 DEF CreateCase, AddNote, caseVars, topics, tables
<1>15. CASE StoreUnacked
  <2>1. at = "publish" /\ reader' = reader
    BY <1>15 DEF StoreUnacked
  <2> DEFINE l == Latest
             k == Len(opened) + 1
  <2>2. UNCHANGED <<created, alerts, cut, reread>> /\ unacked' = unacked \cup {l}
    BY <1>15 DEF StoreUnacked, tables
  <2>3. /\ l \in DOMAIN alerts /\ IsLatest(l) /\ alerts[l].from = n
        /\ \A e \in DOMAIN opened : opened[e] < l \/ (opened[e] = l /\ l \in unacked)
        /\ alerts[l].status = "ESCALATED"
    BY <1>0, <2>1, HasLatest
  <2>4. /\ \A e \in DOMAIN opened' : e \in DOMAIN opened \/ e = k
        /\ \A e \in DOMAIN opened :
             e # k /\ e \in DOMAIN opened' /\ opened'[e] = opened[e] /\ opened[e] \in Nat
        /\ k \in DOMAIN opened' /\ opened'[k] = l
    BY <1>0, <1>15, <2>3 DEF StoreUnacked, CaseShape
  <2> HIDE DEF l, k
  <2>a. Once(A, alerts, created)'
    BY <1>n, <1>r, <1>i, <2>1, <2>2, <2>3, <2>4 DEF Once
  <2>b. InHand'
    BY <1>n, <1>r, <1>i, <2>1, <2>2, <2>3, <2>4 DEF InHand, IsLatest, Works
  <2>c. Announced'
    BY <1>n, <1>r, <1>i, <2>1, <2>2, <2>3, <2>4 DEF Announced, InHand, IsLatest
  <2>d. FollowedUp'
    BY <1>n, <1>r, <1>i, <2>1, <2>2, <2>3, <2>4 DEF FollowedUp, Passed, RowsFrom
  <2> QED BY <2>a, <2>b, <2>c, <2>d DEF AlertsInv
<1> QED
  BY <1>1, <1>2, <1>3, <1>4, <1>5, <1>6, <1>7, <1>8, <1>9, <1>10, <1>11, <1>12, <1>13,
     <1>14, <1>15 DEF CaseNext, PipelineNext, DeskNext, Readers

\* Every step keeps the cases explained.
LEMMA CasesPreserved ==
  ASSUME CaseAssumption, CaseInv, CaseShape', [CaseNext]_caseVars
  PROVE  CasesInv'
<1> USE DEF ByHand
<1>0. CaseShape /\ CaseTypeOK /\ CasesInv /\ "alerts" \in Readers /\ "cases" \in Readers
  BY DEF CaseInv, Readers
<1> DEFINE C == "cases"
           at == reader[C].at
           n == reader[C].position
           m == reader[C].committed
           Stored == \A e \in Passed(C) \ cut[C] : RowsFrom(cases, e) # {}
<1>n. /\ n \in Nat /\ m \in Nat /\ m <= n /\ Len(opened) \in Nat /\ n <= Len(opened)
      /\ DOMAIN opened = 1..Len(opened)
  BY <1>0 DEF CaseShape, CaseTypeOK, Place, CasesInv, Once
<1>r. /\ DOMAIN cases = 1..Len(cases) /\ Len(cases) \in Nat
      /\ \A i \in DOMAIN cases : cases[i].from \in Nat
  <2>1. \A i \in DOMAIN cases : cases[i] \in CaseRow
    BY <1>0 DEF CaseShape
  <2> QED BY <1>0, <2>1 DEF CaseShape, CaseRow
<1>i. /\ Once(C, cases, opened) /\ Stored /\ at \in {"off", "idle", "insert"}
      /\ at = "insert" => n \in DOMAIN opened
  BY <1>0 DEF CasesInv
<1>m. ASSUME NEW w, NEW p, NEW c, Moves(C, w, p, c)
      PROVE  reader'[C].at = w /\ reader'[C].position = p /\ reader'[C].committed = c
  BY <1>m DEF Moves
<1>1. CASE PublishCase \/ StoreUnacked
  <2>1. UNCHANGED <<cases, cut, reread>> /\ reader'[C] = reader[C]
    BY <1>0, <1>1 DEF PublishCase, StoreUnacked, tables, Goto, CaseShape
  <2>2. Latest \in 1..Len(alerts)
    BY <1>0, <1>1, HasLatest DEF CaseInv, PublishCase, StoreUnacked, CaseShape
  <2>3. Len(opened') = Len(opened) + 1 /\ DOMAIN opened' = 1..(Len(opened) + 1)
    BY <1>0, <1>1, <2>2 DEF PublishCase, StoreUnacked, CaseShape
  <2>4. Once(C, cases, opened)'
    BY <1>n, <1>i, <2>1, <2>3 DEF Once
  <2>5. Stored'
    BY <1>n, <1>i, <2>1 DEF Passed, RowsFrom
  <2> QED BY <1>n, <1>i, <2>1, <2>3, <2>4, <2>5 DEF CasesInv
<1>2. CASE StartReader(C)
  <2>1. Moves(C, "idle", m, m)
    BY <1>0, <1>2, StartMoves
  <2>2. UNCHANGED <<opened, cases, cut, reread>> /\ at = "off"
    BY <1>2 DEF StartReader, topics, tables
  <2>3. reader'[C].at = "idle" /\ reader'[C].position = m /\ reader'[C].committed = m
    BY <1>m, <2>1
  <2>4. Once(C, cases, opened)'
    BY <1>n, <1>r, <1>i, <2>2, <2>3 DEF Once
  <2>5. Stored'
    BY <1>n, <1>i, <2>2, <2>3 DEF Passed, RowsFrom
  <2> QED BY <2>3, <2>4, <2>5 DEF CasesInv
<1>3. CASE Read(C)
  <2>1. Moves(C, "insert", n + 1, m)
    BY <1>0, <1>3, ReadMoves DEF Incomplete
  <2>2. UNCHANGED <<opened, cases, cut, reread>> /\ at = "idle" /\ n < Len(opened)
    BY <1>3 DEF Read, topics, tables, Topic
  <2>3. reader'[C].at = "insert" /\ reader'[C].position = n + 1 /\ reader'[C].committed = m
    BY <1>m, <2>1
  <2>4. Once(C, cases, opened)'
    BY <1>n, <1>r, <1>i, <2>2, <2>3 DEF Once
  <2>5. Stored'
    BY <1>n, <1>i, <2>2, <2>3 DEF Passed, RowsFrom
  <2> QED BY <1>n, <2>2, <2>3, <2>4, <2>5 DEF CasesInv
<1>4. CASE AutoCommit(C)
  <2>1. Moves(C, at, n, n)
    BY <1>0, <1>4, CommitMoves
  <2>2. UNCHANGED <<opened, cases, cut, reread>> /\ at # "off"
    BY <1>4 DEF AutoCommit, topics, tables
  <2>3. reader'[C].at = at /\ reader'[C].position = n /\ reader'[C].committed = n
    BY <1>m, <2>1
  <2>4. Once(C, cases, opened)'
    BY <1>n, <1>r, <1>i, <2>2, <2>3 DEF Once
  <2>5. Stored'
    BY <1>n, <1>i, <2>2, <2>3 DEF Passed, RowsFrom
  <2> QED BY <1>n, <1>i, <2>2, <2>3, <2>4, <2>5 DEF CasesInv
<1>5. CASE EndReader(C)
  <2>1. PICK c \in {m, n} :
          /\ Moves(C, "off", n, c)
          /\ reread' = [reread EXCEPT ![C] = @ \cup (c + 1..n)]
    BY <1>0, <1>5, EndMoves
  <2>2. UNCHANGED <<opened, cases>> /\ at # "off"
        /\ cut' = [cut EXCEPT ![C] = IF at = "idle" THEN @ ELSE @ \cup {n}]
    BY <1>5 DEF EndReader, topics, tables
  <2>3. /\ reader'[C].at = "off" /\ reader'[C].position = n /\ reader'[C].committed = c
        /\ reread'[C] = reread[C] \cup (c + 1..n)
        /\ cut'[C] = IF at = "idle" THEN cut[C] ELSE cut[C] \cup {n}
    BY <1>0, <1>m, <2>1, <2>2 DEF CaseShape
  <2>4. Once(C, cases, opened)'
    BY <1>n, <1>r, <1>i, <2>2, <2>3 DEF Once
  <2>5. Stored'
    BY <1>n, <1>i, <2>2, <2>3 DEF Passed, RowsFrom
  <2> QED BY <2>3, <2>4, <2>5 DEF CasesInv
<1>6. CASE InsertCase
  <2> DEFINE l == Len(cases) + 1
  <2>1. Moves(C, "idle", n, m) /\ at = "insert"
    BY <1>0, <1>6, GotoMoves DEF InsertCase
  <2>2. UNCHANGED <<opened, cut, reread>>
    BY <1>6 DEF InsertCase, topics
  <2>3. reader'[C].at = "idle" /\ reader'[C].position = n /\ reader'[C].committed = m
    BY <1>m, <2>1
  <2>4. /\ \A i \in DOMAIN cases' : i \in DOMAIN cases \/ i = l
        /\ \A i \in DOMAIN cases :
             i # l /\ i \in DOMAIN cases' /\ i \in Nat /\ cases'[i] = cases[i]
        /\ l \in DOMAIN cases' /\ l \in Nat
        /\ cases'[l].from = n /\ n # 0
    <3> DEFINE row == [status |-> "OPEN", assigned |-> Nobody, from |-> n]
    <3>1. row \in CaseRow /\ row.from = n /\ n # 0
      BY <1>0, <1>n, <1>i, <2>1 DEF CaseShape, CaseRow, CaseAssumption
    <3>2. cases' = Append(cases, row) /\ cases \in Seq(CaseRow)
      BY <1>0, <1>6 DEF InsertCase, CaseShape
    <3> HIDE DEF row
    <3> QED BY <3>1, <3>2
  <2> HIDE DEF l
  <2>5. Once(C, cases, opened)'
    BY <1>n, <1>r, <1>i, <2>1, <2>2, <2>3, <2>4 DEF Once
  <2>6. Stored'
    BY <1>n, <1>i, <2>1, <2>2, <2>3, <2>4 DEF Passed, RowsFrom
  <2> QED BY <2>3, <2>5, <2>6 DEF CasesInv
<1>7. CASE CreateCase
  <2> DEFINE l == Len(cases) + 1
  <2>1. UNCHANGED <<opened, reader, cut, reread>>
    BY <1>7 DEF CreateCase, topics
  <2>2. PICK given \in Held : cases' = Append(cases, [status |-> given.status, assigned |-> given.assigned, from |-> 0])
    BY <1>7 DEF CreateCase
  <2>4. /\ \A i \in DOMAIN cases' : i \in DOMAIN cases \/ i = l
        /\ \A i \in DOMAIN cases :
             i # l /\ i \in DOMAIN cases' /\ i \in Nat /\ cases'[i] = cases[i]
        /\ l \in DOMAIN cases' /\ l \in Nat
        /\ cases'[l].from = 0
    <3> DEFINE row == [status |-> given.status, assigned |-> given.assigned, from |-> 0]
    <3>1. cases \in Seq(CaseRow) /\ row \in CaseRow /\ row.from = 0
      BY <1>0 DEF CaseShape, CaseRow, Held
    <3>2. cases' = Append(cases, row)
      BY <2>2
    <3> HIDE DEF row
    <3> QED BY <3>1, <3>2
  <2> HIDE DEF l
  <2>5. Once(C, cases, opened)'
    BY <1>n, <1>r, <1>i, <2>1, <2>4 DEF Once
  <2>6. Stored'
    BY <1>n, <1>i, <2>1, <2>4 DEF Passed, RowsFrom
  <2> QED BY <1>i, <2>1, <2>5, <2>6 DEF CasesInv
<1>8. ASSUME NEW p \in Patches, CommitPatch(p) PROVE CasesInv'
  <2>1. PICK s, a : Patched(patch[p].case, s, a)
    BY <1>0, <1>8, PatchRow DEF CaseInv, DeskInv, CommitPatch
  <2>2. /\ cases' \in Seq(CaseRow) /\ cases \in Seq(CaseRow) /\ Len(cases') = Len(cases)
        /\ cases'[patch[p].case].from = cases[patch[p].case].from
        /\ \A d \in DOMAIN cases \ {patch[p].case} : cases'[d] = cases[d]
    BY <1>0, <2>1 DEF CaseShape, Patched
  <2>3. DOMAIN cases' = DOMAIN cases
    BY <2>2
  <2>4. \A i \in DOMAIN cases : cases'[i].from = cases[i].from
    BY <2>2
  <2>5. UNCHANGED <<opened, reader, cut, reread>>
    BY <1>8 DEF CommitPatch, topics
  <2>6. Once(C, cases, opened)'
    BY <1>n, <1>r, <1>i, <2>3, <2>4, <2>5 DEF Once
  <2>7. Stored'
    BY <1>n, <1>i, <2>3, <2>4, <2>5 DEF Passed, RowsFrom
  <2> QED BY <1>i, <2>5, <2>6, <2>7 DEF CasesInv
<1>9. ASSUME \/ StartReader("alerts") \/ Read("alerts") \/ AutoCommit("alerts") \/ EndReader("alerts")
             \/ PublishAlert \/ InsertAlert \/ Escalate
       PROVE CasesInv'
  <2>1. CasesSame
    BY <1>0, <1>9 DEF StartReader, Read, AutoCommit, EndReader, PublishAlert, InsertAlert, Escalate,
       Goto, CasesSame, CaseShape, topics, tables
  <2> QED BY <1>0, <2>1, CasesKept
<1>10. CASE UNCHANGED <<opened, reader, cases, cut, reread>>
  BY <1>0, <1>10, CasesKept DEF CasesSame
<1>11. ASSUME NEW p \in Patches, BeginPatch(p) \/ PatchRaises(p)
       PROVE UNCHANGED <<opened, reader, cases, cut, reread>>
  BY <1>11 DEF BeginPatch, PatchRaises, topics, tables
<1>12. ASSUME CreateAlert \/ AddNote \/ UNCHANGED caseVars
       PROVE UNCHANGED <<opened, reader, cases, cut, reread>>
  BY <1>12 DEF CreateAlert, AddNote, caseVars, topics, tables
<1> QED
  BY <1>1, <1>2, <1>3, <1>4, <1>5, <1>6, <1>7, <1>8, <1>9, <1>10, <1>11, <1>12
     DEF CaseNext, PipelineNext, DeskNext, Readers

\* The invariant is inductive.
LEMMA CasePreserved ==
  CaseAssumption /\ CaseInv /\ [CaseNext]_caseVars => CaseInv'
BY CaseShapePreserved, DeskPreserved, AlertsPreserved, CasesPreserved DEF CaseInv

\* Rows that are not counted twice are told apart by where they come from.
LEMMA RowsCounted ==
  ASSUME NEW S, NEW rows \in Seq(S), NEW o,
         Cardinality(RowsFrom(rows, o)) > 1
  PROVE  \E i, j \in DOMAIN rows : i # j /\ rows[i].from = o /\ rows[j].from = o
<1>1. SUFFICES ASSUME \A i, j \in RowsFrom(rows, o) : i = j PROVE FALSE
  BY DEF RowsFrom
<1>2. CASE RowsFrom(rows, o) = {}
  BY <1>2, FS_EmptySet
<1>3. CASE RowsFrom(rows, o) # {}
  <2>1. PICK i : RowsFrom(rows, o) = {i}
    BY <1>1, <1>3
  <2>2. Cardinality({i}) = 1
    BY FS_Singleton
  <2> QED BY <2>1, <2>2
<1> QED BY <1>2, <1>3

\* The rows of a record are as many as the times it was handed out.
LEMMA CaseSafe == CaseInv => OneCasePerAlert
<1> SUFFICES ASSUME CaseInv PROVE OneCasePerAlert
  OBVIOUS
<1>1. ASSUME NEW o \in DOMAIN created, Cardinality(RowsFrom(alerts, o)) > 1
      PROVE  o \in reread["alerts"]
  <2>1. alerts \in Seq(AlertRow) /\ o # 0
    BY DEF CaseInv, CaseShape
  <2>2. PICK i, j \in DOMAIN alerts : i # j /\ alerts[i].from = o /\ alerts[j].from = o
    BY <1>1, <2>1, RowsCounted
  <2> QED BY <2>1, <2>2 DEF CaseInv, AlertsInv, Once, ByHand
<1>2. ASSUME NEW e \in DOMAIN opened, Cardinality(RowsFrom(cases, e)) > 1
      PROVE  e \in reread["cases"]
  <2>1. cases \in Seq(CaseRow) /\ e # 0
    BY DEF CaseInv, CaseShape
  <2>2. PICK i, j \in DOMAIN cases : i # j /\ cases[i].from = e /\ cases[j].from = e
    BY <1>2, <2>1, RowsCounted
  <2> QED BY <2>1, <2>2 DEF CaseInv, CasesInv, Once, ByHand
<1> QED
  BY <1>1, <1>2 DEF CaseInv, AlertsInv, Announced, FollowedUp, CasesInv, OneCasePerAlert
-----------------------------------------------------------------------------
(* ServiceLifecycle *)
CloseFirst == {"alerts", "cases", "rules", "graph"}
Begins == {"spawn", "loop"}

WellWritten(name, s) ==
  /\ Len(s.start) \in Nat \ {0} /\ DOMAIN s.start = 1..Len(s.start)
  /\ \A i \in 1..Len(s.start) : IF i = Len(s.start) THEN s.start[i] \in Begins ELSE s.start[i] \in Resources
  /\ s.uses \subseteq s.own \cup {s.start[i] : i \in 1..Len(s.start)}
  /\ s.uses \subseteq Resources /\ s.own \subseteq Resources
  /\ Len(s.stop) \in Nat \ {0} /\ DOMAIN s.stop = 1..Len(s.stop)
  /\ name \notin CloseFirst => s.stop[1] = "cancel"
  /\ s.fragile \in BOOLEAN
  /\ s.start[Len(s.start)] = "loop" => s.own = {}
  /\ s.own \cap {s.start[i] : i \in 1..Len(s.start)} = {}
  /\ "spawn" = s.start[Len(s.start)] => s.fragile \/ name \in {"gateway", "rules"}

\* The start and the stop of the alert service.
LEMMA Walerts == WellWritten("alerts", AlertService)
<1> DEFINE s == AlertService
<1>1. s.start = <<"database", "producer", "spawn">> /\ Len(s.start) = 3 /\ DOMAIN s.start = 1..3
  BY DEF AlertService
<1>2. s.start[1] = "database" /\ s.start[2] = "producer" /\ s.start[3] = "spawn"
  BY <1>1
<1>3. Len(s.stop) = 2 /\ DOMAIN s.stop = 1..2 /\ s.stop[1] = "producer"
  BY DEF AlertService
<1>4. s.own = {"consumer"} /\ s.uses = {"database", "producer"} /\ s.fragile \in BOOLEAN
  BY DEF AlertService
<1>5. s.fragile \/ s.start[Len(s.start)] = "loop" \/ "alerts" \in {"gateway", "rules"}
  BY DEF AlertService
<1> HIDE DEF s
<1>6. WellWritten("alerts", s)
  BY <1>1, <1>2, <1>3, <1>4, <1>5 DEF WellWritten, CloseFirst, Resources, Begins
<1> QED BY <1>6 DEF s

\* The start and the stop of the case service.
LEMMA Wcases == WellWritten("cases", CaseService)
<1> DEFINE s == CaseService
<1>1. s.start = <<"database", "spawn">> /\ Len(s.start) = 2 /\ DOMAIN s.start = 1..2
  BY DEF CaseService
<1>2. s.start[1] = "database" /\ s.start[2] = "spawn"
  BY <1>1
<1>3. Len(s.stop) = 1 /\ DOMAIN s.stop = 1..1 /\ s.stop[1] = "database"
  BY DEF CaseService
<1>4. s.own = {"consumer"} /\ s.uses = {"database"} /\ s.fragile \in BOOLEAN
  BY DEF CaseService
<1>5. s.fragile \/ s.start[Len(s.start)] = "loop" \/ "cases" \in {"gateway", "rules"}
  BY DEF CaseService
<1> HIDE DEF s
<1>6. WellWritten("cases", s)
  BY <1>1, <1>2, <1>3, <1>4, <1>5 DEF WellWritten, CloseFirst, Resources, Begins
<1> QED BY <1>6 DEF s

\* The start and the stop of the notification service.
LEMMA Wnotifications == WellWritten("notifications", NotificationService)
<1> DEFINE s == NotificationService
<1>1. s.start = <<"database", "producer", "consumer", "loop">> /\ Len(s.start) = 4 /\ DOMAIN s.start = 1..4
  BY DEF NotificationService
<1>2. s.start[1] = "database" /\ s.start[2] = "producer" /\ s.start[3] = "consumer" /\ s.start[4] = "loop"
  BY <1>1
<1>3. Len(s.stop) = 3 /\ DOMAIN s.stop = 1..3 /\ s.stop[1] = "cancel"
  BY DEF NotificationService
<1>4. s.own = {} /\ s.uses = {"consumer", "database"} /\ s.fragile \in BOOLEAN
  BY DEF NotificationService
<1>5. s.fragile \/ s.start[Len(s.start)] = "loop" \/ "notifications" \in {"gateway", "rules"}
  BY DEF NotificationService
<1> HIDE DEF s
<1>6. WellWritten("notifications", s)
  BY <1>1, <1>2, <1>3, <1>4, <1>5 DEF WellWritten, CloseFirst, Resources, Begins
<1> QED BY <1>6 DEF s

\* The start and the stop of the stream processor.
LEMMA Wstream == WellWritten("stream", StreamService)
<1> DEFINE s == StreamService
<1>1. s.start = <<"producer", "consumer", "loop">> /\ Len(s.start) = 3 /\ DOMAIN s.start = 1..3
  BY DEF StreamService
<1>2. s.start[1] = "producer" /\ s.start[2] = "consumer" /\ s.start[3] = "loop"
  BY <1>1
<1>3. Len(s.stop) = 3 /\ DOMAIN s.stop = 1..3 /\ s.stop[1] = "cancel"
  BY DEF StreamService
<1>4. s.own = {} /\ s.uses = {"consumer", "producer"} /\ s.fragile \in BOOLEAN
  BY DEF StreamService
<1>5. s.fragile \/ s.start[Len(s.start)] = "loop" \/ "stream" \in {"gateway", "rules"}
  BY DEF StreamService
<1> HIDE DEF s
<1>6. WellWritten("stream", s)
  BY <1>1, <1>2, <1>3, <1>4, <1>5 DEF WellWritten, CloseFirst, Resources, Begins
<1> QED BY <1>6 DEF s

\* The start and the stop of the profile service.
LEMMA Wprofile == WellWritten("profile", ProfileService)
<1> DEFINE s == ProfileService
<1>1. s.start = <<"database", "consumer", "loop">> /\ Len(s.start) = 3 /\ DOMAIN s.start = 1..3
  BY DEF ProfileService
<1>2. s.start[1] = "database" /\ s.start[2] = "consumer" /\ s.start[3] = "loop"
  BY <1>1
<1>3. Len(s.stop) = 2 /\ DOMAIN s.stop = 1..2 /\ s.stop[1] = "cancel"
  BY DEF ProfileService
<1>4. s.own = {} /\ s.uses = {"consumer"} /\ s.fragile \in BOOLEAN
  BY DEF ProfileService
<1>5. s.fragile \/ s.start[Len(s.start)] = "loop" \/ "profile" \in {"gateway", "rules"}
  BY DEF ProfileService
<1> HIDE DEF s
<1>6. WellWritten("profile", s)
  BY <1>1, <1>2, <1>3, <1>4, <1>5 DEF WellWritten, CloseFirst, Resources, Begins
<1> QED BY <1>6 DEF s

\* The start and the stop of the gateway.
LEMMA Wgateway == WellWritten("gateway", GatewayService)
<1> DEFINE s == GatewayService
<1>1. s.start = <<"spawn">> /\ Len(s.start) = 1 /\ DOMAIN s.start = 1..1
  BY DEF GatewayService
<1>2. s.start[1] = "spawn"
  BY <1>1
<1>3. Len(s.stop) = 1 /\ DOMAIN s.stop = 1..1 /\ s.stop[1] = "cancel"
  BY DEF GatewayService
<1>4. s.own = {"consumer"} /\ s.uses = {"consumer"} /\ s.fragile \in BOOLEAN
  BY DEF GatewayService
<1>5. s.fragile \/ s.start[Len(s.start)] = "loop" \/ "gateway" \in {"gateway", "rules"}
  BY DEF GatewayService
<1> HIDE DEF s
<1>6. WellWritten("gateway", s)
  BY <1>1, <1>2, <1>3, <1>4, <1>5 DEF WellWritten, CloseFirst, Resources, Begins
<1> QED BY <1>6 DEF s

\* The start and the stop of the rule engine.
LEMMA Wrules == WellWritten("rules", RuleService)
<1> DEFINE s == RuleService
<1>1. s.start = <<"database", "redis", "spawn">> /\ Len(s.start) = 3 /\ DOMAIN s.start = 1..3
  BY DEF RuleService
<1>2. s.start[1] = "database" /\ s.start[2] = "redis" /\ s.start[3] = "spawn"
  BY <1>1
<1>3. Len(s.stop) = 3 /\ DOMAIN s.stop = 1..3 /\ s.stop[1] = "database"
  BY DEF RuleService
<1>4. s.own = {"server"} /\ s.uses = {"database", "redis"} /\ s.fragile \in BOOLEAN
  BY DEF RuleService
<1>5. s.fragile \/ s.start[Len(s.start)] = "loop" \/ "rules" \in {"gateway", "rules"}
  BY DEF RuleService
<1> HIDE DEF s
<1>6. WellWritten("rules", s)
  BY <1>1, <1>2, <1>3, <1>4, <1>5 DEF WellWritten, CloseFirst, Resources, Begins
<1> QED BY <1>6 DEF s

\* The start and the stop of the graph engine.
LEMMA Wgraph == WellWritten("graph", GraphService)
<1> DEFINE s == GraphService
<1>1. s.start = <<"neo4j", "server", "loop">> /\ Len(s.start) = 3 /\ DOMAIN s.start = 1..3
  BY DEF GraphService
<1>2. s.start[1] = "neo4j" /\ s.start[2] = "server" /\ s.start[3] = "loop"
  BY <1>1
<1>3. Len(s.stop) = 2 /\ DOMAIN s.stop = 1..2 /\ s.stop[1] = "neo4j"
  BY DEF GraphService
<1>4. s.own = {} /\ s.uses = {"neo4j"} /\ s.fragile \in BOOLEAN
  BY DEF GraphService
<1>5. s.fragile \/ s.start[Len(s.start)] = "loop" \/ "graph" \in {"gateway", "rules"}
  BY DEF GraphService
<1> HIDE DEF s
<1>6. WellWritten("graph", s)
  BY <1>1, <1>2, <1>3, <1>4, <1>5 DEF WellWritten, CloseFirst, Resources, Begins
<1> QED BY <1>6 DEF s

\* Every service starts and stops by a script of this form.
LEMMA ScriptsWellWritten ==
  ASSUME LifeAssumption, service \in Services
  PROVE  WellWritten(service, Mine)
<1>1. Script["alerts"] = AlertService /\ Script["cases"] = CaseService
  BY DEF Script
<1>2. Script["notifications"] = NotificationService /\ Script["stream"] = StreamService
  BY DEF Script
<1>3. Script["profile"] = ProfileService /\ Script["gateway"] = GatewayService
  BY DEF Script
<1>4. Script["rules"] = RuleService /\ Script["graph"] = GraphService
  BY DEF Script
<1>5. service \in {"alerts", "cases", "notifications", "stream", "profile", "gateway",
                   "rules", "graph"}
  BY DEF LifeAssumption, Script
<1> QED
  BY <1>1, <1>2, <1>3, <1>4, <1>5, Walerts, Wcases, Wnotifications, Wstream, Wprofile,
     Wgateway, Wrules, Wgraph DEF Mine

\* What the first n steps of the start opened is open, and so is what the work
\* opened itself once it runs.
Provided(n) ==
  /\ \A i \in 1..n : Mine.start[i] \in Resources => Mine.start[i] \in open
  /\ job \in {"idle", "busy"} => n = Len(Mine.start) /\ Mine.own \subseteq open
LifeInv ==
  /\ LifeTypeOK /\ raised \in BOOLEAN
  /\ phase = "starting" => Provided(next - 1) /\ (next <= Len(Mine.start) => job = "none")
  /\ phase = "serving" => Provided(Len(Mine.start))
  /\ phase = "stopping" /\ service \notin CloseFirst =>
       job = "ended" \/ (next = 1 /\ Provided(Len(Mine.start)))
  /\ phase \in {"starting", "serving"} =>
       /\ late = {}
       /\ job = "ended" => raised /\ (Mine.fragile \/ service = "rules")
  /\ late # {} => service \in CloseFirst
  /\ job = "opening" => Mine.fragile \/ service \in {"gateway", "rules"}

\* The invariant of the lifecycle holds at the start.
LEMMA LifeInitial == LifeAssumption /\ LifeInit => LifeInv
<1> SUFFICES ASSUME LifeAssumption, LifeInit PROVE LifeInv
  OBVIOUS
<1> WellWritten(service, Mine)
  BY ScriptsWellWritten DEF LifeInit
<1>1. next \in 1..Len(IF phase = "stopping" THEN Mine.stop ELSE Mine.start) + 1
  BY DEF WellWritten, LifeInit
<1>2. LifeTypeOK
  BY <1>1 DEF LifeInit, LifeTypeOK, LifeAssumption
<1> QED BY <1>2 DEF LifeInit, LifeInv

\* The invariant is inductive.
LEMMA LifePreserved == LifeAssumption /\ LifeInv /\ [LifeNext]_lifeVars => LifeInv'
<1> SUFFICES ASSUME LifeAssumption, LifeInv, [LifeNext]_lifeVars PROVE LifeInv'
  OBVIOUS
<1> WellWritten(service, Mine)
  BY ScriptsWellWritten DEF LifeInv, LifeTypeOK
<1> USE DEF LifeInv, LifeTypeOK, Provided, CloseFirst, LifeAssumption, history
<1> DEFINE s == Mine
<1>0. service' = service
  BY DEF LifeNext, lifeVars, Boot, StartStep, StartRaises, Serve, Open, OpenRaises, TakeJob, Use, FinishJob, WorkRaises, Shutdown, StopStep, Exit, Crash
<1>s. Mine' = Mine
  BY <1>0 DEF Mine
<1>1. CASE Boot
  <2>1. Len(Mine.start) \in Nat \ {0}
    BY DEF WellWritten
  <2>2. next' \in 1..Len(IF phase' = "stopping" THEN Mine'.stop ELSE Mine'.start) + 1
    BY <2>1, <1>1, <1>s DEF Boot, Enter
  <2>3. LifeTypeOK'
    BY <2>2, <1>1, <1>s DEF Boot, Enter
  <2>4. /\ phase' = "starting" /\ next' = 1 /\ job' = "none" /\ late' = {} /\ raised' = FALSE
    BY <1>1 DEF Boot, Enter
  <2>5. Provided(next - 1)'
    BY <2>4
  <2> QED
    BY <2>3, <2>4, <2>5
<1>2. CASE StartStep
  <2> DEFINE step == Mine.start[next]
  <2>1. /\ Len(Mine.start) \in Nat \ {0} /\ next \in 1..Len(Mine.start)
        /\ step \in Resources \/ (next = Len(Mine.start) /\ step \in Begins)
        /\ step = "spawn" /\ next = Len(Mine.start) => Mine.fragile \/ service \in {"gateway", "rules"}
        /\ Mine.own \cap {Mine.start[i] : i \in 1..Len(Mine.start)} = {}
    BY <1>2 DEF StartStep, WellWritten
  <2>0. /\ phase = "starting" /\ phase' = "starting" /\ next' = next + 1 /\ job = "none"
        /\ late' = late /\ late = {} /\ raised' = raised /\ boots' = boots
        /\ next \in Nat /\ open \subseteq Resources
        /\ \A i \in 1..(next - 1) : Mine.start[i] \in Resources => Mine.start[i] \in open
    BY <1>2, <2>1 DEF StartStep
  <2>2. CASE step \in Begins
    <3>1. open' = open /\ job' = IF step = "loop" THEN "idle" ELSE "opening"
      BY <1>2, <2>2 DEF StartStep, Spawned, Begins
    <3>2. next = Len(Mine.start) /\ step \notin Resources
      BY <2>1, <2>2 DEF Resources, Begins
    <3>3. Provided(next - 1)'
      <4>1. next' - 1 = Len(Mine.start) /\ job' \notin {"busy"} /\ (job' = "idle" => step = "loop")
        BY <2>0, <3>1, <3>2
      <4>2. \A i \in 1..(next' - 1) : Mine.start[i] \in Resources => Mine.start[i] \in open'
        BY <2>0, <3>1, <3>2
      <4>3. step = "loop" => Mine.own = {}
        BY <1>2, <3>2 DEF StartStep, WellWritten
      <4> QED BY <1>s, <4>1, <4>2, <4>3
    <3>4. LifeTypeOK'
      BY <1>0, <1>s, <2>0, <2>1, <3>1
    <3> QED BY <1>0, <1>s, <2>0, <2>1, <2>2, <3>1, <3>2, <3>3, <3>4 DEF Begins
  <2>3. CASE step \in Resources
    <3>1. open' = open \cup {step} /\ job' = job
      BY <1>2, <2>3 DEF StartStep, Resources
    <3>2. Provided(next - 1)'
      BY <1>s, <2>0, <3>1
    <3>3. LifeTypeOK'
      BY <1>0, <1>s, <2>0, <2>1, <2>3, <3>1
    <3> QED BY <1>0, <1>s, <2>0, <2>1, <2>3, <3>1, <3>2, <3>3
  <2> QED BY <2>1, <2>2, <2>3
<1>3. CASE StartRaises
  BY <1>0, <1>3, <1>s DEF StartRaises, Gone, WellWritten
<1>4. CASE Serve
  BY <1>0, <1>4, <1>s DEF Serve, Enter, WellWritten
<1>5. CASE Open
  BY <1>0, <1>5, <1>s DEF Open, WellWritten
<1>6. CASE OpenRaises
  BY <1>0, <1>6, <1>s DEF OpenRaises, WellWritten
<1>7. CASE TakeJob
  BY <1>0, <1>7, <1>s DEF TakeJob, WellWritten
<1>8. CASE Use
  BY <1>0, <1>8, <1>s DEF Use, WellWritten
<1>9. CASE FinishJob
  BY <1>0, <1>9, <1>s DEF FinishJob, WellWritten
<1>10. CASE WorkRaises
  BY <1>0, <1>10, <1>s DEF WorkRaises, WellWritten
<1>11. CASE Shutdown
  BY <1>0, <1>11, <1>s DEF Shutdown, Enter, WellWritten
<1>12. CASE StopStep
  BY <1>0, <1>12, <1>s DEF StopStep, Stops, WellWritten
<1>13. CASE Exit
  BY <1>0, <1>13, <1>s DEF Exit, Gone, WellWritten
<1>14. CASE Crash
  BY <1>0, <1>14, <1>s DEF Crash, Gone, WellWritten
<1>15. CASE UNCHANGED lifeVars
  BY <1>15, <1>s DEF lifeVars
<1> QED
  BY <1>1, <1>2, <1>3, <1>4, <1>5, <1>6, <1>7, <1>8, <1>9, <1>10, <1>11, <1>12, <1>13,
     <1>14, <1>15 DEF LifeNext

\* It contains the property.
LEMMA LifeSafe == LifeInv => ClosedOnlyWhileStopping
BY DEF LifeInv, LifeTypeOK, ClosedOnlyWhileStopping, CloseFirst
-----------------------------------------------------------------------------
\* Every step of the composition is a step of each part or leaves it alone.
LEMMA ServiceParts ==
  [ServicesNext]_serviceVars =>
    /\ [RuleNext]_ruleVars /\ [GraphNext]_graphVars
    /\ [CaseNext]_caseVars /\ [LifeNext]_lifeVars
<1>1. RuleStep =>
        [RuleNext]_ruleVars /\ [GraphNext]_graphVars /\ [CaseNext]_caseVars /\ [LifeNext]_lifeVars
  BY Zenon DEF RuleStep
<1>2. GraphStep =>
        [RuleNext]_ruleVars /\ [GraphNext]_graphVars /\ [CaseNext]_caseVars /\ [LifeNext]_lifeVars
  BY Zenon DEF GraphStep
<1>3. PipelineStep =>
        [RuleNext]_ruleVars /\ [GraphNext]_graphVars /\ [CaseNext]_caseVars /\ [LifeNext]_lifeVars
  <2>1. PipelineNext \/ CreateAlert => CaseNext
    BY Zenon DEF CaseNext, DeskNext
  <2> QED BY <2>1, Zenon DEF PipelineStep, engineVars
<1>4. DeskStep =>
        [RuleNext]_ruleVars /\ [GraphNext]_graphVars /\ [CaseNext]_caseVars /\ [LifeNext]_lifeVars
  <2>1. DeskNext => CaseNext
    BY Zenon DEF CaseNext
  <2> QED BY <2>1, Zenon DEF DeskStep, engineVars
<1>5. LifeStep =>
        [RuleNext]_ruleVars /\ [GraphNext]_graphVars /\ [CaseNext]_caseVars /\ [LifeNext]_lifeVars
  BY Zenon DEF LifeStep, engineVars
<1>6. UNCHANGED serviceVars =>
        [RuleNext]_ruleVars /\ [GraphNext]_graphVars /\ [CaseNext]_caseVars /\ [LifeNext]_lifeVars
  BY Zenon DEF serviceVars, engineVars
<1> QED BY <1>1, <1>2, <1>3, <1>4, <1>5, <1>6, Zenon DEF ServicesNext

\* The invariant of every part, together.
ServicesInv == RuleInv /\ CountInv /\ GraphInv /\ CaseInv /\ LifeInv

\* It holds in every state of the composition.
LEMMA ServicesInvariant == ServicesSpec => []ServicesInv
<1>0. RuleAssumption /\ GraphAssumption /\ CaseAssumption /\ LifeAssumption
  BY RuleAssumption, GraphAssumption, CaseAssumption, LifeAssumption
<1>1. ServicesInit => ServicesInv
  BY <1>0, RuleInitial, CountInitial, GraphInitial, CaseInitial, LifeInitial DEF ServicesInit, ServicesInv
<1>2. ServicesInv /\ [ServicesNext]_serviceVars => ServicesInv'
  <2> SUFFICES ASSUME ServicesInv, [ServicesNext]_serviceVars PROVE ServicesInv'
    OBVIOUS
  <2>1. RuleInv'
    BY <1>0, ServiceParts, RulePreserved DEF ServicesInv
  <2>2. CountInv'
    BY <1>0, <2>1, ServiceParts, CountPreserved DEF ServicesInv
  <2> QED
    BY <1>0, <2>1, <2>2, ServiceParts, GraphPreserved, CasePreserved, LifePreserved DEF ServicesInv
<1> QED BY <1>1, <1>2, PTL DEF ServicesSpec

\* The state of every service is well-typed.
THEOREM ServicesTypeCorrect == ServicesSpec => []ServicesTypeOK
<1>0. RuleAssumption
  BY RuleAssumption
<1>1. ServicesInv => ServicesTypeOK
  BY <1>0, RuleSafe, GraphSafe DEF ServicesInv, ServicesTypeOK, CaseInv, LifeInv
<1> QED BY <1>1, ServicesInvariant, PTL

\* The rule cache never holds rules older than a completed reload had to see, unless
\* two reloads overlapped (grpc_server.py, reload_rules_cache: one await between the
\* SELECT and the assignment).
THEOREM StaleCorrect == ServicesSpec => []StaleNeedsOverlap
<1>0. RuleAssumption
  BY RuleAssumption
<1>1. ServicesInv => StaleNeedsOverlap
  BY <1>0, RuleSafe DEF ServicesInv
<1> QED BY <1>1, ServicesInvariant, PTL

\* A finished evaluation asked the rules of one commit, all of them unless a critical
\* one matched, and answers with those that matched when they were asked and their
\* score: a velocity rule only if more turns than its limit were counted on its key,
\* whatever rules and evaluations they were of (evaluator.py:19-45,
\* redis_client.py:27-38).
THEOREM ResultCorrect == ServicesSpec => []ResultExplained
<1>0. RuleAssumption
  BY RuleAssumption
<1>1. ServicesInv => ResultExplained
  BY <1>0, ResultFollows DEF ServicesInv
<1> QED BY <1>1, ServicesInvariant, PTL

\* What a graph analysis finds is in transactions that were added, a ring over
\* devices of one address, and without overlapping additions no card or device gives
\* two rows (service.py:50-98 over the rows of neo4j_client.py:54-88; MERGE without a
\* uniqueness constraint).
THEOREM FindingsCorrect == ServicesSpec => []FindingsExplained
<1>1. ServicesInv => FindingsExplained
  BY GraphSafe DEF ServicesInv
<1> QED BY <1>1, ServicesInvariant, PTL

\* A record of the topics has more than one row only if it was handed out again, an
\* alert more than one event only if the producer sent it again, and what a reader is
\* done with is followed up (the consumers of alert-service and case-management, and
\* producer.py:11-22 of alert-service).
THEOREM CasesCorrect == ServicesSpec => []OneCasePerAlert
<1>1. ServicesInv => OneCasePerAlert
  BY CaseSafe DEF ServicesInv
<1> QED BY <1>1, ServicesInvariant, PTL

\* A PATCH of a case that answers success undoes no assignment it was not asked to
\* change, and leaves the status it was asked for unless another PATCH came between
\* its SELECT and its UPDATE (endpoints.py, update_case).
THEOREM PatchesCorrect == ServicesSpec => PatchesCompose
<1> DEFINE A == \A p \in Patches : Commits(p) =>
                  LET q == patch[p] now == cases'[q.case] was == cases[q.case] IN
                  /\ q.assigned = Nobody => now.assigned = was.assigned
                  /\ now.status # q.status => was.status # q.read.status
                  /\ now.assigned # q.assigned /\ q.assigned # Nobody => was.assigned # q.read.assigned
<1>0. CaseAssumption
  BY CaseAssumption
<1>1. ServicesInv /\ [ServicesNext]_serviceVars => [A]_caseVars
  BY <1>0, ServiceParts, Composes DEF ServicesInv
<1>2. ServicesSpec => [][A]_caseVars
  BY <1>1, ServicesInvariant, PTL DEF ServicesSpec
<1> QED BY <1>2 DEF PatchesCompose

\* A service closes what it works with only while it stops (the shutdown of each
\* main.py), whatever it was waiting for.
THEOREM LifeCorrect == ServicesSpec => []ClosedOnlyWhileStopping
<1>1. ServicesInv => ClosedOnlyWhileStopping
  BY LifeSafe DEF ServicesInv
<1> QED BY <1>1, ServicesInvariant, PTL
=============================================================================
