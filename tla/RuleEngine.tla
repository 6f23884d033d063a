----------------------------- MODULE RuleEngine -----------------------------
(***************************************************************************)
(* The rule engine: EvaluateRules runs the cached rules over a transaction *)
(* in the order the database returned them.  A velocity rule increments a  *)
(* counter in Redis that all the velocity rules about the same entity      *)
(* share.  The cache is filled by the first evaluation and by POST         *)
(* /reload, across an await, and nothing orders two reloads.  Scores are   *)
(* in tenths.                                                              *)
(***************************************************************************)
EXTENDS Integers, Sequences, FiniteSets, FiniteSetsExt, SequencesExt

CONSTANTS Rules,       \* rows of the table: [name, entity, limit, critical, points]
          Entities,    \* what velocity rules count by; any other rule is a condition
          Values,      \* of an entity, in the context of a transaction
          Evaluations, \* calls of EvaluateRules, one transaction each
          Reloads,     \* calls of POST /reload
          MaxEdits     \* bound: commits that change the active rules

ASSUME RuleAssumption ==
  /\ MaxEdits \in Nat /\ IsFiniteSet(Rules) /\ Evaluations \cap Reloads = {}
  /\ IsFiniteSet(Evaluations)
  /\ \A r \in Rules : r.points \in Int /\ r.critical \in BOOLEAN /\ r.limit \in Int

Tasks == Evaluations \cup Reloads
Verdicts == {"match", "miss", "raises"}
Missing == ""
Unloaded == -1

VARIABLES
  table,    \* the active rules after each commit, the first at 0
  cached,   \* _cached_rules
  loaded,   \* which commit's rules they are, Unloaded if _last_reload is None
  task,     \* per call: where it is, and what fetch_active_rules gave it
  eval,     \* per evaluation: its rules, how far it is, its result, and what each rule said
  ctx,      \* per evaluation, the values of the entities, Missing if it has none
  hits,     \* the counter of an entity's value, 0 if there is no such key
  floor,    \* history: the last commit that a completed reload had to see
  crossed   \* history: a reload completed that had begun before another ended

reloading == <<cached, loaded, task>>
velocityVars == <<ctx, hits>>
ruleVars == <<table, reloading, eval, velocityVars, floor, crossed>>

Version == Len(table) - 1
Idling == [at |-> "idle", rows |-> <<>>, commit |-> 0, began |-> 0]
Blank == [rules |-> <<>>, commit |-> Unloaded, next |-> 1, matched |-> <<>>, over |-> FALSE,
          heard |-> <<>>]
MatchesOf(e) == ToSet(eval[e].matched)

RuleTypeOK ==
  /\ table \in Seq(SUBSET Rules) /\ Version \in 0..MaxEdits
  /\ ToSet(cached) \subseteq Rules /\ loaded \in -1..MaxEdits
  /\ \A t \in Tasks :
       /\ task[t].at \in {"idle", "query", "fetched", "evaluate", "done", "failed"}
       /\ ToSet(task[t].rows) \subseteq Rules /\ task[t].commit \in 0..MaxEdits
  /\ \A e \in Evaluations :
       /\ ToSet(eval[e].rules) \subseteq Rules
       /\ eval[e].next \in 1..Len(eval[e].rules) + 1
       /\ Len(eval[e].matched) < eval[e].next
       /\ eval[e].heard \in Seq(Verdicts) /\ Len(eval[e].heard) = eval[e].next - 1
  /\ ctx \in [Evaluations -> [Entities -> Values \cup {Missing}]]
  /\ hits \in [Entities \X Values -> Nat]
  /\ floor \in -1..MaxEdits /\ crossed \in BOOLEAN

RuleInit ==
  /\ table = <<Rules>>
  /\ cached = <<>> /\ loaded = Unloaded
  /\ task = [t \in Tasks |-> Idling]
  /\ eval = [e \in Evaluations |-> Blank]
  /\ ctx \in [Evaluations -> [Entities -> Values \cup {Missing}]]
  /\ hits = [k \in Entities \X Values |-> 0]
  /\ floor = Unloaded /\ crossed = FALSE
-----------------------------------------------------------------------------
\* Somebody (seed_rules) replaces the active rules.
EditRules ==
  /\ Version < MaxEdits
  /\ \E R \in SUBSET Rules : table' = Append(table, R)
  /\ UNCHANGED <<reloading, eval, velocityVars, floor, crossed>>

NeverLoaded == cached = <<>> /\ loaded = Unloaded

\* trigger_reload, and EvaluateRules when nothing was ever loaded.
BeginReload(t) ==
  /\ task[t].at = "idle" /\ (t \in Reloads \/ NeverLoaded)
  /\ task' = [task EXCEPT ![t] = [Idling EXCEPT !.at = "query", !.began = Version]]
  /\ UNCHANGED <<table, cached, loaded, eval, velocityVars, floor, crossed>>

\* fetch_active_rules: one SELECT without ORDER BY.
Query(t) ==
  /\ task[t].at = "query"
  /\ \E rows \in SetToSeqs(table[Version + 1]) :
       task' = [task EXCEPT ![t].at = "fetched", ![t].rows = rows, ![t].commit = Version]
  /\ UNCHANGED <<table, cached, loaded, eval, velocityVars, floor, crossed>>

QueryRaises(t) ==
  /\ task[t].at = "query"
  /\ task' = [task EXCEPT ![t] = [Idling EXCEPT !.at = "failed"]]
  /\ UNCHANGED <<table, cached, loaded, eval, velocityVars, floor, crossed>>

Completed(t) ==
  /\ floor' = IF task[t].began > floor THEN task[t].began ELSE floor
  /\ crossed' = (crossed \/ \E u \in Tasks \ {t} : task[u].at \in {"query", "fetched"})
  /\ task' = [task EXCEPT ![t] = [Idling EXCEPT !.at = IF t \in Reloads THEN "done" ELSE "evaluate"]]

Captured(rows, commit) == [Blank EXCEPT !.rules = rows, !.commit = commit]

\* Mutant: an empty answer leaves the old rules in place.
EndReloadKeeping(t) ==
  /\ task[t].at = "fetched"
  /\ cached' = IF task[t].rows = <<>> THEN cached ELSE task[t].rows
  /\ loaded' = IF task[t].rows = <<>> THEN loaded ELSE task[t].commit
  /\ eval' = [e \in Evaluations |-> IF e = t THEN Captured(cached', loaded') ELSE eval[e]]
  /\ Completed(t)
  /\ UNCHANGED <<table, velocityVars>>

\* The cache and its time are replaced together, by whoever comes last; an
\* evaluation that had to load them goes on with what it has just stored.
EndReload(t) ==
  /\ task[t].at = "fetched"
  /\ cached' = task[t].rows /\ loaded' = task[t].commit
  /\ eval' = [e \in Evaluations |-> IF e = t THEN Captured(cached', loaded') ELSE eval[e]]
  /\ Completed(t)
  /\ UNCHANGED <<table, velocityVars>>
-----------------------------------------------------------------------------
\* RuleEvaluator keeps the list that is in the cache now.
Evaluate(e) ==
  /\ task[e].at = "idle" /\ ~NeverLoaded
  /\ task' = [task EXCEPT ![e].at = "evaluate"]
  /\ eval' = [eval EXCEPT ![e] = Captured(cached, loaded)]
  /\ UNCHANGED <<table, cached, loaded, velocityVars, floor, crossed>>

Evaluating(e) ==
  /\ task[e].at = "evaluate"
  /\ ~eval[e].over /\ eval[e].next <= Len(eval[e].rules)

HasKey(e, rule) == rule.entity \in Entities /\ ctx[e][rule.entity] # Missing
Key(e, rule) == <<rule.entity, ctx[e][rule.entity]>>

\* What the rule says of the transaction.  A condition compares fields, which are
\* left open here.  check_velocity increments before it compares, and may raise
\* before or after; without a value there is nothing to count.
Says(e, rule, v) ==
  \/ rule.entity \notin Entities /\ UNCHANGED hits
  \/ rule.entity \in Entities /\ ~HasKey(e, rule) /\ v = "miss" /\ UNCHANGED hits
  \/ HasKey(e, rule) /\ v = "raises" /\ UNCHANGED hits
  \/ /\ HasKey(e, rule)
     /\ hits' = [hits EXCEPT ![Key(e, rule)] = @ + 1]
     /\ v \in {"raises", IF hits'[Key(e, rule)] > rule.limit THEN "match" ELSE "miss"}

\* An exception skips the rule, a critical match ends the loop.
Answered(ev, rule, v) ==
  [ev EXCEPT !.next = @ + 1, !.heard = Append(@, v),
             !.matched = IF v = "match" THEN Append(@, rule) ELSE @,
             !.over = v = "match" /\ rule.critical]

\* Mutant: the loop reads the live cache.
EvaluateRuleLive(e) ==
  /\ Evaluating(e) /\ eval[e].next \in DOMAIN cached
  /\ LET rule == cached[eval[e].next] IN
       \E v \in Verdicts :
         Says(e, rule, v) /\ eval' = [eval EXCEPT ![e] = Answered(eval[e], rule, v)]
  /\ UNCHANGED <<table, reloading, ctx, floor, crossed>>

\* One turn of the loop, which may await Redis.
EvaluateRule(e) ==
  /\ Evaluating(e)
  /\ LET rule == eval[e].rules[eval[e].next] IN
       \E v \in Verdicts :
         Says(e, rule, v) /\ eval' = [eval EXCEPT ![e] = Answered(eval[e], rule, v)]
  /\ UNCHANGED <<table, reloading, ctx, floor, crossed>>

\* Redis forgets a counter (when: ExpiringCounter).
Forget ==
  /\ \E k \in Entities \X Values : hits[k] > 0 /\ hits' = [hits EXCEPT ![k] = 0]
  /\ UNCHANGED <<table, reloading, eval, ctx, floor, crossed>>

Return(e) ==
  /\ task[e].at = "evaluate" /\ ~Evaluating(e)
  /\ task' = [task EXCEPT ![e].at = "done"]
  /\ UNCHANGED <<table, cached, loaded, eval, velocityVars, floor, crossed>>

\* rule_score: bounded from above only.
AtMostOne(score) == IF score > 10 THEN 10 ELSE score
RuleScore(e) == AtMostOne(FoldSeq(LAMBDA r, sum : sum + r.points, 0, eval[e].matched))

RuleNext ==
  \/ EditRules \/ Forget
  \/ \E t \in Tasks : BeginReload(t) \/ Query(t) \/ QueryRaises(t) \/ EndReload(t)
  \/ \E e \in Evaluations : Evaluate(e) \/ EvaluateRule(e) \/ Return(e)

RuleSpec == RuleInit /\ [][RuleNext]_ruleVars
-----------------------------------------------------------------------------
Asked(e) == {eval[e].rules[i] : i \in 1..eval[e].next - 1}
Matching(e) == {eval[e].rules[i] : i \in {n \in 1..eval[e].next - 1 : eval[e].heard[n] = "match"}}

\* The turns at which the counter k may have been incremented.
Turns(k) ==
  UNION {{e} \X {i \in 1..eval[e].next - 1 : /\ HasKey(e, eval[e].rules[i])
                                           /\ Key(e, eval[e].rules[i]) = k}
           : e \in Evaluations}

\* A finished evaluation asked the active rules of exactly one commit, in whatever
\* order, each once: all of them or, if a critical rule matched, up to that one.
\* Its score is that of those that matched when they were asked.  A velocity rule
\* matched only if more than limit turns, of any rule about the same value and of
\* any transaction, were counted (evaluator.py:19-45, redis_client.py:27-38).
ResultExplained ==
  \A e \in Evaluations :
    task[e].at = "done" =>
      LET active   == table[eval[e].commit + 1]
          critical == {r \in Matching(e) : r.critical}
      IN /\ MatchesOf(e) = Matching(e)
         /\ Cardinality(MatchesOf(e)) = Len(eval[e].matched)
         /\ RuleScore(e) = AtMostOne(MapThenSumSet(LAMBDA r : r.points, Matching(e)))
         /\ Asked(e) \subseteq active
         /\ IF critical = {} THEN Asked(e) = active ELSE Cardinality(critical) = 1
         /\ \A r \in Matching(e) :
              r.entity \in Entities => r.limit < Cardinality(Turns(Key(e, r)))

\* Once a reload has completed, the cache never again holds rules older than
\* those it could see when it began, unless two reloads overlapped.
StaleNeedsOverlap == loaded >= floor \/ crossed
=============================================================================
