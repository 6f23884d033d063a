----------------------------- MODULE AlertCases -----------------------------
(***************************************************************************)
(* The alert service and case management.  A consumer stores every record  *)
(* of alert.created, escalates the alerts with a high score and publishes  *)
(* case.opened; another consumer stores a case for each of those; analysts *)
(* read, open, annotate and patch cases.  Neither consumer deduplicates.   *)
(* Both commit offsets by a timer and when they stop, up to the record     *)
(* last handed to the loop, and an exception ends the loop for good while  *)
(* the service stays up.                                                   *)
(***************************************************************************)
EXTENDS Integers, Sequences, FiniteSets

CONSTANTS Patches,    \* calls of PATCH /cases/{id}
          Statuses,   \* statuses an analyst may give, "OPEN" is the default
          Analysts,   \* who a case may be assigned to
          MaxRecords, \* bound: records of alert.created
          MaxPosted,  \* bound: alerts, cases and notes added through the API
          MaxFaults   \* bound: ends of a consumer's loop and lost acknowledgements

ASSUME CaseAssumption ==
  "OPEN" \in Statuses /\ MaxRecords \in Nat /\ MaxPosted \in Nat /\ MaxFaults \in Nat

Nobody == "nobody"
Readers == {"alerts", "cases"}
Scores == {"high", "low", "incomplete"}   \* incomplete: an id is missing

VARIABLES
  created,  \* the topic alert.created
  opened,   \* the topic case.opened: the alert of each event
  reader,   \* per consumer: [at, position, committed]
  alerts,   \* rows of the alerts table, by identity: [status, from]
  cases,    \* rows of the cases table: [status, assigned, from]
  notes,    \* rows of case_notes: the case of each
  patch,    \* per PATCH: its request, the row it read, where it is
  posted,   \* rows added through the API
  faults,   \* loops that have ended and acknowledgements that were lost
  cut,      \* history: per consumer, records in work when its loop ended
  reread,   \* history: per consumer, records it is handed once more
  unacked   \* history: alerts whose event is stored without an acknowledgement

topics == <<created, opened>>
tables == <<alerts, cases, notes>>
caseVars == <<topics, reader, tables, patch, posted, faults, cut, reread, unacked>>

\* A row added through the API comes from no record.
ByHand == 0
Unsent == [at |-> "new", case |-> 0, status |-> "OPEN", assigned |-> Nobody,
           read |-> [status |-> "OPEN", assigned |-> Nobody]]
Held == [status : Statuses, assigned : Analysts \cup {Nobody}]

CaseTypeOK ==
  /\ created \in Seq(Scores) /\ Len(created) <= MaxRecords
  /\ \A e \in DOMAIN opened : opened[e] \in DOMAIN alerts
  /\ \A r \in Readers :
       /\ reader[r].at \in {"off", "idle", "insert", "escalate", "publish"}
       /\ reader[r].committed <= reader[r].position
  /\ \A a \in DOMAIN alerts :
       alerts[a].status \in {"NEW", "ESCALATED"} /\ alerts[a].from \in 0..Len(created)
  /\ \A c \in DOMAIN cases :
       /\ [status |-> cases[c].status, assigned |-> cases[c].assigned] \in Held
       /\ cases[c].from \in 0..Len(opened)
  /\ \A n \in DOMAIN notes : notes[n] \in DOMAIN cases
  /\ \A p \in Patches : patch[p].at \in {"new", "read", "done", "failed"}
  /\ posted \in 0..MaxPosted /\ faults \in 0..MaxFaults
  /\ unacked \subseteq DOMAIN alerts

CaseInit ==
  /\ created = <<>> /\ opened = <<>>
  /\ reader = [r \in Readers |-> [at |-> "off", position |-> 0, committed |-> 0]]
  /\ alerts = <<>> /\ cases = <<>> /\ notes = <<>>
  /\ patch = [p \in Patches |-> Unsent]
  /\ posted = 0 /\ faults = 0
  /\ cut = [r \in Readers |-> {}] /\ reread = [r \in Readers |-> {}]
  /\ unacked = {}
-----------------------------------------------------------------------------
Topic(r) == IF r = "alerts" THEN created ELSE opened
Incomplete(r, o) == r = "alerts" /\ created[o] = "incomplete"
Goto(r, where) == reader' = [reader EXCEPT ![r].at = where]

\* Whoever publishes alert.created: no service of this commit does.
PublishAlert ==
  /\ Len(created) < MaxRecords
  /\ \E score \in Scores : created' = Append(created, score)
  /\ UNCHANGED <<opened, reader, tables, patch, posted, faults, cut, reread, unacked>>

\* A group without an offset starts at the beginning.
StartReader(r) ==
  /\ reader[r].at = "off"
  /\ reader' = [reader EXCEPT ![r].at = "idle", ![r].position = reader[r].committed]
  /\ UNCHANGED <<topics, tables, patch, posted, faults, cut, reread, unacked>>

\* The next record; one without its ids is skipped.
Read(r) ==
  /\ reader[r].at = "idle" /\ reader[r].position < Len(Topic(r))
  /\ LET o == reader[r].position + 1 IN
       reader' = [reader EXCEPT ![r].position = o,
                    ![r].at = IF Incomplete(r, o) THEN "idle" ELSE "insert"]
  /\ UNCHANGED <<topics, tables, patch, posted, faults, cut, reread, unacked>>

AutoCommit(r) ==
  /\ reader[r].at # "off" /\ reader[r].committed # reader[r].position
  /\ reader' = [reader EXCEPT ![r].committed = reader[r].position]
  /\ UNCHANGED <<topics, tables, patch, posted, faults, cut, reread, unacked>>

\* The process crashes, the database or Kafka raises, or the service shuts
\* down, which stops the producer and cancels the loop: unless it crashed the
\* consumer commits its position, the record in work included.
EndReader(r) ==
  /\ reader[r].at # "off" /\ faults < MaxFaults
  /\ faults' = faults + 1
  /\ \E n \in {reader[r].committed, reader[r].position} :
       /\ reader' = [reader EXCEPT ![r].at = "off", ![r].committed = n]
       /\ reread' = [reread EXCEPT ![r] = @ \cup (n + 1..reader[r].position)]
  /\ cut' = [cut EXCEPT ![r] = IF reader[r].at = "idle" THEN @
                               ELSE @ \cup {reader[r].position}]
  /\ UNCHANGED <<topics, tables, patch, posted, unacked>>

InsertAlert ==
  /\ reader["alerts"].at = "insert"
  /\ LET o == reader["alerts"].position IN
       /\ alerts' = Append(alerts, [status |-> "NEW", from |-> o])
       /\ Goto("alerts", IF created[o] = "high" THEN "escalate" ELSE "idle")
  /\ UNCHANGED <<topics, cases, notes, patch, posted, faults, cut, reread, unacked>>

\* The row this consumer has just added.
Latest == CHOOSE a \in DOMAIN alerts :
            /\ alerts[a].from # ByHand
            /\ \A b \in DOMAIN alerts : alerts[b].from # ByHand => b <= a

\* Mutant: the case is announced before the alert is escalated, which is then
\* left to the publication.
EscalateLater ==
  /\ reader["alerts"].at = "escalate"
  /\ Goto("alerts", "publish")
  /\ UNCHANGED <<topics, tables, patch, posted, faults, cut, reread, unacked>>

Escalate ==
  /\ reader["alerts"].at = "escalate"
  /\ alerts' = [alerts EXCEPT ![Latest].status = "ESCALATED"]
  /\ Goto("alerts", "publish")
  /\ UNCHANGED <<topics, cases, notes, patch, posted, faults, cut, reread, unacked>>

\* The broker has stored the event, but the producer hears nothing and sends it
\* again: enable_idempotence is off.
StoreUnacked ==
  /\ reader["alerts"].at = "publish" /\ faults < MaxFaults
  /\ faults' = faults + 1
  /\ opened' = Append(opened, Latest)
  /\ unacked' = unacked \cup {Latest}
  /\ UNCHANGED <<created, reader, tables, patch, posted, cut, reread>>

\* publish_event waits for the broker, which acknowledges this attempt.
PublishCase ==
  /\ reader["alerts"].at = "publish"
  /\ opened' = Append(opened, Latest)
  /\ Goto("alerts", "idle")
  /\ UNCHANGED <<created, tables, patch, posted, faults, cut, reread, unacked>>

InsertCase ==
  /\ reader["cases"].at = "insert"
  /\ cases' = Append(cases, [status |-> "OPEN", assigned |-> Nobody,
                             from |-> reader["cases"].position])
  /\ Goto("cases", "idle")
  /\ UNCHANGED <<topics, alerts, notes, patch, posted, faults, cut, reread, unacked>>
-----------------------------------------------------------------------------
Post == posted < MaxPosted /\ posted' = posted + 1

\* POST /alerts: whatever its score and status, no case is opened.
CreateAlert ==
  /\ Post
  /\ \E status \in {"NEW", "ESCALATED"} :
       alerts' = Append(alerts, [status |-> status, from |-> ByHand])
  /\ UNCHANGED <<topics, reader, cases, notes, patch, faults, cut, reread, unacked>>

\* POST /cases: the case and the note made of its title are committed together.
CreateCase ==
  /\ Post
  /\ \E given \in Held, titled \in BOOLEAN :
       /\ cases' = Append(cases, [status |-> given.status, assigned |-> given.assigned,
                                  from |-> ByHand])
       /\ notes' = IF titled THEN Append(notes, Len(cases')) ELSE notes
  /\ UNCHANGED <<topics, reader, alerts, patch, faults, cut, reread, unacked>>

AddNote ==
  /\ Post
  /\ \E c \in DOMAIN cases : notes' = Append(notes, c)
  /\ UNCHANGED <<topics, reader, alerts, cases, patch, faults, cut, reread, unacked>>

\* PATCH: the row is selected; its request may leave the assignee alone.
BeginPatch(p) ==
  /\ patch[p].at = "new"
  /\ \E c \in DOMAIN cases, asked \in Held :
       patch' = [patch EXCEPT ![p] =
         [at |-> "read", case |-> c, status |-> asked.status, assigned |-> asked.assigned,
          read |-> [status |-> cases[c].status, assigned |-> cases[c].assigned]]]
  /\ UNCHANGED <<topics, reader, tables, posted, faults, cut, reread, unacked>>

Finish(p, where) == patch' = [patch EXCEPT ![p] = [Unsent EXCEPT !.at = where]]

\* Mutant: the whole row that was read is written back.
CommitPatchRow(p) ==
  /\ patch[p].at = "read"
  /\ LET q == patch[p] IN
       cases' = [cases EXCEPT ![q.case].status = q.status,
                   ![q.case].assigned = IF q.assigned = Nobody THEN q.read.assigned ELSE q.assigned]
  /\ Finish(p, "done")
  /\ UNCHANGED <<topics, reader, alerts, notes, posted, faults, cut, reread, unacked>>

\* The commit updates the columns whose value differs from the one read: a
\* status that was read is not written, though it may have changed since.
CommitPatch(p) ==
  /\ patch[p].at = "read"
  /\ LET q == patch[p] IN
       cases' = [cases EXCEPT
         ![q.case].status = IF q.status = q.read.status THEN @ ELSE q.status,
         ![q.case].assigned = IF q.assigned \in {Nobody, q.read.assigned} THEN @ ELSE q.assigned]
  /\ Finish(p, "done")
  /\ UNCHANGED <<topics, reader, alerts, notes, posted, faults, cut, reread, unacked>>

\* The database raises: nothing is written.
PatchRaises(p) ==
  /\ patch[p].at = "read"
  /\ Finish(p, "failed")
  /\ UNCHANGED <<topics, reader, tables, posted, faults, cut, reread, unacked>>

\* The two consumers, and the calls of the API.
PipelineNext ==
  \/ PublishAlert \/ InsertAlert \/ Escalate \/ StoreUnacked \/ PublishCase \/ InsertCase
  \/ \E r \in Readers : StartReader(r) \/ Read(r) \/ AutoCommit(r) \/ EndReader(r)
DeskNext ==
  \/ CreateAlert \/ CreateCase \/ AddNote
  \/ \E p \in Patches : BeginPatch(p) \/ CommitPatch(p) \/ PatchRaises(p)

CaseNext == PipelineNext \/ DeskNext

CaseSpec == CaseInit /\ [][CaseNext]_caseVars
-----------------------------------------------------------------------------
\* Records the loop of r has been handed and is not working on.
Passed(r) ==
  IF reader[r].at = "off" THEN 1..reader[r].committed
  ELSE 1..reader[r].position \ (IF reader[r].at = "idle" THEN {} ELSE {reader[r].position})

RowsFrom(table, o) == {i \in DOMAIN table : table[i].from = o}

\* A high score that was consumed has an escalated alert, its event and its
\* case, unless a loop ended on the record on the way.  A record has more than one
\* row only if it was handed out again, and an alert more than one event only if
\* the producer sent it again (producer.py:11-22).  And a case that was not opened
\* by hand always belongs to an alert that is escalated already.
OneCasePerAlert ==
  /\ \A o \in Passed("alerts") \ cut["alerts"] :
       created[o] = "high" =>
         \E a \in RowsFrom(alerts, o), e \in DOMAIN opened : opened[e] = a
  /\ \A e \in Passed("cases") \ cut["cases"] : RowsFrom(cases, e) # {}
  /\ \A o \in DOMAIN created :
       Cardinality(RowsFrom(alerts, o)) > 1 => o \in reread["alerts"]
  /\ \A e \in DOMAIN opened :
       Cardinality(RowsFrom(cases, e)) > 1 => e \in reread["cases"]
  /\ \A e, f \in DOMAIN opened :
       opened[e] = opened[f] => e = f \/ opened[e] \in unacked
  /\ \A e \in DOMAIN opened : alerts[opened[e]].status = "ESCALATED"

Commits(p) == patch[p].at = "read" /\ patch'[p].at = "done"

\* A PATCH that answers success never undoes an assignment it was not asked to
\* change, and leaves the status it was asked for unless another PATCH of the
\* case committed between its SELECT and its UPDATE.
PatchesCompose ==
  [][\A p \in Patches : Commits(p) =>
       LET q == patch[p] now == cases'[q.case] was == cases[q.case] IN
       /\ q.assigned = Nobody => now.assigned = was.assigned
       /\ now.status # q.status => was.status # q.read.status
       /\ now.assigned # q.assigned /\ q.assigned # Nobody => was.assigned # q.read.assigned
    ]_caseVars
=============================================================================
