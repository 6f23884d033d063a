---------------------------- MODULE Notifications ---------------------------
(***************************************************************************)
(* The notification service: replicas of one group read                    *)
(* notification.requested (one partition) and dispatch each request over   *)
(* the channels of its severity.  Deduplication reads a key in Redis,      *)
(* then sets it, in two awaits and before anything is sent.  Offsets are   *)
(* committed by a timer and when a consumer stops; an exception outside    *)
(* the sending ends the loop for good while the service stays up.          *)
(***************************************************************************)
EXTENDS Integers, Sequences, FiniteSets, SequencesExt

CONSTANTS Replicas,    \* notification service processes
          Alerts,      \* pairs of a recipient and an alert: the dedup keys
          Severities,  \* subset of those the dispatcher knows
          MaxRequests, \* bound: records of the topic
          MaxMishaps   \* bound: ends of a loop, rebalances and expiries

Nothing == 0
NoReplica == "none"

ASSUME NoticeAssumption ==
  /\ Severities \subseteq {"CRITICAL", "HIGH", "MEDIUM", "LOW"} /\ NoReplica \notin Replicas
  /\ MaxRequests \in Nat /\ MaxMishaps \in Nat

VARIABLES
  requests,  \* the topic: [key, severity]
  groupOffset, \* committed
  owner,     \* the replica that has the partition, or NoReplica
  work,      \* per replica: [at, position, record, queue, row]
  keys,      \* dedup keys in Redis
  rows,      \* the notifications table: [key, channel, status, attempt]
  mishaps,   \* mishaps so far
  sent,      \* history: rows whose message reached its recipient
  raced,     \* history: keys two dispatches looked up before either set it
  expired,   \* history: keys that expired
  broken     \* history: keys whose dispatch did not finish

notices == <<keys, rows, sent>>
told == <<raced, expired, broken>>
noticeVars == <<requests, groupOffset, owner, work, notices, mishaps, told>>

Off == [at |-> "off", position |-> 0, record |-> Nothing, queue |-> <<>>, row |-> Nothing]
Channels(severity) ==
  <<"email">> \o CASE severity = "CRITICAL" -> <<"sms", "slack", "webhook">>
                   [] severity = "HIGH" -> <<"slack", "webhook">>
                   [] severity = "MEDIUM" -> <<"webhook">>
                   [] OTHER -> <<>>

NoticeTypeOK ==
  /\ \A o \in DOMAIN requests : requests[o].key \in Alerts
  /\ groupOffset \in 0..Len(requests) /\ owner \in Replicas \cup {NoReplica}
  /\ \A c \in Replicas :
       /\ work[c].at \in {"off", "idle", "get", "set", "insert", "send", "sent", "failed"}
       /\ work[c].position \in 0..Len(requests) /\ work[c].record \in 0..Len(requests)
       /\ work[c].row \in 0..Len(rows)
  /\ keys \subseteq Alerts
  /\ \A r \in DOMAIN rows :
       rows[r].status = "PENDING" <=> rows[r].attempt = "none"
  /\ mishaps \in 0..MaxMishaps

NoticeInit ==
  /\ requests = <<>> /\ groupOffset = 0 /\ owner = NoReplica
  /\ work = [c \in Replicas |-> Off]
  /\ keys = {} /\ rows = <<>> /\ sent = {}
  /\ mishaps = 0
  /\ raced = {} /\ expired = {} /\ broken = {}
-----------------------------------------------------------------------------
Mishap == mishaps < MaxMishaps /\ mishaps' = mishaps + 1
Busy(c) == work[c].at \notin {"off", "idle"}
Request(c) == requests[work[c].record]
Key(c) == Request(c).key
Move(c, where) == work' = [work EXCEPT ![c].at = where]
Rest(c) == work' = [work EXCEPT ![c].at = "idle", ![c].record = Nothing]

Ask ==
  /\ Len(requests) < MaxRequests
  /\ \E k \in Alerts, s \in Severities :
       requests' = Append(requests, [key |-> k, severity |-> s])
  /\ UNCHANGED <<groupOffset, owner, work, notices, mishaps, told>>

StartReplica(c) ==
  /\ work[c].at = "off"
  /\ Move(c, "idle")
  /\ UNCHANGED <<requests, groupOffset, owner, notices, mishaps, told>>

\* The coordinator gives the partition to c, at the committed offset.  Another
\* owner may commit its position first, and still finishes its request.
AssignTo(c) ==
  /\ owner # c /\ work[c].at # "off"
  /\ IF owner = NoReplica THEN UNCHANGED <<mishaps, groupOffset>>
     ELSE Mishap /\ groupOffset' \in {groupOffset, work[owner].position}
  /\ owner' = c
  /\ work' = [work EXCEPT ![c].position = groupOffset']
  /\ UNCHANGED <<requests, notices, told>>

CommitOffset(c) ==
  /\ owner = c /\ groupOffset # work[c].position
  /\ groupOffset' = work[c].position
  /\ UNCHANGED <<requests, owner, work, notices, mishaps, told>>

Take(c) ==
  /\ owner = c /\ work[c].at = "idle" /\ work[c].position < Len(requests)
  /\ LET o == work[c].position + 1 IN
       work' = [work EXCEPT ![c].position = o, ![c].record = o, ![c].at = "get"]
  /\ UNCHANGED <<requests, groupOffset, owner, notices, mishaps, told>>

\* GET finds the key: the request is dropped, whatever its severity.
SkipDuplicate(c) ==
  /\ work[c].at = "get" /\ Key(c) \in keys
  /\ Rest(c)
  /\ UNCHANGED <<requests, groupOffset, owner, notices, mishaps, told>>

GetNothing(c) ==
  /\ work[c].at = "get" /\ Key(c) \notin keys
  /\ Move(c, "set")
  /\ raced' = raced \cup {Key(d) : d \in {d \in Replicas \ {c} :
                                 work[d].at = "set" /\ Key(d) = Key(c)}}
  /\ UNCHANGED <<requests, groupOffset, owner, notices, mishaps, expired, broken>>

\* Mutant: the key is only read, never set.
SetNothing(c) ==
  /\ work[c].at = "set"
  /\ work' = [work EXCEPT ![c].at = "insert", ![c].queue = Channels(Request(c).severity)]
  /\ UNCHANGED <<requests, groupOffset, owner, notices, mishaps, told>>

\* SET with its day of life, and the channels of the severity.
SetKey(c) ==
  /\ work[c].at = "set"
  /\ keys' = keys \cup {Key(c)}
  /\ work' = [work EXCEPT ![c].at = "insert", ![c].queue = Channels(Request(c).severity)]
  /\ UNCHANGED <<requests, groupOffset, owner, rows, sent, mishaps, told>>

Expire(k) ==
  /\ k \in keys /\ Mishap
  /\ keys' = keys \ {k} /\ expired' = expired \cup {k}
  /\ UNCHANGED <<requests, groupOffset, owner, work, rows, sent, raced, broken>>

\* The notification is committed as PENDING; its attempt is not.
InsertRow(c) ==
  /\ work[c].at = "insert"
  /\ rows' = Append(rows, [key |-> Key(c), channel |-> Head(work[c].queue),
                           status |-> "PENDING", attempt |-> "none"])
  /\ work' = [work EXCEPT ![c].at = "send", ![c].row = Len(rows')]
  /\ UNCHANGED <<requests, groupOffset, owner, keys, sent, mishaps, told>>

Remote == {"slack", "webhook"}

\* The channel's send.  An answer that is late or an error is a failure, though
\* the message may have arrived; email and sms only log a message, send nothing
\* and report success.
Send(c) ==
  /\ work[c].at = "send"
  /\ \E arrives, success \in BOOLEAN :
       /\ IF rows[work[c].row].channel \in Remote THEN success => arrives
                                                  ELSE success /\ ~arrives
       /\ sent' = IF arrives THEN sent \cup {work[c].row} ELSE sent
       /\ Move(c, IF success THEN "sent" ELSE "failed")
  /\ UNCHANGED <<requests, groupOffset, owner, keys, rows, mishaps, told>>

Outcome(c) ==
  [rows EXCEPT ![work[c].row].status = IF work[c].at = "sent" THEN "SENT" ELSE "FAILED",
               ![work[c].row].attempt = IF work[c].at = "sent" THEN "SUCCESS" ELSE "FAILED"]
Continue(c, queue) ==
  work' = [work EXCEPT ![c].queue = queue, ![c].row = Nothing,
             ![c].at = IF queue = <<>> THEN "idle" ELSE "insert",
             ![c].record = IF queue = <<>> THEN Nothing ELSE @]

\* Mutant: a channel that fails ends the dispatch.
RecordLast(c) ==
  /\ work[c].at \in {"sent", "failed"}
  /\ rows' = Outcome(c)
  /\ Continue(c, IF work[c].at = "sent" THEN Tail(work[c].queue) ELSE <<>>)
  /\ UNCHANGED <<requests, groupOffset, owner, keys, sent, mishaps, told>>

\* The outcome and the attempt are committed together, and the next channel's
\* turn comes whatever the outcome was.
Record(c) ==
  /\ work[c].at \in {"sent", "failed"}
  /\ rows' = Outcome(c)
  /\ Continue(c, Tail(work[c].queue))
  /\ UNCHANGED <<requests, groupOffset, owner, keys, sent, mishaps, told>>

\* The process crashes or shuts down, or Redis, the database or Kafka raises:
\* a consumer that is stopped in order commits its position.
EndLoop(c) ==
  /\ work[c].at # "off" /\ Mishap
  /\ IF owner = c THEN owner' = NoReplica /\ groupOffset' \in {groupOffset, work[c].position}
                  ELSE UNCHANGED <<owner, groupOffset>>
  /\ broken' = IF Busy(c) THEN broken \cup {Key(c)} ELSE broken
  /\ work' = [work EXCEPT ![c] = Off]
  /\ UNCHANGED <<requests, notices, raced, expired>>

NoticeNext ==
  \/ Ask
  \/ \E c \in Replicas :
       \/ StartReplica(c) \/ AssignTo(c) \/ CommitOffset(c) \/ Take(c) \/ SkipDuplicate(c)
       \/ GetNothing(c) \/ SetKey(c) \/ InsertRow(c) \/ Send(c) \/ Record(c) \/ EndLoop(c)
  \/ \E k \in Alerts : Expire(k)

NoticeSpec == NoticeInit /\ [][NoticeNext]_noticeVars
-----------------------------------------------------------------------------
\* An alert has two notifications to a recipient over the same channel, sent or
\* logged, only if two dispatches looked the key up before either had set it, or
\* it had expired: neither a record that is handed out again nor a second
\* request is enough.
DeliveriesExplained ==
  \A r, s \in DOMAIN rows :
    r # s /\ rows[r].key = rows[s].key /\ rows[r].channel = rows[s].channel =>
      rows[r].key \in raced \cup expired

Dispatching(k) == \E c \in Replicas : Busy(c) /\ Key(c) = k
Consumed == 1..(IF owner = NoReplica THEN groupOffset ELSE work[owner].position)

Attempted(k, severity) ==
  \A i \in DOMAIN Channels(severity) :
    \E r \in DOMAIN rows : /\ rows[r].key = k /\ rows[r].channel = Channels(severity)[i]
                           /\ rows[r].status # "PENDING"

\* Unless a loop ended on it, an alert whose request was consumed has been
\* tried on every channel of its severity, or of the severity of another
\* request for it, failures on the way notwithstanding, and no notification
\* stays PENDING; and one that is SENT did arrive, over the channels that send.
NotifiedOrBroken ==
  /\ \A o \in Consumed :
       LET k == requests[o].key IN
       k \in broken \/ Dispatching(k)
         \/ \E p \in DOMAIN requests : requests[p].key = k /\ Attempted(k, requests[p].severity)
  /\ \A r \in DOMAIN rows :
       /\ rows[r].status = "PENDING" => rows[r].key \in broken \/ Dispatching(rows[r].key)
       /\ rows[r].status = "SENT" /\ rows[r].channel \in Remote => r \in sent
=============================================================================
