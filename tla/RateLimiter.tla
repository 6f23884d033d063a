---------------------------- MODULE RateLimiter -----------------------------
(***************************************************************************)
(* The gateway's sliding window per client (middleware/rate_limiter.py).   *)
(* The clock is read before the pipeline is sent, so pipelines may execute *)
(* in another order than their timestamps, and refused requests stay in    *)
(* the window.  Time is counted in ticks of the clock.  A member of the    *)
(* sorted set is named by its timestamp, so requests of one tick are one   *)
(* member, and count once.                                                 *)
(***************************************************************************)
EXTENDS Integers, FiniteSets

CONSTANTS Calls,      \* requests that reach the middleware
          Origins,    \* what they carry: [path, subject, forwarded, host]
          Limit,      \* rate_limit_per_minute
          Second,     \* ticks in a second
          Window,     \* 60 s, in ticks
          KeySlack,   \* the key outlives the window by 10 s
          MaxClock    \* bound: ticks explored

ASSUME RateAssumption ==
  /\ Origins # {} /\ Limit \in Nat \ {0} /\ Second \in Nat \ {0} /\ Window \in Nat \ {0}
  /\ KeySlack \in Nat /\ MaxClock \in Nat

Absent == "absent"

\* _extract_client_id: the token's subject, else the first forwarded address,
\* else the peer.  A token that does not decode has no subject.
ClientId(o) ==
  IF o.subject # Absent THEN <<"user", o.subject>>
  ELSE IF o.forwarded # Absent THEN <<"ip", o.forwarded>>
  ELSE <<"ip", o.host>>

ClientIds == {ClientId(o) : o \in Origins}

VARIABLES
  clock,     \* time.time(), in ticks
  members,   \* per key, the timestamps in the sorted set
  expiry,    \* per key, when Redis deletes it
  call,      \* per request: where it is, its client and its timestamp
  admitted,  \* history: requests counted and let through
  late,      \* history: those executed after a later timestamp, or KeySlack too late
  resets     \* history: when each client may expect a new window

rateVars == <<clock, members, expiry, call, admitted, late, resets>>

NewCall == [at |-> "new", id |-> CHOOSE i \in ClientIds : TRUE, stamp |-> 0, waited |-> FALSE]

RateTypeOK ==
  /\ clock \in 0..MaxClock
  /\ members \in [ClientIds -> SUBSET (0..MaxClock)]
  /\ expiry \in [ClientIds -> 0..MaxClock + Window + KeySlack]
  /\ call \in [Calls -> [at : {"new", "sent", "passed", "refused"}, id : ClientIds,
                         stamp : 0..MaxClock, waited : BOOLEAN]]
  /\ admitted \subseteq {c \in Calls : call[c].at = "passed"}
  /\ late \subseteq admitted
  /\ resets \in [ClientIds -> 0..MaxClock + Window + Second]

RateInit ==
  /\ clock = 0
  /\ members = [i \in ClientIds |-> {}] /\ expiry = [i \in ClientIds |-> 0]
  /\ call = [c \in Calls |-> NewCall]
  /\ admitted = {} /\ late = {}
  /\ resets = [i \in ClientIds |-> 0]
-----------------------------------------------------------------------------
\* Time passes and expired keys disappear.
Pass ==
  /\ clock < MaxClock
  /\ clock' = clock + 1
  /\ members' = [i \in ClientIds |-> IF expiry[i] <= clock' THEN {} ELSE members[i]]
  /\ UNCHANGED <<expiry, call, admitted, late, resets>>

\* dispatch: health and metrics are exempt; the others read the clock.  The
\* history keeps whether the client had waited as long as it was told to, with
\* no other request of its own since.
Dispatch(c) ==
  /\ call[c].at = "new"
  /\ \E o \in Origins :
       LET i == ClientId(o)
           alone == \A d \in Calls : ~(call[d].at = "sent" /\ call[d].id = i)
       IN IF o.path \in {"/health", "/metrics"}
          THEN call' = [call EXCEPT ![c].at = "passed", ![c].id = i] /\ UNCHANGED resets
          ELSE /\ call' = [call EXCEPT ![c] =
                             [at |-> "sent", id |-> i, stamp |-> clock,
                              waited |-> alone /\ resets[i] \in 1..clock]]
               /\ resets' = [resets EXCEPT ![i] = 0]
  /\ UNCHANGED <<clock, members, expiry, admitted, late>>

\* Redis is not there, or raises before or after it executed the pipeline: the
\* request is let through.
DispatchRaises(c) ==
  LET i == call[c].id IN
  /\ call[c].at = "sent"
  /\ call' = [call EXCEPT ![c].at = "passed"]
  /\ \/ UNCHANGED <<members, expiry>>
     \/ /\ members' = [members EXCEPT ![i] = {s \in @ : s > call[c].stamp - Window}
                                             \cup {call[c].stamp}]
        /\ expiry' = [expiry EXCEPT ![i] = clock + Window + KeySlack]
  /\ UNCHANGED <<clock, admitted, late, resets>>

\* int(window - (now - window_start)) is 0, and max(..., 1) makes it a second.
RetryAfter(stamp) ==
  LET start == stamp - Window
      left == Window - (stamp - start)
  IN IF left > Second THEN left ELSE Second

\* Mutant: the count is taken before the request is added.
CheckLimitFirst(c) ==
  LET i     == call[c].id
      now   == call[c].stamp
      kept  == {s \in members[i] : s > now - Window}
  IN
  /\ call[c].at = "sent"
  /\ members' = [members EXCEPT ![i] = kept \cup {now}]
  /\ expiry' = [expiry EXCEPT ![i] = clock + Window + KeySlack]
  /\ IF Cardinality(kept) > Limit
     THEN /\ call' = [call EXCEPT ![c].at = "refused"]
          /\ resets' = [resets EXCEPT ![i] = clock + RetryAfter(now)]
          /\ UNCHANGED <<admitted, late>>
     ELSE /\ call' = [call EXCEPT ![c].at = "passed"]
          /\ admitted' = admitted \cup {c}
          /\ UNCHANGED <<late, resets>>
  /\ UNCHANGED clock

\* The pipeline executes as one: prune, add, count, renew the key.
CheckRateLimit(c) ==
  LET i     == call[c].id
      now   == call[c].stamp
      kept  == {s \in members[i] : s > now - Window} \cup {now}
  IN
  /\ call[c].at = "sent"
  /\ members' = [members EXCEPT ![i] = kept]
  /\ expiry' = [expiry EXCEPT ![i] = clock + Window + KeySlack]
  /\ IF Cardinality(kept) > Limit
     THEN /\ call' = [call EXCEPT ![c].at = "refused"]
          /\ resets' = [resets EXCEPT ![i] = clock + RetryAfter(now)]
          /\ UNCHANGED <<admitted, late>>
     ELSE /\ call' = [call EXCEPT ![c].at = "passed"]
          /\ admitted' = admitted \cup {c}
          /\ late' = IF clock > now + KeySlack \/ \E s \in kept : s > now
                     THEN late \cup {c} ELSE late
          /\ UNCHANGED resets
  /\ UNCHANGED clock

RateNext == Pass \/ \E c \in Calls : Dispatch(c) \/ DispatchRaises(c) \/ CheckRateLimit(c)

RateSpec == RateInit /\ [][RateNext]_rateVars
-----------------------------------------------------------------------------
Admitted(i, t) ==
  {c \in admitted : call[c].id = i /\ call[c].stamp \in t - Window + 1 .. t}

\* In no window, wherever it ends, are requests of a client of more than Limit
\* different timestamps let through by the count, and so more than Limit requests
\* only if two of them read the same tick, unless the pipeline of one of them
\* executed after that of a request with a later timestamp, or so late that the
\* key could expire in between.
LimitNeedsDelay ==
  \A i \in ClientIds, t \in 0..MaxClock :
    Admitted(i, t) \cap late = {} =>
      /\ Cardinality({call[c].stamp : c \in Admitted(i, t)}) <= Limit
      /\ \/ Cardinality(Admitted(i, t)) <= Limit
         \/ \E c, d \in Admitted(i, t) : c # d /\ call[c].stamp = call[d].stamp

\* "retry_after - seconds until the window resets" (check_rate_limit): a client
\* that waits that long and sends nothing else is let through.
RetryAfterIsEnough ==
  \A c \in Calls : call[c].waited => call[c].at # "refused"
=============================================================================
