--------------------------- MODULE ExpiringCounter --------------------------
(***************************************************************************)
(* A counter that is one Redis key: INCR, and EXPIRE if the value is 1.    *)
(* The rule engine's check_velocity keeps one per card or customer, shared *)
(* by all the rules about it; RedisClient.incr offers the same to any      *)
(* service, with an optional ttl.                                          *)
(***************************************************************************)
EXTENDS Integers

CONSTANTS Users,      \* tasks that increment the key
          Spans,      \* window_seconds of the rules, or ttl
          Allowed,    \* limit of the rules
          MaxSecond,  \* bound: seconds explored
          MaxIncr     \* bound: increments

ASSUME CounterAssumption ==
  /\ Spans \subseteq Nat \ {0} /\ Allowed \in Nat
  /\ MaxSecond \in Nat /\ MaxIncr \in Nat

NoTTL == 0
Seconds == 0..MaxSecond

VARIABLES
  use,       \* who uses the key: "check_velocity" or "incr"
  instant,   \* Redis' clock
  value,     \* of the key, 0 if there is none
  expires,   \* when Redis deletes it, NoTTL if never
  user,      \* per task: where it is, its window, when it incremented, what it got
  counted,   \* history: increments per second
  longest,   \* history: the longest window an EXPIRE has set
  untimely   \* history: an EXPIRE failed, was not sent in its INCR's second, or had no ttl

counterVars == <<use, instant, value, expires, user, counted, longest, untimely>>

Free == [at |-> "idle", span |-> NoTTL, since |-> 0, got |-> 0]

Counted(from) ==
  LET upto[t \in Seconds] ==
        (IF t = 0 THEN 0 ELSE upto[t - 1]) + (IF t >= from THEN counted[t] ELSE 0)
  IN upto[MaxSecond]

CounterTypeOK ==
  /\ use \in {"check_velocity", "incr"}
  /\ instant \in Seconds
  /\ value \in 0..MaxIncr
  /\ expires \in Nat
  /\ user \in [Users -> [at : {"idle", "expire", "answered"}, span : Spans \cup {NoTTL},
                         since : Seconds, got : 0..MaxIncr]]
  /\ counted \in [Seconds -> 0..MaxIncr]
  /\ longest \in Spans \cup {0} /\ untimely \in BOOLEAN

CounterInit ==
  /\ use \in {"check_velocity", "incr"}
  /\ instant = 0 /\ value = 0 /\ expires = NoTTL
  /\ user = [u \in Users |-> Free]
  /\ counted = [t \in Seconds |-> 0]
  /\ longest = 0 /\ untimely = FALSE
-----------------------------------------------------------------------------
Strike ==
  /\ instant < MaxSecond
  /\ instant' = instant + 1
  /\ IF expires # NoTTL /\ expires <= instant' THEN value' = 0 /\ expires' = NoTTL
                                               ELSE UNCHANGED <<value, expires>>
  /\ untimely' = (untimely \/ \E u \in Users : user[u].at = "expire")
  /\ UNCHANGED <<use, user, counted, longest>>

\* INCR is answered; the value 1 makes the caller set the expiry.
IncrWith(u, span, waits) ==
  /\ user[u].at # "expire" /\ Counted(0) < MaxIncr
  /\ value' = value + 1
  /\ counted' = [counted EXCEPT ![instant] = @ + 1]
  /\ user' = [user EXCEPT ![u] = [at |-> IF waits THEN "expire" ELSE "answered", span |-> span,
                                  since |-> instant, got |-> value']]
  /\ UNCHANGED <<use, instant, expires, longest>>

\* check_velocity for a rule's window.
CheckVelocity(u) ==
  /\ use = "check_velocity"
  /\ \E w \in Spans : IncrWith(u, w, value = 0)
  /\ UNCHANGED untimely

\* RedisClient.incr, with a ttl or without one.
Incr(u) ==
  /\ use = "incr"
  /\ \/ \E w \in Spans : IncrWith(u, w, value = 0) /\ UNCHANGED untimely
     \/ IncrWith(u, NoTTL, FALSE) /\ untimely' = (untimely \/ value = 0)

\* Mutant: the expiry is renewed by every increment.
SetExpiryAlways(u) ==
  LET w == user[u].span IN
  /\ user[u].at \in {"expire", "answered"} /\ w # NoTTL
  /\ IF value = 0 THEN UNCHANGED <<expires, longest>>
     ELSE expires' = instant + w /\ longest' = IF w > longest THEN w ELSE longest
  /\ user' = [user EXCEPT ![u].at = "answered"]
  /\ UNCHANGED <<use, instant, value, counted, untimely>>

\* EXPIRE: without effect if the key has gone.
SetExpiry(u) ==
  LET w == user[u].span IN
  /\ user[u].at = "expire"
  /\ IF value = 0 THEN UNCHANGED <<expires, longest>>
     ELSE expires' = instant + w /\ longest' = IF w > longest THEN w ELSE longest
  /\ user' = [user EXCEPT ![u].at = "answered"]
  /\ UNCHANGED <<use, instant, value, counted, untimely>>

\* Redis raises, or the process dies, between the two commands.
SetExpiryRaises(u) ==
  /\ user[u].at = "expire"
  /\ user' = [user EXCEPT ![u] = Free]
  /\ untimely' = TRUE
  /\ UNCHANGED <<use, instant, value, expires, counted, longest>>

Exceeded(u) == use = "check_velocity" /\ user[u].at = "answered" /\ user[u].got > Allowed

CounterNext ==
  Strike \/ \E u \in Users : CheckVelocity(u) \/ Incr(u) \/ SetExpiry(u) \/ SetExpiryRaises(u)

CounterSpec == CounterInit /\ [][CounterNext]_counterVars
-----------------------------------------------------------------------------
\* check_velocity says that an entity exceeded a limit only if more than limit
\* increments fell into the rule's window, or another rule about the same entity
\* has a longer window and created the key, or an EXPIRE was late or lost.  In
\* the last case alone a key may have no expiry while nobody is about to set it.
ExceededExplained ==
  /\ \A u \in Users :
       Exceeded(u) =>
         \/ Counted(user[u].since - user[u].span + 1) > Allowed
         \/ longest > user[u].span \/ untimely
  /\ value > 0 /\ expires = NoTTL =>
       untimely \/ \E u \in Users : user[u].at = "expire"
=============================================================================
