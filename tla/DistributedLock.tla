-------------------------- MODULE DistributedLock --------------------------
(***************************************************************************)
(* DistributedLock of shared/fraud_common/redis_utils.py: one Redis key    *)
(* that clients set with SET NX EX, release and extend with Lua scripts    *)
(* that compare the token, and lose when its TTL runs out.                 *)
(*                                                                         *)
(* A command leaves the client, reaches Redis and is answered in three     *)
(* steps, with any delay in between.  A call that times out, or is         *)
(* cancelled, raises; its command may be lost or reach Redis much later.   *)
(*                                                                         *)
(* Clients use the lock as its docstring shows: acquire, then a critical   *)
(* section, which may extend the lease, then release.  extend() is called  *)
(* with its default argument.                                              *)
(***************************************************************************)
EXTENDS Naturals, FiniteSets

CONSTANTS Client,      \* DistributedLock instances on one resource
          Token,       \* the values uuid4 may return
          None,        \* no token
          RetryCount,  \* retry_count
          Ttl,         \* ttl_seconds, in units of time
          MaxNetwork   \* bound on the commands in flight at once

ASSUME LockAssumption ==
  /\ None \notin Token
  /\ RetryCount \in Nat \ {0}
  /\ Ttl \in Nat \ {0}

VARIABLES
  key,        \* the token stored under fraud:lock:<resource>, or None
  left,       \* the remaining TTL of the key
  network,    \* commands on their way to Redis
  call,       \* call[c]: the await the client is suspended at
  reply,      \* reply[c]: Redis's answer, not yet received
  trial,      \* trial[c]: the local variable token of acquire
  tries,      \* tries[c]: the attempt of acquire
  lockToken,  \* lockToken[c]: _lock_token
  inside,     \* inside[c]: the client is in its critical section
  age,        \* history: time since the command c waits for was sent
  lease       \* history: how much longer c may rely on the lock

redis == <<key, left>>
local == <<call, reply, trial, tries, lockToken, inside, age, lease>>
lockVars == <<redis, network, local>>

Call == {"none", "set", "sleep", "release", "extend"}
Awaiting == {"set", "release", "extend"}

\* A command is live as long as its client waits for the reply.
Command == [client : Client, op : Awaiting, token : Token, live : BOOLEAN]

LockTypeOK ==
  /\ key \in Token \cup {None}
  /\ left \in 0..Ttl
  /\ network \in SUBSET Command
  /\ call \in [Client -> Call]
  /\ reply \in [Client -> {"none", "yes", "no"}]
  /\ trial \in [Client -> Token \cup {None}]
  /\ tries \in [Client -> 1..RetryCount]
  /\ lockToken \in [Client -> Token \cup {None}]
  /\ inside \in [Client -> BOOLEAN]
  /\ age \in [Client -> 0..Ttl]
  /\ lease \in [Client -> 0..Ttl]

LockInit ==
  /\ key = None
  /\ left = 0
  /\ network = {}
  /\ call = [c \in Client |-> "none"]
  /\ reply = [c \in Client |-> "none"]
  /\ trial = [c \in Client |-> None]
  /\ tries = [c \in Client |-> 1]
  /\ lockToken = [c \in Client |-> None]
  /\ inside = [c \in Client |-> FALSE]
  /\ age = [c \in Client |-> 0]
  /\ lease = [c \in Client |-> 0]
-----------------------------------------------------------------------------
\* uuid4 returns a token that is not in use anywhere.
Fresh(t) ==
  /\ t # key
  /\ \A c \in Client : t # trial[c] /\ t # lockToken[c]
  /\ \A m \in network : t # m.token

Send(c, op, t) ==
  /\ Cardinality(network) < MaxNetwork
  /\ network' = network \cup
       {[client |-> c, op |-> op, token |-> t, live |-> TRUE]}
  /\ call' = [call EXCEPT ![c] = op]
  /\ age' = [age EXCEPT ![c] = 0]

\* The client stops waiting; a call that is not over sleeps before it retries.
StopWaiting(c, label) ==
  /\ call' = [call EXCEPT ![c] = label]
  /\ reply' = [reply EXCEPT ![c] = "none"]
  /\ age' = [age EXCEPT ![c] = 0]

Answered(c, op) == call[c] = op /\ reply[c] # "none"

Acquire(c) ==
  /\ call[c] = "none"
  /\ ~inside[c]
  /\ \E t \in Token :
       /\ Fresh(t)
       /\ trial' = [trial EXCEPT ![c] = t]
       /\ Send(c, "set", t)
  /\ tries' = [tries EXCEPT ![c] = 1]
  /\ UNCHANGED <<redis, reply, lockToken, inside, lease>>

\* SET returned OK.  The TTL started after the command was sent, so the client
\* may count on Ttl less the time it has waited.
Acquired(c) ==
  /\ Answered(c, "set")
  /\ reply[c] = "yes"
  /\ lockToken' = [lockToken EXCEPT ![c] = trial[c]]
  /\ trial' = [trial EXCEPT ![c] = None]
  /\ inside' = [inside EXCEPT ![c] = TRUE]
  /\ lease' = [lease EXCEPT ![c] = Ttl - age[c]]
  /\ tries' = [tries EXCEPT ![c] = 1]
  /\ StopWaiting(c, "none")
  /\ UNCHANGED <<redis, network>>

Refused(c) ==
  /\ Answered(c, "set")
  /\ reply[c] = "no"
  /\ StopWaiting(c, "sleep")
  /\ UNCHANGED <<redis, network, trial, tries, lockToken, inside, lease>>

\* The sleep after an attempt is over: try again, or return False.
Retry(c) ==
  /\ call[c] = "sleep"
  /\ tries[c] < RetryCount
  /\ tries' = [tries EXCEPT ![c] = @ + 1]
  /\ Send(c, "set", trial[c])
  /\ UNCHANGED <<redis, reply, trial, lockToken, inside, lease>>

GiveUp(c) ==
  /\ call[c] = "sleep"
  /\ tries[c] = RetryCount
  /\ tries' = [tries EXCEPT ![c] = 1]
  /\ trial' = [trial EXCEPT ![c] = None]
  /\ StopWaiting(c, "none")
  /\ UNCHANGED <<redis, network, lockToken, inside, lease>>

\* release(), at the end of the critical section.
Release(c) ==
  /\ call[c] = "none"
  /\ inside[c]
  /\ inside' = [inside EXCEPT ![c] = FALSE]
  /\ lease' = [lease EXCEPT ![c] = 0]
  /\ Send(c, "release", lockToken[c])
  /\ UNCHANGED <<redis, reply, trial, tries, lockToken>>

Released(c) ==
  /\ Answered(c, "release")
  /\ lockToken' = [lockToken EXCEPT ![c] = None]
  /\ StopWaiting(c, "none")
  /\ UNCHANGED <<redis, network, trial, tries, inside, lease>>

\* extend(), inside the critical section.
Extend(c) ==
  /\ call[c] = "none"
  /\ inside[c]
  /\ Send(c, "extend", lockToken[c])
  /\ UNCHANGED <<redis, reply, trial, tries, lockToken, inside, lease>>

Extended(c) ==
  /\ Answered(c, "extend")
  /\ lease' = IF reply[c] = "yes" THEN [lease EXCEPT ![c] = Ttl - age[c]]
                                  ELSE lease
  /\ StopWaiting(c, "none")
  /\ UNCHANGED <<redis, network, trial, tries, lockToken, inside>>

\* Nobody waits for c's commands any more.
Abandon(c) ==
  network' = {IF m.client = c THEN [m EXCEPT !.live = FALSE] ELSE m :
              m \in network}

\* RedisError, a timeout or a cancellation escapes the call.
Raise(c) ==
  /\ call[c] # "none"
  /\ Abandon(c)
  /\ StopWaiting(c, "none")
  /\ trial' = [trial EXCEPT ![c] = None]
  /\ tries' = [tries EXCEPT ![c] = 1]
  /\ UNCHANGED <<redis, lockToken, inside, lease>>

Die(c) ==
  /\ call[c] # "none" \/ lockToken[c] # None
  /\ Abandon(c)
  /\ StopWaiting(c, "none")
  /\ trial' = [trial EXCEPT ![c] = None]
  /\ tries' = [tries EXCEPT ![c] = 1]
  /\ lockToken' = [lockToken EXCEPT ![c] = None]
  /\ inside' = [inside EXCEPT ![c] = FALSE]
  /\ lease' = [lease EXCEPT ![c] = 0]
  /\ UNCHANGED redis
-----------------------------------------------------------------------------
\* Redis executes command m atomically and answers its client.

Answer(m, yes) ==
  /\ network' = network \ {m}
  /\ reply' = IF m.live
              THEN [reply EXCEPT ![m.client] = IF yes THEN "yes" ELSE "no"]
              ELSE reply
  /\ UNCHANGED <<call, trial, tries, lockToken, inside, age, lease>>

\* Mutant: SET NX without EX: the key never expires.
SetForever(m) ==
  /\ m.op = "set"
  /\ IF key = None THEN key' = m.token /\ left' = 0 ELSE UNCHANGED redis
  /\ Answer(m, key = None)

\* SET key token EX ttl NX
SetArrives(m) ==
  /\ m.op = "set"
  /\ IF key = None THEN key' = m.token /\ left' = Ttl ELSE UNCHANGED redis
  /\ Answer(m, key = None)

\* Mutant: DEL without comparing the token.
ReleaseAnyone(m) ==
  /\ m.op = "release"
  /\ key' = None /\ left' = 0
  /\ Answer(m, key # None)

\* _RELEASE_SCRIPT
ReleaseArrives(m) ==
  /\ m.op = "release"
  /\ IF key = m.token THEN key' = None /\ left' = 0 ELSE UNCHANGED redis
  /\ Answer(m, key = m.token)

\* Mutant: PEXPIRE with twice the TTL the lock was acquired with.
ExtendTwice(m) ==
  /\ m.op = "extend"
  /\ left' = IF key = m.token THEN 2 * Ttl ELSE left
  /\ UNCHANGED key
  /\ Answer(m, key = m.token)

\* _EXTEND_SCRIPT
ExtendArrives(m) ==
  /\ m.op = "extend"
  /\ left' = IF key = m.token THEN Ttl ELSE left
  /\ UNCHANGED key
  /\ Answer(m, key = m.token)

Lose(m) ==
  /\ ~m.live
  /\ network' = network \ {m}
  /\ UNCHANGED <<redis, local>>

\* A unit of time passes; Redis deletes the key when its TTL is over.
Tick ==
  /\ left' = IF left > 0 THEN left - 1 ELSE 0
  /\ key' = IF left = 1 THEN None ELSE key
  /\ lease' = [c \in Client |-> IF lease[c] > 0 THEN lease[c] - 1 ELSE 0]
  /\ age' = [c \in Client |-> IF call[c] \in Awaiting /\ age[c] < Ttl
                              THEN age[c] + 1 ELSE age[c]]
  /\ UNCHANGED <<network, call, reply, trial, tries, lockToken, inside>>

ClientStep(c) ==
  \/ Acquire(c) \/ Acquired(c) \/ Refused(c) \/ Retry(c) \/ GiveUp(c)
  \/ Release(c) \/ Released(c) \/ Extend(c) \/ Extended(c)
  \/ Raise(c) \/ Die(c)

RedisStep(m) ==
  SetArrives(m) \/ ReleaseArrives(m) \/ ExtendArrives(m) \/ Lose(m)

LockNext ==
  \/ \E c \in Client : ClientStep(c)
  \/ \E m \in network : RedisStep(m)
  \/ Tick

LockSpec == LockInit /\ [][LockNext]_lockVars
-----------------------------------------------------------------------------
\* Two clients never rely on the lock at the same time: as long as a client
\* stops relying on it Ttl after it sent the command that acquired or extended
\* it, no lost reply, late release or late SET of another client takes it
\* away.
LeaseExclusion ==
  \A c, d \in Client : lease[c] > 0 /\ lease[d] > 0 => c = d

\* A key whose owner crashed, or whose SET was answered after the client gave
\* up, is not held for ever: a token no client knows disappears.
Orphan(t) ==
  key = t /\ \A c \in Client : lockToken[c] # t /\ trial[c] # t
OrphanFreed == \A t \in Token : Orphan(t) ~> key # t
=============================================================================
