----------------------- MODULE DistributedLockProofs -----------------------
(***************************************************************************)
(* Proof that DistributedLock never lets two clients rely on the lock at   *)
(* the same time, for any number of clients, any TTL and any network.      *)
(***************************************************************************)
EXTENDS DistributedLock, TLAPS

\* Every token belongs to one client: the one that generated it.
TokenInv ==
  /\ \A c, d \in Client :
       /\ c # d /\ lockToken[c] # None =>
            lockToken[c] # lockToken[d] /\ lockToken[c] # trial[d]
       /\ c # d /\ trial[c] # None => trial[c] # trial[d]
  /\ \A c \in Client : trial[c] # None => trial[c] # lockToken[c]
  /\ \A m \in network : \A c \in Client :
       c # m.client => m.token # lockToken[c] /\ m.token # trial[c]

\* What the awaits of a client say of its other variables.
CallInv ==
  \A c \in Client :
    /\ inside[c] => lockToken[c] # None
    /\ call[c] \in {"set", "sleep"} => trial[c] # None /\ ~inside[c]
    /\ call[c] = "extend" => inside[c]
    /\ call[c] = "release" => ~inside[c]
    /\ lease[c] > 0 => inside[c]
    /\ reply[c] # "none" => call[c] \in Awaiting

\* A release on its way is not for the lock its client relies on, or may be
\* about to get; a live command is the one its client waits for.
NetworkInv ==
  \A m \in network :
    /\ m.op = "release" =>
         /\ inside[m.client] => m.token # lockToken[m.client]
         /\ m.token # trial[m.client]
    /\ m.live =>
         /\ call[m.client] = m.op
         /\ reply[m.client] = "none"
         /\ m.token = IF m.op = "set" THEN trial[m.client]
                                      ELSE lockToken[m.client]

\* Redis holds the token of a client that relies on the lock for at least as
\* long, and likewise when its answer is still on its way.
LeaseInv ==
  \A c \in Client : lease[c] > 0 => key = lockToken[c] /\ lease[c] <= left

AnswerInv ==
  \A c \in Client :
    reply[c] = "yes" /\ age[c] < Ttl =>
      /\ call[c] = "set" => key = trial[c] /\ Ttl - age[c] <= left
      /\ call[c] = "extend" => key = lockToken[c] /\ Ttl - age[c] <= left

LockInv ==
  LockTypeOK /\ TokenInv /\ CallInv /\ NetworkInv /\ LeaseInv /\ AnswerInv

\* Nobody relies on the lock when the clients start.
LEMMA InitLockInv == LockInit => LockInv
BY LockAssumption
   DEF LockInit, LockInv, LockTypeOK, TokenInv, CallInv, NetworkInv, LeaseInv,
       AnswerInv, Call

\* A command that is sent is well-formed, and is the only new one.
LEMMA SendCommand ==
  ASSUME LockTypeOK, NEW c \in Client, NEW op \in Awaiting, NEW t \in Token,
         Send(c, op, t)
  PROVE  network' \in SUBSET Command
<1>1. [client |-> c, op |-> op, token |-> t, live |-> TRUE] \in Command
  BY DEF Command
<1> QED BY <1>1 DEF Send, LockTypeOK

\* Commands nobody waits for any more are still well-formed.
LEMMA AbandonCommands ==
  ASSUME LockTypeOK, NEW c \in Client, Abandon(c)
  PROVE  network' \in SUBSET Command
<1>1. ASSUME NEW m \in Command PROVE [m EXCEPT !.live = FALSE] \in Command
  BY DEF Command
<1> QED BY <1>1 DEF Abandon, LockTypeOK

\* What a client does, from sending a command to reading its answer.
LEMMA ClientStepInv ==
  ASSUME LockInv, NEW c \in Client, ClientStep(c)
  PROVE  LockInv'
<1> USE LockAssumption DEF redis, local
<1>1. CASE Acquire(c)
  <2>1. LockTypeOK'
    <3>1. network' \in SUBSET Command
      BY <1>1, SendCommand DEF Acquire, LockInv, Awaiting
    <3> QED BY <1>1, <3>1 DEF Acquire, Send, Fresh, LockInv, LockTypeOK, Call, Command, Awaiting
  <2>2. TokenInv'
    BY <1>1 DEF Acquire, Send, Fresh, LockInv, LockTypeOK, TokenInv, Call, Command, Awaiting
  <2>3. CallInv'
    BY <1>1 DEF Acquire, Send, Fresh, LockInv, LockTypeOK, CallInv, Call, Command, Awaiting
  <2>4. NetworkInv'
    BY <1>1 DEF Acquire, Send, Fresh, LockInv, LockTypeOK, TokenInv, CallInv, NetworkInv, Call, Command, Awaiting
  <2>5. LeaseInv'
    BY <1>1 DEF Acquire, Send, Fresh, LockInv, LockTypeOK, TokenInv, CallInv, NetworkInv, LeaseInv, AnswerInv, Call, Command, Awaiting
  <2>6. AnswerInv'
    BY <1>1 DEF Acquire, Send, Fresh, LockInv, LockTypeOK, TokenInv, CallInv, NetworkInv, LeaseInv, AnswerInv, Call, Command, Awaiting
  <2> QED BY <2>1, <2>2, <2>3, <2>4, <2>5, <2>6 DEF LockInv
<1>2. CASE Acquired(c)
  <2>1. LockTypeOK'
    BY <1>2 DEF Acquired, Answered, StopWaiting, LockInv, LockTypeOK, Call, Command, Awaiting
  <2>2. TokenInv'
    BY <1>2 DEF Acquired, Answered, StopWaiting, LockInv, LockTypeOK, TokenInv, Call, Command, Awaiting
  <2>3. CallInv'
    BY <1>2 DEF Acquired, Answered, StopWaiting, LockInv, LockTypeOK, CallInv, Call, Command, Awaiting
  <2>4. NetworkInv'
    BY <1>2 DEF Acquired, Answered, StopWaiting, LockInv, LockTypeOK, TokenInv, CallInv, NetworkInv, Call, Command, Awaiting
  <2>5. LeaseInv'
    BY <1>2 DEF Acquired, Answered, StopWaiting, LockInv, LockTypeOK, TokenInv, CallInv, NetworkInv, LeaseInv, AnswerInv, Call, Command, Awaiting
  <2>6. AnswerInv'
    BY <1>2 DEF Acquired, Answered, StopWaiting, LockInv, LockTypeOK, TokenInv, CallInv, NetworkInv, LeaseInv, AnswerInv, Call, Command, Awaiting
  <2> QED BY <2>1, <2>2, <2>3, <2>4, <2>5, <2>6 DEF LockInv
<1>3. CASE Refused(c)
  <2>1. LockTypeOK'
    BY <1>3 DEF Refused, Answered, StopWaiting, LockInv, LockTypeOK, Call, Command, Awaiting
  <2>2. TokenInv'
    BY <1>3 DEF Refused, Answered, StopWaiting, LockInv, LockTypeOK, TokenInv, Call, Command, Awaiting
  <2>3. CallInv'
    BY <1>3 DEF Refused, Answered, StopWaiting, LockInv, LockTypeOK, CallInv, Call, Command, Awaiting
  <2>4. NetworkInv'
    BY <1>3 DEF Refused, Answered, StopWaiting, LockInv, LockTypeOK, TokenInv, CallInv, NetworkInv, Call, Command, Awaiting
  <2>5. LeaseInv'
    BY <1>3 DEF Refused, Answered, StopWaiting, LockInv, LockTypeOK, TokenInv, CallInv, NetworkInv, LeaseInv, AnswerInv, Call, Command, Awaiting
  <2>6. AnswerInv'
    BY <1>3 DEF Refused, Answered, StopWaiting, LockInv, LockTypeOK, TokenInv, CallInv, NetworkInv, LeaseInv, AnswerInv, Call, Command, Awaiting
  <2> QED BY <2>1, <2>2, <2>3, <2>4, <2>5, <2>6 DEF LockInv
<1>4. CASE Retry(c)
  <2>1. LockTypeOK'
    <3>1. trial[c] \in Token
      BY <1>4 DEF Retry, LockInv, LockTypeOK, CallInv
    <3>2. network' \in SUBSET Command
      BY <1>4, <3>1, SendCommand DEF Retry, LockInv, Awaiting
    <3> QED BY <1>4, <3>2 DEF Retry, Send, LockInv, LockTypeOK, Call, Command, Awaiting
  <2>2. TokenInv'
    BY <1>4 DEF Retry, Send, LockInv, LockTypeOK, TokenInv, Call, Command, Awaiting, CallInv
  <2>3. CallInv'
    BY <1>4 DEF Retry, Send, LockInv, LockTypeOK, CallInv, Call, Command, Awaiting
  <2>4. NetworkInv'
    BY <1>4 DEF Retry, Send, LockInv, LockTypeOK, TokenInv, CallInv, NetworkInv, Call, Command, Awaiting
  <2>5. LeaseInv'
    BY <1>4 DEF Retry, Send, LockInv, LockTypeOK, TokenInv, CallInv, NetworkInv, LeaseInv, AnswerInv, Call, Command, Awaiting
  <2>6. AnswerInv'
    BY <1>4 DEF Retry, Send, LockInv, LockTypeOK, TokenInv, CallInv, NetworkInv, LeaseInv, AnswerInv, Call, Command, Awaiting
  <2> QED BY <2>1, <2>2, <2>3, <2>4, <2>5, <2>6 DEF LockInv
<1>5. CASE GiveUp(c)
  <2>1. LockTypeOK'
    BY <1>5 DEF GiveUp, StopWaiting, LockInv, LockTypeOK, Call, Command, Awaiting
  <2>2. TokenInv'
    BY <1>5 DEF GiveUp, StopWaiting, LockInv, LockTypeOK, TokenInv, Call, Command, Awaiting
  <2>3. CallInv'
    BY <1>5 DEF GiveUp, StopWaiting, LockInv, LockTypeOK, CallInv, Call, Command, Awaiting
  <2>4. NetworkInv'
    BY <1>5 DEF GiveUp, StopWaiting, LockInv, LockTypeOK, TokenInv, CallInv, NetworkInv, Call, Command, Awaiting
  <2>5. LeaseInv'
    BY <1>5 DEF GiveUp, StopWaiting, LockInv, LockTypeOK, TokenInv, CallInv, NetworkInv, LeaseInv, AnswerInv, Call, Command, Awaiting
  <2>6. AnswerInv'
    BY <1>5 DEF GiveUp, StopWaiting, LockInv, LockTypeOK, TokenInv, CallInv, NetworkInv, LeaseInv, AnswerInv, Call, Command, Awaiting
  <2> QED BY <2>1, <2>2, <2>3, <2>4, <2>5, <2>6 DEF LockInv
<1>6. CASE Release(c)
  <2>1. LockTypeOK'
    <3>1. lockToken[c] \in Token
      BY <1>6 DEF Release, LockInv, LockTypeOK, CallInv
    <3>2. network' \in SUBSET Command
      BY <1>6, <3>1, SendCommand DEF Release, LockInv, Awaiting
    <3> QED BY <1>6, <3>2 DEF Release, Send, LockInv, LockTypeOK, Call, Command, Awaiting
  <2>2. TokenInv'
    BY <1>6 DEF Release, Send, LockInv, LockTypeOK, TokenInv, Call, Command, Awaiting, CallInv
  <2>3. CallInv'
    BY <1>6 DEF Release, Send, LockInv, LockTypeOK, CallInv, Call, Command, Awaiting
  <2>4. NetworkInv'
    BY <1>6 DEF Release, Send, LockInv, LockTypeOK, TokenInv, CallInv, NetworkInv, Call, Command, Awaiting
  <2>5. LeaseInv'
    BY <1>6 DEF Release, Send, LockInv, LockTypeOK, TokenInv, CallInv, NetworkInv, LeaseInv, AnswerInv, Call, Command, Awaiting
  <2>6. AnswerInv'
    BY <1>6 DEF Release, Send, LockInv, LockTypeOK, TokenInv, CallInv, NetworkInv, LeaseInv, AnswerInv, Call, Command, Awaiting
  <2> QED BY <2>1, <2>2, <2>3, <2>4, <2>5, <2>6 DEF LockInv
<1>7. CASE Released(c)
  <2>1. LockTypeOK'
    BY <1>7 DEF Released, Answered, StopWaiting, LockInv, LockTypeOK, Call, Command, Awaiting
  <2>2. TokenInv'
    BY <1>7 DEF Released, Answered, StopWaiting, LockInv, LockTypeOK, TokenInv, Call, Command, Awaiting
  <2>3. CallInv'
    BY <1>7 DEF Released, Answered, StopWaiting, LockInv, LockTypeOK, CallInv, Call, Command, Awaiting
  <2>4. NetworkInv'
    BY <1>7 DEF Released, Answered, StopWaiting, LockInv, LockTypeOK, TokenInv, CallInv, NetworkInv, Call, Command, Awaiting
  <2>5. LeaseInv'
    BY <1>7 DEF Released, Answered, StopWaiting, LockInv, LockTypeOK, TokenInv, CallInv, NetworkInv, LeaseInv, AnswerInv, Call, Command, Awaiting
  <2>6. AnswerInv'
    BY <1>7 DEF Released, Answered, StopWaiting, LockInv, LockTypeOK, TokenInv, CallInv, NetworkInv, LeaseInv, AnswerInv, Call, Command, Awaiting
  <2> QED BY <2>1, <2>2, <2>3, <2>4, <2>5, <2>6 DEF LockInv
<1>8. CASE Extend(c)
  <2>1. LockTypeOK'
    <3>1. lockToken[c] \in Token
      BY <1>8 DEF Extend, LockInv, LockTypeOK, CallInv
    <3>2. network' \in SUBSET Command
      BY <1>8, <3>1, SendCommand DEF Extend, LockInv, Awaiting
    <3> QED BY <1>8, <3>2 DEF Extend, Send, LockInv, LockTypeOK, Call, Command, Awaiting
  <2>2. TokenInv'
    BY <1>8 DEF Extend, Send, LockInv, LockTypeOK, TokenInv, Call, Command, Awaiting, CallInv
  <2>3. CallInv'
    BY <1>8 DEF Extend, Send, LockInv, LockTypeOK, CallInv, Call, Command, Awaiting
  <2>4. NetworkInv'
    BY <1>8 DEF Extend, Send, LockInv, LockTypeOK, TokenInv, CallInv, NetworkInv, Call, Command, Awaiting
  <2>5. LeaseInv'
    BY <1>8 DEF Extend, Send, LockInv, LockTypeOK, TokenInv, CallInv, NetworkInv, LeaseInv, AnswerInv, Call, Command, Awaiting
  <2>6. AnswerInv'
    BY <1>8 DEF Extend, Send, LockInv, LockTypeOK, TokenInv, CallInv, NetworkInv, LeaseInv, AnswerInv, Call, Command, Awaiting
  <2> QED BY <2>1, <2>2, <2>3, <2>4, <2>5, <2>6 DEF LockInv
<1>9. CASE Extended(c)
  <2>1. LockTypeOK'
    BY <1>9 DEF Extended, Answered, StopWaiting, LockInv, LockTypeOK, Call, Command, Awaiting
  <2>2. TokenInv'
    BY <1>9 DEF Extended, Answered, StopWaiting, LockInv, LockTypeOK, TokenInv, Call, Command, Awaiting
  <2>3. CallInv'
    BY <1>9 DEF Extended, Answered, StopWaiting, LockInv, LockTypeOK, CallInv, Call, Command, Awaiting
  <2>4. NetworkInv'
    BY <1>9 DEF Extended, Answered, StopWaiting, LockInv, LockTypeOK, TokenInv, CallInv, NetworkInv, Call, Command, Awaiting
  <2>5. LeaseInv'
    BY <1>9 DEF Extended, Answered, StopWaiting, LockInv, LockTypeOK, TokenInv, CallInv, NetworkInv, LeaseInv, AnswerInv, Call, Command, Awaiting
  <2>6. AnswerInv'
    BY <1>9 DEF Extended, Answered, StopWaiting, LockInv, LockTypeOK, TokenInv, CallInv, NetworkInv, LeaseInv, AnswerInv, Call, Command, Awaiting
  <2> QED BY <2>1, <2>2, <2>3, <2>4, <2>5, <2>6 DEF LockInv
<1>10. CASE Raise(c)
  <2>1. LockTypeOK'
    <3>1. network' \in SUBSET Command
      BY <1>10, AbandonCommands DEF Raise, LockInv
    <3> QED BY <1>10, <3>1 DEF Raise, Abandon, StopWaiting, LockInv, LockTypeOK, Call, Command, Awaiting
  <2>2. TokenInv'
    BY <1>10 DEF Raise, Abandon, StopWaiting, LockInv, LockTypeOK, TokenInv, Call, Command, Awaiting
  <2>3. CallInv'
    BY <1>10 DEF Raise, Abandon, StopWaiting, LockInv, LockTypeOK, CallInv, Call, Command, Awaiting
  <2>4. NetworkInv'
    BY <1>10 DEF Raise, Abandon, StopWaiting, LockInv, LockTypeOK, TokenInv, CallInv, NetworkInv, Call, Command, Awaiting
  <2>5. LeaseInv'
    BY <1>10 DEF Raise, Abandon, StopWaiting, LockInv, LockTypeOK, TokenInv, CallInv, NetworkInv, LeaseInv, AnswerInv, Call, Command, Awaiting
  <2>6. AnswerInv'
    BY <1>10 DEF Raise, Abandon, StopWaiting, LockInv, LockTypeOK, TokenInv, CallInv, NetworkInv, LeaseInv, AnswerInv, Call, Command, Awaiting
  <2> QED BY <2>1, <2>2, <2>3, <2>4, <2>5, <2>6 DEF LockInv
<1>11. CASE Die(c)
  <2>1. LockTypeOK'
    <3>1. network' \in SUBSET Command
      BY <1>11, AbandonCommands DEF Die, LockInv
    <3> QED BY <1>11, <3>1 DEF Die, Abandon, StopWaiting, LockInv, LockTypeOK, Call, Command, Awaiting
  <2>2. TokenInv'
    BY <1>11 DEF Die, Abandon, StopWaiting, LockInv, LockTypeOK, TokenInv, Call, Command, Awaiting
  <2>3. CallInv'
    BY <1>11 DEF Die, Abandon, StopWaiting, LockInv, LockTypeOK, CallInv, Call, Command, Awaiting
  <2>4. NetworkInv'
    BY <1>11 DEF Die, Abandon, StopWaiting, LockInv, LockTypeOK, TokenInv, CallInv, NetworkInv, Call, Command, Awaiting
  <2>5. LeaseInv'
    BY <1>11 DEF Die, Abandon, StopWaiting, LockInv, LockTypeOK, TokenInv, CallInv, NetworkInv, LeaseInv, AnswerInv, Call, Command, Awaiting
  <2>6. AnswerInv'
    BY <1>11 DEF Die, Abandon, StopWaiting, LockInv, LockTypeOK, TokenInv, CallInv, NetworkInv, LeaseInv, AnswerInv, Call, Command, Awaiting
  <2> QED BY <2>1, <2>2, <2>3, <2>4, <2>5, <2>6 DEF LockInv
<1> QED BY <1>1, <1>2, <1>3, <1>4, <1>5, <1>6, <1>7, <1>8, <1>9, <1>10, <1>11 DEF ClientStep

\* What Redis does when a command reaches it.
LEMMA RedisStepInv ==
  ASSUME LockInv, NEW m \in network, RedisStep(m)
  PROVE  LockInv'
<1> USE LockAssumption DEF redis, local
<1>1. CASE SetArrives(m)
  <2>1. LockTypeOK'
    BY <1>1 DEF SetArrives, Answer, LockInv, LockTypeOK, Call, Command, Awaiting
  <2>2. TokenInv'
    BY <1>1 DEF SetArrives, Answer, LockInv, LockTypeOK, TokenInv, Call, Command, Awaiting
  <2>3. CallInv'
    BY <1>1 DEF SetArrives, Answer, LockInv, LockTypeOK, CallInv, Call, Command, Awaiting, NetworkInv
  <2>4. NetworkInv'
    BY <1>1 DEF SetArrives, Answer, LockInv, LockTypeOK, TokenInv, CallInv, NetworkInv, Call, Command, Awaiting
  <2>5. LeaseInv'
    BY <1>1 DEF SetArrives, Answer, LockInv, LockTypeOK, TokenInv, CallInv, NetworkInv, LeaseInv, AnswerInv, Call, Command, Awaiting
  <2>6. AnswerInv'
    BY <1>1 DEF SetArrives, Answer, LockInv, LockTypeOK, TokenInv, CallInv, NetworkInv, LeaseInv, AnswerInv, Call, Command, Awaiting
  <2> QED BY <2>1, <2>2, <2>3, <2>4, <2>5, <2>6 DEF LockInv
<1>2. CASE ReleaseArrives(m)
  <2>1. LockTypeOK'
    BY <1>2 DEF ReleaseArrives, Answer, LockInv, LockTypeOK, Call, Command, Awaiting
  <2>2. TokenInv'
    BY <1>2 DEF ReleaseArrives, Answer, LockInv, LockTypeOK, TokenInv, Call, Command, Awaiting
  <2>3. CallInv'
    BY <1>2 DEF ReleaseArrives, Answer, LockInv, LockTypeOK, CallInv, Call, Command, Awaiting, NetworkInv
  <2>4. NetworkInv'
    BY <1>2 DEF ReleaseArrives, Answer, LockInv, LockTypeOK, TokenInv, CallInv, NetworkInv, Call, Command, Awaiting
  <2>5. LeaseInv'
    BY <1>2 DEF ReleaseArrives, Answer, LockInv, LockTypeOK, TokenInv, CallInv, NetworkInv, LeaseInv, AnswerInv, Call, Command, Awaiting
  <2>6. AnswerInv'
    BY <1>2 DEF ReleaseArrives, Answer, LockInv, LockTypeOK, TokenInv, CallInv, NetworkInv, LeaseInv, AnswerInv, Call, Command, Awaiting
  <2> QED BY <2>1, <2>2, <2>3, <2>4, <2>5, <2>6 DEF LockInv
<1>3. CASE ExtendArrives(m)
  <2>1. LockTypeOK'
    BY <1>3 DEF ExtendArrives, Answer, LockInv, LockTypeOK, Call, Command, Awaiting
  <2>2. TokenInv'
    BY <1>3 DEF ExtendArrives, Answer, LockInv, LockTypeOK, TokenInv, Call, Command, Awaiting
  <2>3. CallInv'
    BY <1>3 DEF ExtendArrives, Answer, LockInv, LockTypeOK, CallInv, Call, Command, Awaiting, NetworkInv
  <2>4. NetworkInv'
    BY <1>3 DEF ExtendArrives, Answer, LockInv, LockTypeOK, TokenInv, CallInv, NetworkInv, Call, Command, Awaiting
  <2>5. LeaseInv'
    BY <1>3 DEF ExtendArrives, Answer, LockInv, LockTypeOK, TokenInv, CallInv, NetworkInv, LeaseInv, AnswerInv, Call, Command, Awaiting
  <2>6. AnswerInv'
    BY <1>3 DEF ExtendArrives, Answer, LockInv, LockTypeOK, TokenInv, CallInv, NetworkInv, LeaseInv, AnswerInv, Call, Command, Awaiting
  <2> QED BY <2>1, <2>2, <2>3, <2>4, <2>5, <2>6 DEF LockInv
<1>4. CASE Lose(m)
  <2>1. LockTypeOK'
    BY <1>4 DEF Lose, local, LockInv, LockTypeOK, Call, Command, Awaiting
  <2>2. TokenInv'
    BY <1>4 DEF Lose, local, LockInv, LockTypeOK, TokenInv, Call, Command, Awaiting
  <2>3. CallInv'
    BY <1>4 DEF Lose, local, LockInv, LockTypeOK, CallInv, Call, Command, Awaiting
  <2>4. NetworkInv'
    BY <1>4 DEF Lose, local, LockInv, LockTypeOK, TokenInv, CallInv, NetworkInv, Call, Command, Awaiting
  <2>5. LeaseInv'
    BY <1>4 DEF Lose, local, LockInv, LockTypeOK, TokenInv, CallInv, NetworkInv, LeaseInv, AnswerInv, Call, Command, Awaiting
  <2>6. AnswerInv'
    BY <1>4 DEF Lose, local, LockInv, LockTypeOK, TokenInv, CallInv, NetworkInv, LeaseInv, AnswerInv, Call, Command, Awaiting
  <2> QED BY <2>1, <2>2, <2>3, <2>4, <2>5, <2>6 DEF LockInv
<1> QED BY <1>1, <1>2, <1>3, <1>4 DEF RedisStep

\* Time shortens the TTL and the leases alike.
LEMMA TickInv == LockInv /\ Tick => LockInv'
<1> SUFFICES ASSUME LockInv, Tick PROVE LockInv'
  OBVIOUS
<1> USE LockAssumption DEF Tick
<1>1. LockTypeOK'
  BY DEF LockInv, LockTypeOK, Call, Command, Awaiting
<1>2. TokenInv'
  BY DEF LockInv, LockTypeOK, TokenInv, Call, Command, Awaiting
<1>3. CallInv'
  BY DEF LockInv, LockTypeOK, CallInv, Call, Command, Awaiting
<1>4. NetworkInv'
  BY DEF LockInv, LockTypeOK, TokenInv, CallInv, NetworkInv, Call, Command, Awaiting
<1>5. LeaseInv'
  BY DEF LockInv, LockTypeOK, TokenInv, CallInv, NetworkInv, LeaseInv, AnswerInv, Call, Command, Awaiting
<1>6. AnswerInv'
  BY DEF LockInv, LockTypeOK, TokenInv, CallInv, NetworkInv, LeaseInv, AnswerInv, Call, Command, Awaiting
<1> QED BY <1>1, <1>2, <1>3, <1>4, <1>5, <1>6 DEF LockInv

\* LockInv is inductive.
LEMMA LockInvStep == LockInv /\ [LockNext]_lockVars => LockInv'
<1>1. LockInv /\ UNCHANGED lockVars => LockInv'
  BY DEF LockInv, LockTypeOK, TokenInv, CallInv, NetworkInv, LeaseInv,
         AnswerInv, lockVars, redis, local
<1> QED BY <1>1, ClientStepInv, RedisStepInv, TickInv DEF LockNext

\* The types of DistributedLock are preserved by every step.
THEOREM LockTypeCorrect == LockSpec => []LockTypeOK
<1>1. LockInv => LockTypeOK
  BY DEF LockInv
<1> QED BY <1>1, InitLockInv, LockInvStep, PTL DEF LockSpec

\* Two clients never rely on the lock at the same time, whatever is delayed,
\* lost, cancelled or crashes.
THEOREM LockExclusion == LockSpec => []LeaseExclusion
<1>1. LockInv => LeaseExclusion
  BY DEF LockInv, TokenInv, CallInv, LeaseInv, LeaseExclusion
<1> QED BY <1>1, InitLockInv, LockInvStep, PTL DEF LockSpec
=============================================================================
