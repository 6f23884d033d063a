--------------------------- MODULE VelocityCounter --------------------------
(***************************************************************************)
(* The sliding-window counter of one entity (redis_utils.py).              *)
(* Its sorted set serves every window its callers ask for, and every call  *)
(* prunes it by its own window and its own clock.                          *)
(***************************************************************************)
EXTENDS Integers

CONSTANTS Callers,      \* tasks; each makes one call at a time
          Windows,      \* window_seconds of the calls
          Margin,       \* the key outlives the window of its last event by 60 s
          MaxDelay,     \* socket_timeout: a pipeline executes that soon, or not at all
          MaxTime,      \* bound: seconds explored
          MaxRecorded   \* bound: events recorded

ASSUME VelocityAssumption ==
  /\ Windows \subseteq Nat \ {0} /\ MaxDelay \in Nat
  /\ Margin \in Nat /\ MaxDelay <= Margin
  /\ MaxTime \in Nat /\ MaxRecorded \in Nat

VARIABLES
  second,    \* time.time()
  events,    \* the sorted set: per score, how many members
  deadline,  \* when Redis deletes it
  caller,    \* per caller: the call, its clock, its window and its answer
  recorded,  \* history: per second, the events ever added
  shortest,  \* history: the shortest window of a pipeline executed so far
  newest     \* history: the latest clock of a pipeline executed so far

windowVars == <<events, deadline, recorded, shortest, newest>>
velocityVars == <<second, caller, windowVars>>

Times == 0..MaxTime
Total(bag, from) ==
  LET upto[t \in Times] == (IF t = 0 THEN 0 ELSE upto[t - 1]) + (IF t >= from THEN bag[t] ELSE 0)
  IN upto[MaxTime]

Idle == [op |-> "none", now |-> 0, window |-> 0, count |-> 0]

VelocityTypeOK ==
  /\ second \in Times
  /\ events \in [Times -> 0..MaxRecorded] /\ recorded \in [Times -> 0..MaxRecorded]
  /\ deadline \in Nat /\ newest \in Times
  /\ shortest \in Windows \cup {MaxTime + 1}
  /\ caller \in [Callers -> [op : {"none", "increment", "get_count", "counted"},
                             now : Times, window : Windows \cup {0}, count : 0..MaxRecorded]]

VelocityInit ==
  /\ second = 0
  /\ events = [t \in Times |-> 0] /\ recorded = events
  /\ deadline = 0 /\ newest = 0 /\ shortest = MaxTime + 1
  /\ caller = [c \in Callers |-> Idle]
-----------------------------------------------------------------------------
\* Time passes, no pipeline stays under way longer than MaxDelay, and Redis
\* deletes the keys that are due.
Elapse ==
  /\ second < MaxTime
  /\ \A c \in Callers :
       caller[c].op \in {"increment", "get_count"} => second < caller[c].now + MaxDelay
  /\ second' = second + 1
  /\ events' = IF deadline <= second' THEN [t \in Times |-> 0] ELSE events
  /\ UNCHANGED <<caller, deadline, recorded, shortest, newest>>

\* increment, get_count and check_threshold read the clock and send a pipeline.
Call(c) ==
  /\ caller[c].op \in {"none", "counted"}
  /\ \E op \in {"increment", "get_count"}, w \in Windows :
       caller' = [caller EXCEPT ![c] = [op |-> op, now |-> second, window |-> w, count |-> 0]]
  /\ UNCHANGED <<second, windowVars>>

Prune(bag, cut) == [t \in Times |-> IF t <= cut THEN 0 ELSE bag[t]]

\* What every pipeline leaves behind in the history.
Executed(c) ==
  /\ shortest' = IF caller[c].window < shortest THEN caller[c].window ELSE shortest
  /\ newest' = IF caller[c].now > newest THEN caller[c].now ELSE newest

\* Mutant: the cut includes the whole second after it.
IncrementOffByOne(c) ==
  LET now == caller[c].now
      w   == caller[c].window
      kept == [Prune(events, now - w + 1) EXCEPT ![now] = @ + 1]
  IN
  /\ caller[c].op = "increment" /\ Total(recorded, 0) < MaxRecorded
  /\ events' = kept /\ recorded' = [recorded EXCEPT ![now] = @ + 1]
  /\ deadline' = second + w + Margin
  /\ caller' = [caller EXCEPT ![c].op = "counted", ![c].count = Total(kept, 0)]
  /\ Executed(c)
  /\ UNCHANGED <<second>>

\* Prune, add a member of its own, ZCARD, renew the key.
Increment(c) ==
  LET now == caller[c].now
      w   == caller[c].window
      kept == [Prune(events, now - w) EXCEPT ![now] = @ + 1]
  IN
  /\ caller[c].op = "increment" /\ Total(recorded, 0) < MaxRecorded
  /\ events' = kept /\ recorded' = [recorded EXCEPT ![now] = @ + 1]
  /\ deadline' = second + w + Margin
  /\ caller' = [caller EXCEPT ![c].op = "counted", ![c].count = Total(kept, 0)]
  /\ Executed(c)
  /\ UNCHANGED <<second>>

\* Prune, ZCOUNT; the key is not renewed.
GetCount(c) ==
  LET kept == Prune(events, caller[c].now - caller[c].window) IN
  /\ caller[c].op = "get_count"
  /\ events' = kept
  /\ caller' = [caller EXCEPT ![c].op = "counted", ![c].count = Total(kept, 0)]
  /\ Executed(c)
  /\ UNCHANGED <<second, deadline, recorded>>

\* What check_threshold makes of the count get_count answers.
ThresholdMet(count, threshold) == count >= threshold

\* Redis raises, and the caller gets no count.
CallRaises(c) ==
  /\ caller[c].op \in {"increment", "get_count"}
  /\ caller' = [caller EXCEPT ![c] = Idle]
  /\ UNCHANGED <<second, windowVars>>

VelocityNext ==
  \/ Elapse
  \/ \E c \in Callers : Call(c) \/ Increment(c) \/ GetCount(c) \/ CallRaises(c)

VelocitySpec == VelocityInit /\ [][VelocityNext]_velocityVars
-----------------------------------------------------------------------------
\* A threshold is reached only by as many events recorded after the window's
\* start, and a count misses one only if some call of this entity used a shorter
\* window, or a pipeline with a later clock was executed first: with one window
\* and in order, it is exact.  (A count is compared when it is answered.)
CountsExplained ==
  [][\A c \in Callers :
       caller[c].op \in {"increment", "get_count"} /\ caller'[c].op = "counted" =>
         LET cut  == caller[c].now - caller[c].window
             real == Total(recorded', cut + 1)
         IN /\ \A n \in 1..MaxRecorded : ThresholdMet(caller'[c].count, n) => n <= real
            /\ caller'[c].count < real =>
                 shortest < caller[c].window \/ newest > caller[c].now]_velocityVars
=============================================================================
