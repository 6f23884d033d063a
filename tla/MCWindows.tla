----------------------------- MODULE MCWindows ------------------------------
(***************************************************************************)
(* The components whose keys in Redis live for a while: four that count    *)
(* over a window of time, and the notification service, which deduplicates *)
(* for a day.  They share no keys, so one run explores them side by side:  *)
(* part says which of them a behaviour runs, the others stay in their      *)
(* initial state.                                                          *)
(***************************************************************************)
EXTENDS RateLimiter, VelocityCounter, ExpiringCounter, StreamProcessor, Notifications, TLC

VARIABLE part

windowsVars == <<rateVars, velocityVars, counterVars, streamVars, noticeVars, part>>

\* Sets whose members are interchangeable; no liveness is checked.
Alike == Permutations(Replicas) \cup Permutations(Alerts)

\* A client with a token, and a probe of the gateway's health.
SomeOrigins ==
  {[path |-> "/transactions", subject |-> "user", forwarded |-> "proxy", host |-> "lb"],
   [path |-> "/health", subject |-> Absent, forwarded |-> Absent, host |-> "probe"]}

WindowsInit ==
  /\ RateInit /\ VelocityInit /\ CounterInit /\ StreamInit /\ NoticeInit
  /\ part \in {"rate_limiter", "velocity", "counter", "stream", "notifications"}
  /\ part # "counter" => use = "incr"

RateStep ==
  /\ part = "rate_limiter" /\ RateNext
  /\ UNCHANGED <<velocityVars, counterVars, streamVars, noticeVars, part>>
VelocityStep ==
  /\ part = "velocity" /\ VelocityNext
  /\ UNCHANGED <<rateVars, counterVars, streamVars, noticeVars, part>>
CounterStep ==
  /\ part = "counter" /\ CounterNext
  /\ UNCHANGED <<rateVars, velocityVars, streamVars, noticeVars, part>>
StreamStep ==
  /\ part = "stream" /\ StreamNext
  /\ UNCHANGED <<rateVars, velocityVars, counterVars, noticeVars, part>>
NoticeStep ==
  /\ part = "notifications" /\ NoticeNext
  /\ UNCHANGED <<rateVars, velocityVars, counterVars, streamVars, part>>

WindowsNext == RateStep \/ VelocityStep \/ CounterStep \/ StreamStep \/ NoticeStep

WindowsSpec == WindowsInit /\ [][WindowsNext]_windowsVars

\* Every component's state is well-typed.
WindowsTypeOK == RateTypeOK /\ VelocityTypeOK /\ CounterTypeOK /\ StreamTypeOK /\ NoticeTypeOK
=============================================================================
