--------------------------- MODULE MCRateLimiter ----------------------------
(***************************************************************************)
(* An instance of RateLimiter for TLC.                                     *)
(***************************************************************************)
EXTENDS RateLimiter

\* A client with a token, and a probe of the gateway's health.
SomeOrigins ==
  {[path |-> "/transactions", subject |-> "user", forwarded |-> "proxy", host |-> "lb"],
   [path |-> "/health", subject |-> Absent, forwarded |-> Absent, host |-> "probe"]}
=============================================================================
