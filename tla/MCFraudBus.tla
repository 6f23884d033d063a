---------------------------- MODULE MCFraudBus -----------------------------
(***************************************************************************)
(* Instances of FraudBus for TLC.                                          *)
(***************************************************************************)
EXTENDS FraudBus, TLC

OneGroup == [w \in Worker |-> "g1"]

\* A record that is caught as malformed, and one that ends the loop.
SomeMalformed == {Garbage, Undecodable}
=============================================================================
