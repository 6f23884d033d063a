-------------------------- MODULE MCFraudConsumer --------------------------
(***************************************************************************)
(* Instances of FraudConsumer for TLC.                                     *)
(***************************************************************************)
EXTENDS FraudConsumer, TLC

\* One group of two workers: revocations and zombies.
OneGroup == [w \in Worker |-> "g1"]

\* A group for every worker.
OwnGroup == [w \in Worker |-> IF w = 1 THEN "g1" ELSE "g2"]

\* Every kind of malformed record, and only those that are not UTF-8.
AnyMalformed == {Garbage, Undecodable}
Undecodables == {Undecodable}
=============================================================================
