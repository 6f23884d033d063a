---------------------------- MODULE LogDelivery ----------------------------
(***************************************************************************)
(* What a consumer group promises about a Kafka partition, without any of  *)
(* its mechanism: every record is settled (handled, skipped, dead-lettered *)
(* or knowingly dropped) before the group's committed offset passes it,    *)
(* and the committed offset never moves back.                              *)
(***************************************************************************)
EXTENDS Naturals

CONSTANT Group      \* consumer groups reading the partition

VARIABLES length,   \* number of records in the partition
          settled,  \* set of <<group, offset>> the group has dealt with
          frontier  \* frontier[g]: offset committed by group g

vars == <<length, settled, frontier>>

Init ==
  /\ length = 0
  /\ settled = {}
  /\ frontier = [g \in Group |-> 0]

Append ==
  /\ length' = length + 1
  /\ UNCHANGED <<settled, frontier>>

Settle(g) ==
  /\ \E o \in 1..length : settled' = settled \cup {<<g, o>>}
  /\ UNCHANGED <<length, frontier>>

Advance(g) ==
  /\ \E n \in frontier[g]..length :
       /\ \A o \in 1..n : <<g, o>> \in settled
       /\ frontier' = [frontier EXCEPT ![g] = n]
  /\ UNCHANGED <<length, settled>>

Next == Append \/ \E g \in Group : Settle(g) \/ Advance(g)

Spec == Init /\ [][Next]_vars
=============================================================================
