------------------------------ MODULE MCShared ------------------------------
(***************************************************************************)
(* What the shared library promises its users, though they crash and their *)
(* messages are lost: the consumers of a group, and the lock.  They share  *)
(* no state, so one run explores them side by side: part says which of     *)
(* them a behaviour runs, and the other stays in its initial state.        *)
(***************************************************************************)
EXTENDS MCFraudConsumer, DistributedLock

VARIABLE part

sharedVars == <<vars, lockVars, part>>

SharedInit == Init /\ LockInit /\ part \in {"consumers", "lock"}

ConsumerStep == part = "consumers" /\ Next /\ UNCHANGED <<lockVars, part>>
LockStep == part = "lock" /\ LockNext /\ UNCHANGED <<vars, part>>

\* The fairness of the part that runs.
SharedFairness ==
  /\ \A w \in Worker : /\ WF_vars(part = "consumers" /\ Loop(w))
                       /\ WF_vars(part = "consumers" /\ Start(w))
                       /\ WF_vars(part = "consumers" /\ Unowned(w) /\ Assign(w))
  /\ WF_lockVars(part = "lock" /\ Tick)

SharedSpec == SharedInit /\ [][ConsumerStep \/ LockStep]_sharedVars /\ SharedFairness
=============================================================================
