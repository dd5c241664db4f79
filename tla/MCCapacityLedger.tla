-------------------------- MODULE MCCapacityLedger --------------------------
(* Instances of CapacityLedger: how identities belong to threads.          *)
EXTENDS CapacityLedger, TLC

CONSTANTS a1, k1, x0, x1, c1

\* One thread with one logical execution, which takes a second identity
\* once the first is released. Two callers: its serial chain and its halt.
Retried == x0 :> k1 @@ x1 :> k1
RetriedThread == k1 :> a1
OneSerial == a1 :> c1

\* The operator's census: this owner's executions, or some of them.
OwnCensuses ==
  SUBSET {[execution |-> e, agent |-> Agent(e), owner |-> Me] : e \in Executions}
=============================================================================
