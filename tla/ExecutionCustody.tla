-------------------------- MODULE ExecutionCustody --------------------------
(***************************************************************************)
(* What the capacity authority promises, without requests, owners, leases  *)
(* or refusals: an agent has at most one execution at a time, and an       *)
(* execution identity is given custody once and never again.               *)
(***************************************************************************)
CONSTANTS Agents, Executions

VARIABLES
  custody,  \* the <<agent, execution>> pairs in custody
  spent     \* the executions that have ever been in custody

custodyVars == <<custody, spent>>

Exclusive(pairs) ==
  \A p, q \in pairs : p # q => p[1] # q[1] /\ p[2] # q[2]

Init == custody = {} /\ spent = {}

\* One request at a time, or every entry of the census at the cutover.
Grant(pairs) ==
  /\ Exclusive(custody \cup pairs)
  /\ \A p \in pairs : p[2] \notin spent
  /\ custody' = custody \cup pairs
  /\ spent' = spent \cup {p[2] : p \in pairs}

Settle(p) ==
  /\ custody' = custody \ {p}
  /\ UNCHANGED spent

Next ==
  \/ \E pairs \in SUBSET (Agents \X Executions) : Grant(pairs)
  \/ \E p \in custody : Settle(p)

Spec == Init /\ [][Next]_custodyVars
=============================================================================
