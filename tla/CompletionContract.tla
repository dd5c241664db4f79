------------------------- MODULE CompletionContract -------------------------
(***************************************************************************)
(* What completions promise their callers (completion.ts): one request to  *)
(* the provider unless the provider refused it outright, an answer that    *)
(* does not change, and a charge for it at most once.                      *)
(***************************************************************************)
EXTENDS Naturals

CONSTANT Requests

VARIABLES
  state,    \* what the record says
  pending,  \* how many requests were sent that the provider did not refuse outright
  charged   \* how often usage was recorded

vars == <<state, pending, charged>>

Open == {"queued", "running"}
Answers == {"completed", "failed", "cancelled", "indeterminate"}

Init ==
  /\ state = [r \in Requests |-> "none"]
  /\ pending = [r \in Requests |-> 0]
  /\ charged = [r \in Requests |-> 0]

Becomes(r, s) == state' = [state EXCEPT ![r] = s]

Submit(r) == state[r] = "none" /\ Becomes(r, "queued") /\ UNCHANGED <<pending, charged>>

Claim(r) == state[r] = "queued" /\ Becomes(r, "running") /\ UNCHANGED <<pending, charged>>

\* A caller may cancel while a request is being sent.
Send(r) ==
  /\ state[r] \in {"running", "cancelled"} /\ pending[r] = 0
  /\ pending' = [pending EXCEPT ![r] = 1]
  /\ UNCHANGED <<state, charged>>

\* A request refused outright goes back to the queue, of itself or when its
\* caller asks; or the refusal is its answer.
Refused(r) ==
  /\ \/ state[r] = "running" /\ \E s \in {"queued", "failed"} : Becomes(r, s)
     \/ state[r] = "failed" /\ Becomes(r, "queued")
     \/ state[r] = "cancelled" /\ UNCHANGED state
  /\ pending' = [pending EXCEPT ![r] = 0]
  /\ UNCHANGED charged

\* An answer from the provider is charged, and needs a request.
Completed(r) ==
  /\ state[r] = "running" /\ pending[r] = 1 /\ charged[r] = 0
  /\ Becomes(r, "completed")
  /\ charged' = [charged EXCEPT ![r] = 1]
  /\ UNCHANGED pending

Unsuccessful(r) ==
  /\ state[r] \in Open
  /\ \E s \in Answers \ {"completed"} : Becomes(r, s)
  /\ UNCHANGED <<pending, charged>>

\* What completes after its caller cancelled is charged, and stays cancelled.
CompletedLate(r) ==
  /\ state[r] = "cancelled" /\ pending[r] = 1 /\ charged[r] = 0
  /\ charged' = [charged EXCEPT ![r] = 1]
  /\ UNCHANGED <<state, pending>>

Next ==
  \E r \in Requests :
    Submit(r) \/ Claim(r) \/ Send(r) \/ Refused(r) \/ Completed(r) \/ Unsuccessful(r) \/ CompletedLate(r)

Spec == Init /\ [][Next]_vars
=============================================================================
