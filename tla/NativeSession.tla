--------------------------- MODULE NativeSession ---------------------------
(***************************************************************************)
(* One native Pi session as its adapter keeps it (pi-session.ts): the      *)
(* receipts it writes into the session file (pi-input-receipts.ts derives  *)
(* the four sets from them), the work of the current run, the inputs Pi    *)
(* holds and has not put into the conversation, and cancellation           *)
(* (pi-execution.ts), which blocks the session until the run has stopped.  *)
(*                                                                         *)
(* The file survives the process. Each action is one synchronous stretch   *)
(* of the adapter; the controller that sends the inputs is ThreadExecution.*)
(***************************************************************************)
EXTENDS FiniteSets

CONSTANT Works  \* work ids: the stable identities of inputs

VARIABLES
  receipts,  \* the session file: accepted, landed, completed and deferred work
  alive,     \* does the process run?
  active,    \* activeWork: what the next settlement will name
  inbox,     \* inputs Pi holds that have not entered the conversation
  unacked,   \* pendingInputs: taken, not yet acknowledged by Pi
  blocked    \* a cancellation that has not been confirmed

nativeVars == <<receipts, alive, active, inbox, unacked, blocked>>

Receipts == [accepted : SUBSET Works, landed : SUBSET Works,
             completed : SUBSET Works, deferred : SUBSET Works]

Init ==
  /\ receipts = [accepted |-> {}, landed |-> {}, completed |-> {}, deferred |-> {}]
  /\ alive = FALSE /\ blocked = FALSE
  /\ active = {} /\ inbox = {} /\ unacked = {}

-----------------------------------------------------------------------------
(* An input command and its answer.                                        *)

\* A run is open from its first input to its settlement.
Busy == active # {} \/ blocked

RedeliveryIfIdle(w) ==
  w \in receipts.deferred \/ w \in receipts.accepted \ (receipts.completed \cup active)

\* Taken before, but neither in the conversation nor in a live queue.
Redelivery(w) ==
  \/ w \in receipts.deferred
  \/ w \in receipts.accepted \ (receipts.landed \cup receipts.completed \cup active)

Known(w) == w \in receipts.accepted /\ ~Redelivery(w)

Continues(w, resume) == resume /\ Known(w) /\ w \notin receipts.completed

\* "pending" is answered later, when Pi acknowledges or rejects the input.
Reply(w, kind, resume) ==
  IF blocked THEN "refused"
  ELSE IF Known(w) THEN IF Continues(w, resume) /\ Busy THEN "refused" ELSE "accepted"
  ELSE IF kind = "prompt" /\ Busy THEN "refused" ELSE "pending"

\* thread_input, or thread_redelivery of an earlier one.
Taken(w) ==
  /\ receipts' = [receipts EXCEPT !.accepted = @ \cup {w}, !.deferred = @ \ {w},
                                  !.completed = @ \ {w}]
  /\ active' = active \cup {w}
  /\ inbox' = inbox \cup {w}
  /\ unacked' = unacked \cup {w}
  /\ UNCHANGED <<alive, blocked>>

\* thread_resume: the run continues without another user message.
Resumed(w) ==
  /\ active' = active \cup {w}
  /\ UNCHANGED <<receipts, alive, inbox, unacked, blocked>>

Input(w, kind, resume) ==
  /\ alive
  /\ CASE Reply(w, kind, resume) = "pending" -> Taken(w)
       [] Reply(w, kind, resume) = "accepted" /\ Continues(w, resume) -> Resumed(w)
       [] OTHER -> UNCHANGED nativeVars

Acknowledge(w) ==
  /\ w \in unacked
  /\ unacked' = unacked \ {w}
  /\ UNCHANGED <<receipts, alive, active, inbox, blocked>>

\* thread_rejected: Pi's preflight refused the input.
Reject(w) ==
  /\ w \in unacked
  /\ receipts' = [receipts EXCEPT !.accepted = @ \ {w}]
  /\ active' = active \ {w}
  /\ inbox' = inbox \ {w}
  /\ unacked' = unacked \ {w}
  /\ UNCHANGED <<alive, blocked>>

-----------------------------------------------------------------------------
(* The run.                                                                *)

\* message_start of a user message: thread_landed.
Land(w) ==
  /\ w \in inbox \ unacked /\ ~blocked
  /\ receipts' = [receipts EXCEPT !.landed = @ \cup {w}]
  /\ inbox' = inbox \ {w}
  /\ UNCHANGED <<alive, active, unacked, blocked>>

SettleableEarly == active # {} /\ ~blocked /\ unacked = {}

\* Nothing runs, nothing is queued: the run's work is settled.
Settleable == active # {} /\ ~blocked /\ unacked = {} /\ inbox = {}

Settle ==
  /\ Settleable
  /\ receipts' = [receipts EXCEPT !.completed = @ \cup active]
  /\ active' = {}
  /\ UNCHANGED <<alive, inbox, unacked, blocked>>

BeginAbort ==
  /\ alive
  /\ blocked' = TRUE
  /\ UNCHANGED <<receipts, alive, active, inbox, unacked>>

\* The work of the run that never entered the conversation.
DeferredByAbort == active \ receipts.landed

\* The run has stopped: thread_settled for what landed, thread_deferred for
\* the rest, which becomes dispatchable again.
EndAbort ==
  LET deferred == DeferredByAbort IN
  /\ blocked
  /\ receipts' = [receipts EXCEPT
       !.accepted = @ \ deferred, !.deferred = @ \cup deferred,
       !.completed = (@ \ deferred) \cup (active \ deferred)]
  /\ active' = {} /\ inbox' = {} /\ unacked' = {}
  /\ blocked' = FALSE
  /\ UNCHANGED alive

\* The process is gone with its queues and runs; the file is not.
Exit ==
  /\ alive
  /\ alive' = FALSE /\ blocked' = FALSE
  /\ active' = {} /\ inbox' = {} /\ unacked' = {}
  /\ UNCHANGED receipts

Open ==
  /\ alive' = TRUE
  /\ UNCHANGED <<receipts, active, inbox, unacked, blocked>>

Next ==
  \/ \E w \in Works :
       \/ \E kind \in {"prompt", "steer"}, resume \in BOOLEAN : Input(w, kind, resume)
       \/ Acknowledge(w) \/ Reject(w) \/ Land(w)
  \/ Settle \/ BeginAbort \/ EndAbort \/ Exit \/ Open

Spec == Init /\ [][Next]_nativeVars

-----------------------------------------------------------------------------
(* Properties.                                                             *)

\* The adapter's own bookkeeping agrees: what Pi has not acknowledged is still
\* in Pi's queue, and what is queued is work of the run, so no settlement can
\* name less than what the run may still deliver.
TypeOK ==
  /\ receipts \in Receipts
  /\ alive \in BOOLEAN /\ blocked \in BOOLEAN
  /\ active \subseteq Works
  /\ unacked \subseteq inbox /\ inbox \subseteq active

\* Whatever was deferred, redelivered, resumed or interrupted by a crash, an
\* input that entered the conversation never waits in Pi's queue again.
LandsOnce == inbox \cap receipts.landed = {}

\* Only what the model was shown is ever reported as settled.
SettledLanded == receipts.completed \subseteq receipts.landed

\* An input given back by a cancellation is given back whole: no receipt and
\* no live queue still claims it, so sending it again delivers it.
DeferredIsFree ==
  receipts.deferred \cap (receipts.accepted \cup receipts.landed \cup active) = {}

Phase(w) ==
  IF w \in receipts.completed THEN "settled"
  ELSE IF w \in receipts.landed THEN "delivered"
  ELSE IF w \in receipts.accepted THEN "taken" ELSE "outside"

Delivery == INSTANCE InputDelivery WITH phase <- [w \in Works |-> Phase(w)]

\* The session keeps the promise of InputDelivery.
KeepsDelivery == Delivery!Spec
=============================================================================
