-------------------------- MODULE ThreadExecution --------------------------
(***************************************************************************)
(* One thread as its controller runs it (threads/service.ts): the durable  *)
(* rows of its inputs and its open execution, the serial chain of its      *)
(* operations (drain, settlement jobs), the halt that runs beside that     *)
(* chain, and the native session (NativeSession, InputStatus) they drive   *)
(* over one ordered connection.                                            *)
(*                                                                         *)
(* Everything the controller does between two awaits is one action; "at"   *)
(* names what an operation awaits. An execution is named by its main work. *)
(* Capacity custody is what CapacityLedger shows it to be: a row is asked  *)
(* for, held, entered, and gone as soon as its release is requested.       *)
(***************************************************************************)
EXTENDS Naturals, Sequences, FiniteSets

CONSTANTS
  N,               \* bound: inputs ever sent; they are numbered in order
  Fronts,          \* bound: how often an input is put ahead of the others
  Deliveries,      \* how senders ask for delivery
  Controls,        \* which of stop, close and cancel are used
  NativeExits,     \* may the native process exit by itself?
  NativeRejects,   \* may Pi's preflight reject an input?
  AnswersLate,     \* may an answer take longer than the controller waits?
  ControllerStops  \* may the controller stop and be succeeded?

Works == 1..N
None == 0

ASSUME ExecutionAssumption ==
  /\ N \in Nat /\ Fronts \in Nat
  /\ Deliveries \subseteq {"queue", "steer", "hardSteer"}
  /\ Controls \subseteq {"stop", "close", "cancel"}
  /\ {NativeExits, NativeRejects, AnswersLate, ControllerStops} \subseteq BOOLEAN

VARIABLES
  work,     \* thread_work: status, delivery, front, execution, receipts, outcome
  thread,   \* the thread's hold, cancellation request, archive, execution, and the
            \* input whose acknowledgement is awaited (acknowledgementWait)
  custody,  \* thread_capacity of the execution each work would start
  runtime,  \* the controller's attachment to the native session
  job,      \* the operation at the head of the serial chain
  halt,     \* the halt under way
  settlements,  \* settlement jobs waiting in the serial chain
  pipe,     \* the input command on its way to the native session
  receipts, alive, active, inbox, unacked, blocked,  \* the native session's
  status    \* its record of input commands

nativeVars == <<receipts, alive, active, inbox, unacked, blocked, status>>
durable == <<work, thread, custody>>
memory == <<runtime, job, halt, settlements>>
vars == <<durable, memory, pipe, nativeVars>>

Native == INSTANCE NativeSession
Status == INSTANCE InputStatus

Outcomes == {"none", "complete", "failed", "cancelled"}

NoWork == [status |-> "absent", delivery |-> "queue", front |-> 0, execution |-> None,
           inserted |-> FALSE, landed |-> FALSE, outcome |-> "none"]

NoRuntime == [up |-> FALSE, execution |-> None, busy |-> FALSE, outcome |-> "none"]

\* "runtime" is the attachment the operation captured: the present one, one
\* that is gone, or none.
Idle == [at |-> "idle", work |-> None, execution |-> None, runtime |-> "none",
         outcome |-> "none", opening |-> FALSE, prompt |-> FALSE,
         accepted |-> {}, completed |-> {}]

Halting(at) == [at |-> at, runtime |-> "none"]

NoInput == [work |-> None, execution |-> None, kind |-> "prompt", resume |-> FALSE]

Init ==
  /\ work = [w \in Works |-> NoWork]
  /\ thread = [held |-> "no", request |-> "none", archived |-> FALSE,
               execution |-> None, fronts |-> 0, wait |-> None]
  /\ custody = [w \in Works |-> "none"]
  /\ runtime = NoRuntime /\ job = Idle /\ halt = Halting("idle")
  /\ settlements = <<>> /\ pipe = NoInput
  /\ Native!Init /\ Status!Init

-----------------------------------------------------------------------------
(* What the operations read and write.                                     *)

IsQueued(w) == work[w].status = "queued"
Queued == {w \in Works : IsQueued(w)}
Pending == {w \in Works : work[w].status \in {"queued", "dispatched"}}
Unfinished(e) == {w \in Works : work[w].execution = e /\ work[w].status # "done"}

AheadIfNewer(v, w) ==
  work[v].front > work[w].front \/ (work[v].front = work[w].front /\ v > w)

\* ORDER BY front DESC, ordinal.
Ahead(v, w) ==
  work[v].front > work[w].front \/ (work[v].front = work[w].front /\ v < w)

First(ws) == CHOOSE w \in ws : \A v \in ws \ {w} : Ahead(w, v)

\* Date.now(): later than every front given before.
NewFront == thread.fronts + 1

\* While an execution is open only steers join it.
Selectable(open) ==
  {w \in Queued : open # None => work[w].delivery \in {"steer", "hardSteer"}}

\* runnerReference: kept while a session or its startup may exist.
Referenced == alive \/ \E w \in Works : custody[w] = "entered"

Opening ==
  \/ job.opening \/ job.at \in {"reacquire", "reopen", "rename", "redeliver"}
  \/ job.at = "open" /\ ~runtime.up

InUse == runtime.up \/ Opening \/ thread.execution # None \/ Referenced

AdoptedNothing == work

\* adoptLanded: native landing receipts become durable.
Adopted ==
  [w \in Works |-> IF work[w].status = "dispatched" /\ w \in receipts.landed
                   THEN [work[w] EXCEPT !.landed = TRUE] ELSE work[w]]

\* confirmInput and rejectInput do nothing once the thread is held or halted.
MayDispatch == thread.held = "no" /\ halt.at = "idle"

Correlated(w) ==
  /\ MayDispatch /\ work[w].status = "dispatched"
  /\ thread.execution # None /\ work[w].execution = thread.execution

\* adoptReference: receipts also confirm an acknowledgement that is awaited.
Confirmed ==
  {w \in {thread.wait} \cap (receipts.accepted \cup receipts.completed) : Correlated(w)}

AdoptedReference ==
  [w \in Works |-> IF w \in Confirmed THEN [Adopted[w] EXCEPT !.inserted = TRUE]
                   ELSE Adopted[w]]

\* The wait for an acknowledgement ends with it, or with the execution.
EndWait(ws) == [thread EXCEPT !.wait = IF @ \in ws THEN None ELSE @]

Ended == [thread EXCEPT !.execution = None, !.wait = None]

Unclaimed(states) ==
  [w \in Works |-> IF custody[w] \in states THEN "none" ELSE custody[w]]

NoCustody == [w \in Works |-> "none"]

FinishedUnseen(table, e, outcome) ==
  [w \in Works |->
     IF table[w].execution # e \/ table[w].status = "done" THEN table[w]
     ELSE IF outcome = "cancelled" /\ w # e
     THEN [table[w] EXCEPT !.status = "queued", !.execution = None, !.inserted = FALSE]
     ELSE [table[w] EXCEPT !.status = "done", !.outcome = outcome]]

FinishedMain(table, e, outcome) ==
  [table EXCEPT ![e].status = "done", ![e].outcome = outcome]

\* finish, its transaction: a cancelled execution gives back what the
\* conversation never saw; everything else of the execution is done.
Finished(table, e, outcome) ==
  [w \in Works |->
     IF table[w].execution # e \/ table[w].status = "done" THEN table[w]
     ELSE IF outcome = "cancelled" /\ w # e /\ ~table[w].landed
     THEN [table[w] EXCEPT !.status = "queued", !.execution = None, !.inserted = FALSE]
     ELSE [table[w] EXCEPT !.status = "done", !.outcome = outcome]]

Lost(op) == IF op.runtime = "live" THEN [op EXCEPT !.runtime = "stale"] ELSE op

\* retire: the attachment is dropped and the native session closed, over the
\* control socket; a command still in the session's own socket is lost.
Retire ==
  /\ runtime' = NoRuntime /\ settlements' = <<>> /\ pipe' = NoInput
  /\ Native!Exit /\ UNCHANGED status

Keep == UNCHANGED <<runtime, settlements, pipe, nativeVars>>

-----------------------------------------------------------------------------
(* Requests to the thread.                                                 *)

Interrupt(starts) == halt' = IF starts /\ halt.at = "idle" THEN Halting("begin") ELSE halt

\* thread.state = "running" of a held thread: its cancellation failed, or it
\* was held with work unfinished.
HeldRunning ==
  \/ thread.held = "failed"
  \/ thread.held = "pending" /\ Pending # {}

\* An input to a held thread resumes it, ahead of what it held.
Send(w, delivery) ==
  LET first == delivery = "hardSteer" \/ thread.held # "no" IN
  /\ work[w].status = "absent" /\ \A v \in 1..(w - 1) : work[v].status # "absent"
  /\ ~thread.archived /\ halt.at = "idle" /\ ~HeldRunning
  /\ work' = [work EXCEPT ![w] = [NoWork EXCEPT !.status = "queued", !.delivery = delivery,
                                                !.front = IF first THEN NewFront ELSE 0]]
  /\ thread' = [thread EXCEPT !.held = "no", !.fronts = IF first THEN NewFront ELSE @]
  /\ thread'.fronts <= Fronts
  /\ Interrupt(delivery = "hardSteer" /\ InUse)
  /\ UNCHANGED <<custody, runtime, job, settlements, pipe, nativeVars>>

PromoteMessage(w, delivery) ==
  LET first == delivery = "hardSteer" IN
  /\ IsQueued(w) /\ work[w].delivery # delivery
  /\ first => ~HeldRunning
  /\ work' = [work EXCEPT ![w].delivery = delivery, ![w].front = IF first THEN NewFront ELSE 0]
  /\ thread' = IF first THEN [thread EXCEPT !.held = "no", !.fronts = NewFront] ELSE thread
  /\ thread'.fronts <= Fronts
  /\ Interrupt(first /\ InUse)
  /\ UNCHANGED <<custody, runtime, job, settlements, pipe, nativeVars>>

CancelMessage(w) ==
  /\ job.at = "idle" /\ IsQueued(w)
  /\ work' = [work EXCEPT ![w].status = "done", ![w].outcome = "cancelled"]
  /\ UNCHANGED <<thread, custody, memory, pipe, nativeVars>>

\* control: "stop" of an ordinary thread is recorded as "close".
Control(action) ==
  /\ ~(action # "cancel" /\ thread.archived /\ thread.execution = None
       /\ Pending = {} /\ ~runtime.busy)
  /\ thread' = [thread EXCEPT !.held = "pending",
                  !.request = IF action = "cancel" THEN "cancel" ELSE "close"]
  /\ Interrupt(TRUE)
  /\ UNCHANGED <<work, custody, runtime, job, settlements, pipe, nativeVars>>

CancelledDispatched(table) ==
  [w \in Works |-> IF table[w].status = "dispatched"
                   THEN [table[w] EXCEPT !.status = "done", !.outcome = "cancelled"]
                   ELSE table[w]]

Cancelled(table) ==
  [w \in Works |-> IF table[w].status \in {"queued", "dispatched"}
                   THEN [table[w] EXCEPT !.status = "done", !.outcome = "cancelled"]
                   ELSE table[w]]

Reopen ==
  /\ halt.at = "idle"
  /\ thread.archived \/ thread.held # "no"
  /\ thread.held # "no" => /\ thread.execution = None /\ ~runtime.busy
                           /\ \A w \in Works : custody[w] # "entered"
  /\ work' = Cancelled(work)
  /\ thread' = [thread EXCEPT !.held = "no", !.archived = FALSE]
  /\ custody' = Unclaimed({"requested", "held"})
  /\ UNCHANGED <<memory, pipe, nativeVars>>

-----------------------------------------------------------------------------
(* The serial chain: drain, up to its first await.                         *)

DrainReady == job.at = "idle" /\ MayDispatch /\ ~thread.archived

Unassigned == thread.execution = None /\ \E w \in Works : custody[w] = "entered"

MustHalt ==
  /\ \E w \in Queued : work[w].delivery = "hardSteer"
  /\ thread.execution # None \/ runtime.up \/ Referenced

\* The next input, unless nothing may join what runs.
Chosen(open, attachment) ==
  IF Selectable(open) = {} \/ (open = None /\ attachment = "live" /\ runtime.busy)
  THEN Idle
  ELSE [Idle EXCEPT !.at = "prepare", !.work = First(Selectable(open)),
                    !.execution = open, !.runtime = attachment]

DrainUnassigned ==
  /\ DrainReady /\ Unassigned
  /\ job' = [Idle EXCEPT !.at = "unassigned"]
  /\ UNCHANGED <<durable, runtime, halt, settlements, pipe, nativeVars>>

DrainHardSteer ==
  /\ DrainReady /\ ~Unassigned /\ MustHalt
  /\ job' = [Idle EXCEPT !.at = "awaitHalt"]
  /\ halt' = Halting("begin")
  /\ UNCHANGED <<durable, runtime, settlements, pipe, nativeVars>>

DrainRecover ==
  /\ DrainReady /\ ~MustHalt /\ thread.execution # None /\ ~runtime.up
  /\ job' = [Idle EXCEPT !.at = "reacquire", !.execution = thread.execution]
  /\ custody' = [custody EXCEPT ![thread.execution] = IF @ = "none" THEN "entered" ELSE @]
  /\ UNCHANGED <<work, thread, runtime, halt, settlements, pipe, nativeVars>>

DrainSelect ==
  /\ DrainReady /\ ~Unassigned /\ ~MustHalt
  /\ thread.execution # None => runtime.up
  /\ thread.wait = None
  /\ job' = Chosen(thread.execution, IF runtime.up THEN "live" ELSE "none") /\ job' # Idle
  /\ UNCHANGED <<durable, runtime, halt, settlements, pipe, nativeVars>>

\* recoverUnassignedCapacity: custody that no execution claims.
RecoverUnassigned ==
  /\ job.at = "unassigned" /\ pipe = NoInput
  /\ work' = Adopted
  /\ job' = Idle
  /\ runtime' = IF alive THEN [runtime EXCEPT !.up = TRUE, !.busy = Native!Busy] ELSE runtime
  /\ custody' = IF alive /\ Native!Busy THEN custody ELSE NoCustody
  /\ UNCHANGED <<thread, halt, settlements, pipe, nativeVars>>

\* The halt drain waited for has succeeded.
DrainAfterHalt ==
  /\ job.at = "halted"
  /\ job' = Chosen(thread.execution, "none")
  /\ UNCHANGED <<durable, runtime, halt, settlements, pipe, nativeVars>>

-----------------------------------------------------------------------------
(* The serial chain: recovery of an open execution.                        *)

Reacquired ==
  /\ job.at = "reacquire"
  /\ IF custody[job.execution] = "none" \/ ~MayDispatch
     THEN job' = Idle /\ UNCHANGED custody
     ELSE /\ job' = [job EXCEPT !.at = "reopen"]
          /\ custody' = [custody EXCEPT ![job.execution] = "entered"]
  /\ UNCHANGED <<work, thread, runtime, halt, settlements, pipe, nativeVars>>

\* openSession and its get_state: what the session says is kept until the
\* session has been renamed.
Reopened ==
  /\ job.at = "reopen" /\ pipe = NoInput
  /\ Native!Open
  /\ work' = AdoptedReference /\ thread' = EndWait(Confirmed)
  /\ runtime' = [NoRuntime EXCEPT !.up = TRUE, !.busy = Native!Busy]
  /\ job' = [job EXCEPT !.at = "rename", !.runtime = "live",
               !.accepted = receipts.accepted, !.completed = receipts.completed]
  /\ UNCHANGED <<custody, halt, settlements, pipe, status>>

\* finish, up to its own get_state, with the attachment of the job.
FinishBy(outcome, attached, table, row, opening) ==
  LET e == thread.execution
      o == IF thread.request # "none" THEN "cancelled" ELSE outcome
  IN IF e = None \/ attached.execution # e
     THEN /\ job' = Idle /\ runtime' = attached /\ work' = table
          /\ thread' = row /\ UNCHANGED custody
     ELSE IF o = "complete"
     THEN /\ job' = [Idle EXCEPT !.at = "finishing", !.execution = e, !.runtime = "live",
                                 !.outcome = o, !.opening = opening]
          /\ runtime' = attached /\ work' = table
          /\ thread' = row /\ UNCHANGED custody
     ELSE /\ job' = [Idle EXCEPT !.at = "park", !.runtime = "live", !.opening = opening]
          /\ work' = Finished(table, e, o)
          /\ thread' = Ended
          /\ custody' = [custody EXCEPT ![e] = "none"]
          /\ runtime' = [attached EXCEPT !.execution = None, !.busy = FALSE]

RecoveredIdle(e) == ~runtime.busy

\* The recovered session has completed the turn and does nothing else.
RecoveredDone(e) == ~runtime.busy /\ e \in job.completed

Renamed ==
  LET e == thread.execution
      attached == [runtime EXCEPT !.execution = e]
      w == CHOOSE v \in Unfinished(e) : \A u \in Unfinished(e) : v <= u
  IN /\ job.at = "rename" /\ job.runtime = "live"
     /\ IF RecoveredDone(e)
        THEN /\ \E o \in {"complete", "failed"} : FinishBy(o, attached, work, thread, TRUE)
             /\ UNCHANGED pipe
        ELSE /\ runtime' = attached
             /\ UNCHANGED durable
             /\ IF ~runtime.busy /\ Unfinished(e) # {} /\ MayDispatch
                THEN /\ pipe' = [work |-> w, execution |-> e, kind |-> "prompt",
                                 resume |-> w \in job.accepted \/ work[w].inserted]
                     /\ job' = [job EXCEPT !.at = "redeliver", !.work = w]
                ELSE job' = Idle /\ UNCHANGED pipe
     /\ UNCHANGED <<halt, settlements, nativeVars>>

-----------------------------------------------------------------------------
(* The serial chain: dispatch of the chosen input.                         *)

\* The recheck after each await that finds the dispatch no longer wanted
\* gives back the custody that has not reached a session.
GiveUp ==
  /\ job' = Idle
  /\ custody' = [custody EXCEPT ![job.work] = IF @ = "entered" THEN @ ELSE "none"]

StillWanted == MayDispatch /\ IsQueued(job.work)

\* The row is dispatched and the input sent: a prompt to an idle session, a
\* steer to a busy one. Without an open execution there is no input to send.
\* The connection is ordered and holds one input: the one before was taken.
Dispatched(w, e, open, attached) ==
  /\ work' = [work EXCEPT ![w].status = "dispatched", ![w].execution = e]
  /\ IF open = None \/ attached = "stale"
     THEN job' = Idle /\ UNCHANGED pipe
     ELSE /\ job' = [job EXCEPT !.at = "deliver", !.runtime = attached,
                                !.prompt = ~runtime.busy]
          /\ pipe = NoInput
          /\ pipe' = [work |-> w, execution |-> open, resume |-> FALSE,
                      kind |-> IF runtime.busy THEN "steer" ELSE "prompt"]

Prepared ==
  LET w == job.work IN
  /\ job.at = "prepare"
  /\ IF ~StillWanted
     THEN job' = Idle /\ UNCHANGED <<work, custody, pipe>>
     ELSE IF job.execution = None
     THEN /\ job' = [job EXCEPT !.at = "acquire"]
          /\ custody' = [custody EXCEPT ![w] = IF @ = "none" THEN "requested" ELSE @]
          /\ UNCHANGED <<work, pipe>>
     ELSE /\ Dispatched(w, job.execution, thread.execution, job.runtime)
          /\ UNCHANGED custody
  /\ UNCHANGED <<thread, runtime, halt, settlements, nativeVars>>

\* An acquire crossed by a release of the thread's custody fails.
Acquired ==
  LET w == job.work IN
  /\ job.at = "acquire"
  /\ IF custody[w] = "none" THEN job' = Idle /\ UNCHANGED custody
     ELSE IF ~StillWanted THEN GiveUp
     ELSE /\ job' = [job EXCEPT !.at = "admit"]
          /\ custody' = [custody EXCEPT ![w] = IF @ = "requested" THEN "held" ELSE @]
  /\ UNCHANGED <<work, thread, runtime, halt, settlements, pipe, nativeVars>>

\* A warm session of other settings is closed first.
Replaced ==
  /\ job.at = "admit" /\ job.runtime = "live" /\ StillWanted
  /\ ~runtime.busy /\ runtime.execution = None /\ ~Native!Busy
  /\ Retire
  /\ job' = [job EXCEPT !.at = "replaced", !.runtime = "stale"]
  /\ UNCHANGED <<durable, halt>>

\* entered marks a held row only; after a replacement nothing is checked again.
Admitted ==
  LET w == job.work IN
  /\ job.at \in {"admit", "replaced"}
  /\ IF job.at = "admit" /\ ~StillWanted THEN GiveUp
     ELSE /\ job' = [job EXCEPT !.at = "open"]
          /\ custody' = [custody EXCEPT ![w] = IF @ = "held" THEN "entered" ELSE @]
  /\ UNCHANGED <<work, thread, runtime, halt, settlements, pipe, nativeVars>>

Opened ==
  LET w == job.work
      attached == IF runtime.up THEN runtime
                  ELSE [NoRuntime EXCEPT !.up = TRUE, !.busy = Native!Busy]
  IN /\ job.at = "open" /\ pipe = NoInput
     /\ IF runtime.up THEN UNCHANGED nativeVars ELSE Native!Open /\ UNCHANGED status
     /\ IF ~StillWanted
        THEN /\ job' = [Idle EXCEPT !.at = "park", !.runtime = "live"]
             /\ custody' = IF attached.busy THEN custody ELSE [custody EXCEPT ![w] = "none"]
             /\ runtime' = attached
             /\ UNCHANGED <<work, thread, pipe>>
        ELSE /\ thread' = [thread EXCEPT !.execution = w]
             /\ runtime' = [attached EXCEPT !.execution = w, !.outcome = "none"]
             /\ work' = [work EXCEPT ![w].status = "dispatched", ![w].execution = w]
             /\ job' = [job EXCEPT !.at = "deliver", !.runtime = "live",
                                   !.execution = w, !.prompt = ~attached.busy]
             /\ pipe' = [work |-> w, execution |-> w, resume |-> FALSE,
                         kind |-> IF attached.busy THEN "steer" ELSE "prompt"]
             /\ UNCHANGED custody
     /\ UNCHANGED <<halt, settlements>>

-----------------------------------------------------------------------------
(* The answer to an input, at once or when Pi acknowledges it.             *)

Inserted(w, landed) ==
  [work EXCEPT ![w].inserted = TRUE, ![w].landed = @ \/ landed]

AwaitsAnswer(at, w) == job.at = at /\ job.work = w /\ job.runtime = "live"

\* agent_start
Running(attached) == [attached EXCEPT !.busy = @ \/ (attached.up /\ Native!Busy')]

\* An answer nobody waits for any more still confirms or rejects its input.
LateAnswer(w, ok) ==
  /\ work' = IF runtime.up /\ Correlated(w) /\ ok THEN Inserted(w, FALSE) ELSE work
  /\ settlements' = IF runtime.up /\ Correlated(w) /\ ~ok
       THEN Append(settlements, [kind |-> "rejected", works |-> {w}, outcome |-> "failed",
                                 execution |-> thread.execution])
       ELSE settlements
  /\ runtime' = Running(runtime)
  /\ thread' = IF runtime.up /\ Correlated(w) /\ ok THEN EndWait({w}) ELSE thread
  /\ UNCHANGED <<custody, job>>

Accepted(w) ==
  CASE AwaitsAnswer("deliver", w) ->
         /\ work' = IF Correlated(w) THEN Inserted(w, job.prompt) ELSE work
         /\ runtime' = IF MayDispatch THEN [runtime EXCEPT !.busy = TRUE] ELSE Running(runtime)
         /\ job' = Idle
         /\ thread' = IF Correlated(w) THEN EndWait({w}) ELSE thread
         /\ UNCHANGED <<custody, settlements>>
    [] AwaitsAnswer("redeliver", w) ->
         /\ work' = IF Correlated(w) THEN Inserted(w, TRUE) ELSE [work EXCEPT ![w].landed = TRUE]
         /\ runtime' = [runtime EXCEPT !.busy = TRUE]
         /\ job' = Idle
         /\ thread' = IF Correlated(w) THEN EndWait({w}) ELSE thread
         /\ UNCHANGED <<custody, settlements>>
    [] OTHER -> LateAnswer(w, TRUE)

\* A rejected delivery fails the execution; a rejected recovery drops the
\* attachment and is tried again.
Refused(w) ==
  CASE AwaitsAnswer("deliver", w) /\ halt.at = "idle" ->
         FinishBy("failed", runtime, work, thread, FALSE) /\ UNCHANGED settlements
    [] AwaitsAnswer("deliver", w) /\ halt.at # "idle" ->
         job' = Idle /\ UNCHANGED <<durable, runtime, settlements>>
    [] AwaitsAnswer("redeliver", w) ->
         /\ job' = [Idle EXCEPT !.at = "discard", !.opening = TRUE]
         /\ runtime' = NoRuntime /\ settlements' = <<>>
         /\ UNCHANGED durable
    [] OTHER -> LateAnswer(w, FALSE)

\* openOwned, its error path: a session that is not busy is closed.
Discard ==
  /\ job.at = "discard"
  /\ job' = Idle
  /\ IF alive /\ ~Native!Busy THEN Native!Exit /\ pipe' = NoInput /\ UNCHANGED status
     ELSE UNCHANGED <<pipe, nativeVars>>
  /\ UNCHANGED <<durable, runtime, halt, settlements>>

\* AcknowledgementTimeout: the input stays dispatched and the chain is free
\* for other operations, but no further input is sent.
Unacknowledged ==
  LET w == job.work IN
  IF thread.execution # job.execution \/ thread.held # "no"
  THEN job' = Idle /\ UNCHANGED <<durable, runtime, settlements>>
  ELSE IF work[w].inserted \/ work[w].landed THEN Accepted(w)
  ELSE /\ job' = Idle
       /\ thread' = [thread EXCEPT !.wait = w]
       /\ runtime' = [runtime EXCEPT !.busy = TRUE]
       /\ UNCHANGED <<work, custody, settlements>>

TimeOut ==
  /\ AnswersLate
  /\ job.at \in {"deliver", "redeliver"} /\ job.runtime = "live"
  /\ UNCHANGED <<halt, pipe, nativeVars>>
  /\ Unacknowledged

\* inputUnconfirmed
Unconfirmed(w) ==
  IF AwaitsAnswer("deliver", w) \/ AwaitsAnswer("redeliver", w) THEN Unacknowledged
  ELSE UNCHANGED <<durable, runtime, job, settlements>>

\* drain asks the session what became of an input it has waited long for.
DrainProbe ==
  /\ DrainReady /\ ~MustHalt
  /\ thread.wait # None /\ runtime.up
  /\ job' = [Idle EXCEPT !.at = "probe", !.work = thread.wait, !.runtime = "live",
                         !.execution = thread.execution]
  /\ UNCHANGED <<durable, runtime, halt, settlements, pipe, nativeVars>>

\* rejectInput, of an input that neither is nor will be in the session.
Retired(w) ==
  IF Correlated(w) /\ ~work[w].inserted /\ ~work[w].landed
  THEN [work EXCEPT ![w].status = "done", ![w].outcome = "failed"] ELSE work

IsRetiredUnlessAccepted(state) == state # "accepted"

IsRetired(state) == state \in {"rejected", "never_accepted"}

\* The answer comes after all commands sent before. If it settles the wait,
\* drain goes on with the execution it knew.
Probed ==
  LET w == job.work
      admitted == w \in receipts.accepted \cup receipts.deferred
      state == Status!Query(job.execution, w, admitted)
      same == MayDispatch /\ thread.execution = job.execution
  IN /\ job.at = "probe" /\ job.runtime = "live" /\ pipe = NoInput
     /\ work' = IF ~same THEN work
               ELSE IF state = "accepted" THEN IF Correlated(w) THEN Inserted(w, FALSE) ELSE work
               ELSE IF IsRetired(state) THEN Retired(w) ELSE work
     /\ thread' = IF same /\ (state = "accepted" \/ IsRetired(state)) THEN EndWait({w}) ELSE thread
     /\ job' = IF thread'.wait = None THEN Chosen(job.execution, "live") ELSE Idle
     /\ UNCHANGED <<custody, runtime, halt, settlements, pipe, nativeVars>>

Abandoned ==
  /\ job.at \in {"deliver", "redeliver", "rename", "probe", "settling", "finishing"}
  /\ job.runtime = "stale"
  /\ job' = Idle
  /\ UNCHANGED <<durable, runtime, halt, settlements, pipe, nativeVars>>

-----------------------------------------------------------------------------
(* The serial chain: settlement jobs and parking.                          *)

\* The checks before the first await of a settlement job.
ServeSettlement ==
  LET s == Head(settlements) IN
  /\ job.at = "idle" /\ settlements # <<>>
  /\ settlements' = Tail(settlements)
  /\ CASE s.kind = "rejected" /\ thread.execution = s.execution /\ thread.held = "no" ->
            FinishBy("failed", runtime, work, thread, FALSE)
       [] s.kind = "settled" /\ runtime.execution = s.execution
            /\ (thread.execution # None => thread.execution \in s.works) ->
            /\ job' = [Idle EXCEPT !.at = "settling", !.execution = thread.execution,
                                   !.runtime = "live", !.outcome = s.outcome]
            /\ UNCHANGED <<durable, runtime>>
       [] OTHER -> UNCHANGED <<durable, runtime, job>>
  /\ UNCHANGED <<halt, pipe, nativeVars>>

UnsettledReceipt(e) == e # None /\ e \notin receipts.completed

UnsettledProjection(e) == runtime.busy \/ (e # None /\ e \notin receipts.completed)

\* What the session answers before a turn is settled.
Unsettled(e) == Native!Busy \/ (e # None /\ e \notin receipts.completed)

Settling ==
  /\ job.at = "settling" /\ job.runtime = "live" /\ pipe = NoInput
  /\ IF Unsettled(job.execution)
     THEN /\ job' = Idle /\ work' = AdoptedReference /\ thread' = EndWait(Confirmed)
          /\ UNCHANGED <<custody, runtime>>
     ELSE IF runtime.execution = None
     THEN /\ job' = [Idle EXCEPT !.at = "park", !.runtime = "live"]
          /\ runtime' = [runtime EXCEPT !.busy = FALSE]
          /\ custody' = NoCustody
          /\ work' = AdoptedReference /\ thread' = EndWait(Confirmed)
     ELSE FinishBy(IF thread.held = "no" THEN job.outcome ELSE "cancelled",
                   runtime, AdoptedReference, EndWait(Confirmed), FALSE)
  /\ UNCHANGED <<halt, settlements, pipe, nativeVars>>

\* finish asks the session once more before it calls a turn complete.
Finishing ==
  /\ job.at = "finishing" /\ job.runtime = "live" /\ pipe = NoInput
  /\ IF Native!Busy \/ thread.execution # job.execution
     THEN job' = Idle /\ UNCHANGED <<durable, runtime>>
     ELSE /\ job' = [job EXCEPT !.at = "park"]
          /\ work' = Finished(work, job.execution, job.outcome)
          /\ thread' = Ended
          /\ custody' = [custody EXCEPT ![job.execution] = "none"]
          /\ runtime' = [runtime EXCEPT !.execution = None, !.busy = FALSE]
  /\ UNCHANGED <<halt, settlements, pipe, nativeVars>>

Unused == ~runtime.busy /\ runtime.execution = None /\ ~Native!Busy

\* park: an idle session stays warm, or is closed.
Park ==
  /\ job.at = "park"
  /\ job' = Idle
  /\ \/ Keep
     \/ /\ job.runtime = "live" /\ halt.at = "idle" /\ thread.execution = None /\ Unused
        /\ Retire
  /\ UNCHANGED <<durable, halt>>

-----------------------------------------------------------------------------
(* The halt.                                                               *)

Halts(at) == halt' = [halt EXCEPT !.at = at]

\* Cancellation is not confirmed: the thread is held and halted again later.
HaltFails ==
  /\ halt' = Halting("idle")
  /\ thread' = [thread EXCEPT !.held = "failed"]
  /\ job' = IF job.at = "awaitHalt" THEN Idle ELSE job

\* The turn is finished with what is known of it, then all custody of the
\* thread is released.
HaltDecides(attachment, table) ==
  LET e == thread.execution
      o == IF thread.request = "none" /\ attachment = "live" /\ runtime.outcome # "none"
           THEN runtime.outcome ELSE "cancelled"
  IN IF e = None \/ (attachment = "live" /\ runtime.execution # e)
     THEN /\ Halts("release") /\ custody' = NoCustody /\ work' = table
          /\ UNCHANGED <<thread, runtime>>
     ELSE IF attachment = "live" /\ o = "complete"
     THEN /\ Halts("finish") /\ work' = table
          /\ UNCHANGED <<thread, custody, runtime>>
     ELSE /\ Halts("release") /\ custody' = NoCustody
          /\ work' = Finished(table, e, o)
          /\ thread' = Ended
          /\ runtime' = IF attachment = "live"
                        THEN [runtime EXCEPT !.execution = None, !.busy = FALSE] ELSE runtime

\* An opening is awaited; then the attachment is used or made, and without a
\* session the receipts are read from its file.
HaltBegin ==
  /\ halt.at = "begin" /\ ~Opening
  /\ IF alive
     THEN /\ halt' = [at |-> "abort", runtime |-> "live"]
          /\ runtime' = IF runtime.up THEN runtime
               ELSE [NoRuntime EXCEPT !.up = TRUE, !.execution = thread.execution,
                                      !.busy = Native!Busy]
          /\ work' = IF runtime.up THEN work ELSE Adopted
          /\ UNCHANGED <<thread, custody>>
     ELSE HaltDecides("none", Adopted)
  /\ UNCHANGED <<job, settlements, pipe, nativeVars>>

HaltAbort ==
  /\ halt.at = "abort" /\ halt.runtime = "live" /\ pipe = NoInput
  /\ Native!BeginAbort
  /\ Halts("aborting")
  /\ UNCHANGED <<durable, runtime, job, settlements, pipe, status>>

HaltState ==
  /\ halt.at = "state" /\ halt.runtime = "live" /\ pipe = NoInput
  /\ IF Native!Busy
     THEN HaltFails /\ UNCHANGED <<work, custody, runtime>>
     ELSE HaltDecides("live", Adopted) /\ UNCHANGED job
  /\ UNCHANGED <<settlements, pipe, nativeVars>>

HaltFinish ==
  LET e == thread.execution IN
  /\ halt.at = "finish" /\ halt.runtime = "live" /\ pipe = NoInput
  /\ Halts("release") /\ custody' = NoCustody
  /\ IF Native!Busy \/ e = None
     THEN UNCHANGED <<work, thread, runtime>>
     ELSE /\ work' = Finished(work, e, "complete")
          /\ thread' = Ended
          /\ runtime' = [runtime EXCEPT !.execution = None, !.busy = FALSE]
  /\ UNCHANGED <<job, settlements, pipe, nativeVars>>

\* retire, the confirmed hold, and completeCancellation.
HaltEnd ==
  LET retires == halt.runtime = "live" /\ Unused
      after == IF retires THEN Lost(job) ELSE job
  IN /\ halt.at = "release"
     /\ IF retires THEN Retire ELSE Keep
     /\ halt' = Halting("idle")
     /\ job' = IF job.at = "awaitHalt" THEN [Idle EXCEPT !.at = "halted"] ELSE after
     /\ IF thread.request = "none"
        THEN /\ thread' = [thread EXCEPT !.held = IF @ = "no" THEN "no" ELSE "confirmed"]
             /\ UNCHANGED work
        ELSE /\ thread' = [thread EXCEPT !.held = "no", !.request = "none",
                             !.archived = @ \/ thread.request = "close"]
             /\ work' = Cancelled(work)
     /\ UNCHANGED custody

HaltLost ==
  /\ halt.at \in {"abort", "aborting", "state", "finish"} /\ halt.runtime = "stale"
  /\ HaltFails
  /\ UNCHANGED <<work, custody, runtime, settlements, pipe, nativeVars>>

\* reconcile halts a held thread that is still running, has an open execution
\* or still holds capacity.
HaltAgain ==
  /\ halt.at = "idle" /\ thread.held # "no"
  /\ HeldRunning \/ thread.execution # None \/ custody # NoCustody
  /\ halt' = Halting("begin")
  /\ UNCHANGED <<durable, runtime, job, settlements, pipe, nativeVars>>

-----------------------------------------------------------------------------
(* The native session, and what the controller makes of its events.        *)

NativeTakes ==
  LET w == pipe.work
      recorded == Status!Recorded(pipe.execution, w)
      begun == IF pipe.resume THEN status ELSE Status!Begun(pipe.execution, w)
      reply == Native!Reply(w, pipe.kind, pipe.resume)
  IN /\ pipe # NoInput /\ alive
     /\ pipe' = NoInput
     /\ IF recorded # "never_accepted" /\ ~pipe.resume
        THEN /\ UNCHANGED nativeVars
             /\ CASE recorded = "accepted" -> Accepted(w)
                  [] recorded = "rejected" -> Refused(w)
                  [] recorded = "in_flight" -> Unconfirmed(w)
        ELSE /\ Native!Input(w, pipe.kind, pipe.resume)
             /\ CASE reply = "pending" -> /\ status' = begun
                                          /\ UNCHANGED <<durable, runtime, job, settlements>>
                  [] reply = "accepted" -> status' = Status!Answered(begun, w, TRUE) /\ Accepted(w)
                  [] reply = "refused" -> status' = Status!Answered(begun, w, FALSE) /\ Refused(w)
     /\ UNCHANGED halt

NativeAcknowledges(w) ==
  /\ Native!Acknowledge(w)
  /\ status' = Status!Answered(status, w, TRUE)
  /\ Accepted(w)
  /\ UNCHANGED <<halt, pipe>>

\* Pi's preflight, or a cancellation that overtook it.
NativeRefuses(w) ==
  /\ NativeRejects \/ blocked
  /\ Native!Reject(w)
  /\ status' = Status!Answered(status, w, FALSE)
  /\ Refused(w)
  /\ UNCHANGED <<halt, pipe>>

NativeLands(w) ==
  /\ Native!Land(w)
  /\ work' = IF runtime.up /\ work[w].status = "dispatched"
             THEN [work EXCEPT ![w].landed = TRUE] ELSE work
  /\ UNCHANGED <<thread, custody, memory, pipe, status>>

\* agent_settled: the outcome of the open execution, and a settlement job.
Settles(works, outcome) ==
  /\ runtime' = IF runtime.up /\ thread.execution \in works
                THEN [runtime EXCEPT !.outcome = outcome] ELSE runtime
  /\ settlements' = IF runtime.up /\ halt.at = "idle"
       THEN Append(settlements, [kind |-> "settled", works |-> works, outcome |-> outcome,
                                 execution |-> runtime.execution])
       ELSE settlements

NativeSettles(outcome) ==
  /\ Native!Settle
  /\ Settles(active, outcome)
  /\ UNCHANGED <<durable, job, halt, pipe, status>>

NativeHalts ==
  /\ Native!EndAbort
  /\ IF active = {} THEN UNCHANGED <<runtime, settlements>>
     ELSE Settles(active \ Native!DeferredByAbort, "cancelled")
  /\ IF halt.at = "aborting" THEN Halts("state") ELSE UNCHANGED halt
  /\ UNCHANGED <<durable, job, pipe, status>>

\* The process exits: every answer awaited from it is refused. It may have
\* recorded an input command and not yet the input.
NativeExit ==
  /\ NativeExits
  /\ Native!Exit
  /\ \/ UNCHANGED status
     \/ /\ pipe # NoInput /\ ~pipe.resume
        /\ Status!Recorded(pipe.execution, pipe.work) = "never_accepted"
        /\ status' = Status!Begun(pipe.execution, pipe.work)
  /\ runtime' = NoRuntime /\ settlements' = <<>> /\ pipe' = NoInput
  /\ job' = Lost(job) /\ halt' = Lost(halt)
  /\ UNCHANGED durable

\* The controller stops and its successor starts: its rows survive, and an
\* input on its way may still arrive.
ControllerStop ==
  /\ ControllerStops
  /\ runtime' = NoRuntime /\ job' = Idle /\ halt' = Halting("idle")
  /\ settlements' = <<>>
  /\ pipe' \in {pipe, NoInput}
  /\ UNCHANGED <<durable, nativeVars>>

-----------------------------------------------------------------------------
Requested ==
  \/ \E w \in Works, d \in Deliveries : Send(w, d) \/ PromoteMessage(w, d)
  \/ \E w \in Works : CancelMessage(w)
  \/ \E action \in Controls : Control(action)
  \/ Reopen

Drain == DrainUnassigned \/ DrainHardSteer \/ DrainRecover \/ DrainSelect \/ DrainProbe

JobStep ==
  \/ RecoverUnassigned \/ DrainAfterHalt \/ Reacquired \/ Reopened \/ Renamed
  \/ Prepared \/ Acquired \/ Admitted \/ Opened \/ Abandoned \/ Discard \/ Probed
  \/ Settling \/ Finishing \/ Park

HaltStep ==
  HaltBegin \/ HaltAbort \/ HaltState \/ HaltFinish \/ HaltEnd \/ HaltLost

NativeStep ==
  \/ NativeTakes \/ NativeHalts
  \/ \E w \in Works : NativeAcknowledges(w) \/ NativeLands(w)
  \/ \E o \in {"complete", "failed"} : NativeSettles(o)

Next ==
  \/ Requested \/ Drain \/ JobStep \/ ServeSettlement
  \/ HaltStep \/ HaltAgain \/ NativeStep
  \/ \E w \in Works : NativeRefuses(w)
  \/ Replaced \/ TimeOut \/ NativeExit \/ ControllerStop

Spec == Init /\ [][Next]_vars

\* Promises resolve, the native session works and answers, and the timer
\* queues a drain in the serial chain, which is first come first served.
FairSpec ==
  /\ Spec
  /\ WF_vars(JobStep) /\ WF_vars(HaltStep) /\ WF_vars(NativeStep)
  /\ SF_vars(Drain) /\ SF_vars(ServeSettlement) /\ WF_vars(HaltAgain)

-----------------------------------------------------------------------------
(* Properties.                                                             *)

\* The rows, the attachment and the session have the shapes the controller's
\* statements give them: an attachment names a live session, and the open
\* execution is one whose first input is no longer in the queue.
TypeOK ==
  /\ Native!TypeOK /\ Status!TypeOK
  /\ work \in [Works -> [status : {"absent", "queued", "dispatched", "done"},
       delivery : {"queue", "steer", "hardSteer"}, front : 0..Fronts,
       execution : Works \cup {None}, inserted : BOOLEAN, landed : BOOLEAN,
       outcome : Outcomes]]
  /\ thread \in [held : {"no", "pending", "failed", "confirmed"}, request : {"none", "close", "cancel"},
                 archived : BOOLEAN, execution : Works \cup {None}, fronts : 0..Fronts,
                 wait : Works \cup {None}]
  /\ custody \in [Works -> {"none", "requested", "held", "entered"}]
  /\ runtime.up => alive
  /\ ~runtime.up => runtime = NoRuntime
  /\ thread.execution # None => work[thread.execution].status # "queued"

\* An input in the queue is nowhere in the session: not in the conversation
\* and not in its run, so dispatching it cannot repeat it.
QueuedIsUndelivered ==
  \A w \in Queued : w \notin receipts.landed /\ w \notin active

\* A refused input ends its execution with what is known at that moment.
EndsByRefusal == job.at \in {"deliver", "idle"} /\ job' # job

\* What a halt, a settlement or a recovery gives back to the queue is not in
\* the conversation, whatever the controller missed while it or its session
\* was away.
GivenBackIsUnseen ==
  [][\A w \in Works :
       work[w].status = "dispatched" /\ work'[w].status = "queued" /\ ~EndsByRefusal
       => w \notin receipts.landed]_vars

\* The session runs nothing the durable rows do not account for.
NativeIsAccounted ==
  \A w \in active : work[w].status = "dispatched" /\ work[w].execution = thread.execution

\* Capacity custody covers whatever the session runs.
NativeHasCustody ==
  active # {} => \E w \in Works : custody[w] \in {"held", "entered"}

\* A dispatched input belongs to the open execution, which will settle it.
DispatchedIsOpen ==
  \A w \in Works :
    work[w].status = "dispatched" => thread.execution # None /\ work[w].execution = thread.execution

\* An execution recorded as complete ran: the input that opened it was in the
\* conversation, also when a successor decided its outcome from receipts.
CompleteWasLanded ==
  \A w \in Works :
    work[w].outcome = "complete" /\ work[w].execution = w => w \in receipts.landed

\* An archived thread is over: no input waits, nothing is open, nothing runs.
ArchivedIsQuiet ==
  thread.archived => thread.execution = None /\ active = {}
    /\ \A w \in Works : work[w].status \in {"absent", "done"}

\* The input that opens an execution is the one that is to run next as the
\* queue stands at that moment: moved to the front last, else sent first.
OpensInOrder ==
  [][\A w \in Works : thread.execution = None /\ thread'.execution = w =>
       \A v \in Queued \ {w} : work[v].front <= work[w].front
                               /\ (work[v].front = work[w].front => w < v)]_vars

\* An input that is given up while its execution goes on is nowhere in the
\* session, and no command of it is on its way.
RetiredIsUnseen ==
  [][\A w \in Works :
       /\ work[w].status = "dispatched" /\ work'[w].outcome = "failed"
       /\ thread'.execution = work[w].execution
       => w \notin active \cup receipts.landed /\ pipe.work # w]_vars

\* Dispatched into an execution that had ended meanwhile.
Orphaned(w) == work[w].status = "dispatched" /\ work[w].execution # thread.execution

\* Every accepted input is settled in the end, however late its answer, unless
\* it is orphaned (which DispatchedIsOpen says does not happen).
EveryInputSettles ==
  \A w \in Works : work[w].status = "queued" ~> work[w].status = "done" \/ Orphaned(w)

\* However the controller queues, halts, recovers and repeats, the session
\* lets no input into the conversation twice.
LandsOnce == Native!LandsOnce

\* The session a thread drives keeps the promise of InputDelivery.
KeepsDelivery == Native!KeepsDelivery
=============================================================================
